--------------------------- MODULE TaskParts_proofs ---------------------------
(* Proofs about the parts around a Task, for all values of their constants.  *)
(* What is proved of TaskCreation and TaskChange in modules of their own is  *)
(* carried over to the sum; the other parts are proved here, in place, each  *)
(* in a section of its own.                                                  *)
EXTENDS TaskParts, Sequences, FiniteSetTheorems, TLAPS

-----------------------------------------------------------------------------
(* Installer: the invariant                                                  *)

\* The lock is held by the one process that is not idle, until it ends.
LockIsExclusive == \A p \in Installation : install[p].at # "idle" => writer = p

\* No file is touched without the marker that a later run needs to repair it.
MarkerGuardsFiles ==
    \A p \in Installation :
          install[p].at \in {"write", "undo"} => marker # "none"

InstallInv == /\ Install!TypeOK /\ LockIsExclusive /\ MarkerGuardsFiles
              /\ Install!OneCompleteVersion

-----------------------------------------------------------------------------
(* Types                                                                     *)

InstallRun == [at : {"idle", "mark", "write", "undo", "clear"},
               goal : Install!Goal, todo : SUBSET Install!Target]

LEMMA OtherIsGoal == \A goal \in Install!Goal :
      Install!Other(goal) \in Install!Goal
BY DEF Install!Other, Install!Goal

LEMMA RestingIsRun == Install!Resting \in InstallRun
BY DEF Install!Resting, InstallRun, Install!Goal

\* A process ends as it began, and lets go of nothing but its own lock.
LEMMA InstallEnds ==
    ASSUME Install!TypeOK, LockIsExclusive, NEW p \in Installation,
           Install!End(p),
           NoInstallation \notin Installation, install[p].at # "idle"
    PROVE  /\ install' \in [Installation -> InstallRun]
           /\ writer' = NoInstallation
           /\ \A q \in Installation : install'[q].at = "idle"
<1>1. install \in [Installation -> InstallRun]
  BY DEF Install!TypeOK, InstallRun
<1>2. install' = [install EXCEPT ![p] = Install!Resting] /\ writer = p
      /\ writer' = NoInstallation
  BY DEF Install!End, LockIsExclusive
<1>3. \A q \in Installation \ {p} : install[q].at = "idle"
  BY <1>2 DEF LockIsExclusive
<1> QED
  BY <1>1, <1>2, <1>3, RestingIsRun DEF Install!Resting

\* Every other step of a process moves it alone.
LEMMA InstallMoves ==
    ASSUME Install!TypeOK, LockIsExclusive, NEW p \in Installation,
           install[p].at # "idle",
           NEW r \in InstallRun, install' = [install EXCEPT ![p] = r],
           writer' = writer
    PROVE  /\ install' \in [Installation -> InstallRun] /\ writer' = p
           /\ install'[p] = r
           /\ \A q \in Installation \ {p} :
                 install'[q] = install[q] /\ install[q].at = "idle"
<1>1. install \in [Installation -> InstallRun]
  BY DEF Install!TypeOK, InstallRun
<1>2. writer = p /\ \A q \in Installation \ {p} : install[q].at = "idle"
  BY DEF LockIsExclusive
<1> QED
  BY <1>1, <1>2

-----------------------------------------------------------------------------
(* The invariant holds initially and every step keeps it                     *)

\* The checkout is in one version before the first run.
LEMMA OneVersionAtFirst ==
    ASSUME content \in [Install!Target -> Install!Goal],
           Cardinality({content[t] : t \in Install!Target}) = 1
    PROVE  \A t, u \in Install!Target : content[t] = content[u]
<1> DEFINE found == {content[t] : t \in Install!Target}
<1>1. IsFiniteSet({"before", "after"})
  <2>1. IsFiniteSet({"before"})
        /\ {"before", "after"} = {"before"} \cup {"after"}
    BY FS_Singleton
  <2> QED
    BY <2>1, FS_AddElement
<1>2. found \in SUBSET {"before", "after"}
  BY DEF Install!Goal
<1>3. IsFiniteSet(found)
  BY <1>1, <1>2, FS_Subset
<1>4. PICK x : found = {x}
  BY <1>3, FS_Singleton
<1> QED
  BY <1>4

LEMMA InstallInit ==
    ASSUME Install!InstallerAssumption, Install!Init
    PROVE  InstallInv
<1>1. Install!TypeOK
  BY RestingIsRun DEF Install!InstallerAssumption, Install!Init,
     Install!TypeOK, InstallRun
<1>2. \A p \in Installation : install[p].at = "idle"
  BY DEF Install!Init, Install!Resting
<1>3. \A t, u \in Install!Target : content[t] = content[u]
  BY OneVersionAtFirst DEF Install!Init, Install!Cardinality, Cardinality
<1> QED
  BY <1>1, <1>2, <1>3
     DEF InstallInv, LockIsExclusive, MarkerGuardsFiles,
         Install!OneCompleteVersion

\* A step of process p that leaves the files alone, if what it claims of them
\* when it is about to clear the marker is true.
LEMMA FilesUntouched ==
    ASSUME InstallInv, NEW p \in Installation, content' = content,
           marker' \in Install!Goal \cup {"none"},
           marker' = "none" =>
              \/ marker = "none"
              \/ install[p].at = "clear",
           \A q \in Installation \ {p} :
               install'[q].at \notin {"write", "undo", "clear"},
           install'[p].at \in {"write", "undo"} => marker' # "none",
           install'[p].at = "clear" =>
              \A t \in Install!Target :
                    content[t] \in {install'[p].goal, "other"}
    PROVE  MarkerGuardsFiles' /\ Install!OneCompleteVersion'
<1>1. MarkerGuardsFiles'
  BY DEF MarkerGuardsFiles
<1>2. marker' = "none" => \A t, u \in Install!Target :
          content[t] \in {content[u], "other"} \/ content[u] = "other"
  BY DEF InstallInv, Install!OneCompleteVersion
<1>3. \A q \in Installation : install'[q].at = "clear" =>
          \A t \in Install!Target : content[t] \in {install'[q].goal, "other"}
  OBVIOUS
<1> QED
  BY <1>1, <1>2, <1>3 DEF Install!OneCompleteVersion

\* A step of process p that changes a file is taken under the marker.
LEMMA FilesTouched ==

              ASSUME InstallInv, NEW p \in Installation,
                     install[p].at \in {"write", "undo"},
           marker' = marker,
           \A q \in Installation : install'[q].at # "clear"
    PROVE  MarkerGuardsFiles' /\ Install!OneCompleteVersion'
<1>1. marker' # "none"
  BY DEF InstallInv, MarkerGuardsFiles
<1> QED
  BY <1>1 DEF MarkerGuardsFiles, Install!OneCompleteVersion

LEMMA InstallBeginStep ==
    ASSUME Install!InstallerAssumption, InstallInv, NEW p \in Installation,
           NEW goal \in Install!Goal,
           Install!Begin(p, goal)
    PROVE  InstallInv'
<1> DEFINE r == [at |-> IF Install!Complete(goal) THEN "clear" ELSE "mark",
                 goal |-> goal,
                 todo |-> {t \in Install!Target : content[t] # goal}]
<1>1. r \in InstallRun
  BY DEF InstallRun
<1>2. install \in [Installation -> InstallRun] /\ writer = NoInstallation
      /\ NoInstallation \notin Installation
  BY DEF InstallInv, Install!TypeOK, InstallRun, Install!Begin,
     Install!Unlocked, Install!InstallerAssumption
<1>3. install' = [install EXCEPT ![p] = r] /\ writer' = p
  BY DEF Install!Begin
<1>4. \A q \in Installation : install[q].at = "idle"
  BY <1>2 DEF InstallInv, LockIsExclusive
<1>5. /\ install' \in [Installation -> InstallRun] /\ install'[p] = r
      /\ \A q \in Installation \ {p} : install'[q].at = "idle"
  <2> HIDE DEF r
  <2> QED
    BY <1>1, <1>2, <1>3, <1>4
<1>6. Install!TypeOK' /\ LockIsExclusive'
  BY <1>3, <1>5 DEF InstallInv, Install!TypeOK, InstallRun, LockIsExclusive,
     Install!Begin
<1>7. MarkerGuardsFiles' /\ Install!OneCompleteVersion'
  BY <1>5, FilesUntouched DEF Install!Begin, Install!Complete, InstallInv,
     Install!TypeOK
<1> QED
  BY <1>6, <1>7 DEF InstallInv

LEMMA InstallMarkStep ==
    ASSUME Install!InstallerAssumption, InstallInv, NEW p \in Installation,
           Install!Mark(p)
    PROVE  InstallInv'
<1>1. CASE marker' = install[p].goal /\ Install!Go(p, "write")
           /\ UNCHANGED installFaults
  <2> DEFINE r == [install[p] EXCEPT !.at = "write"]
  <2>1. r \in InstallRun /\ install[p].goal \in Install!Goal
    BY DEF InstallRun, InstallInv, Install!TypeOK
  <2>2. install' = [install EXCEPT ![p] = r] /\ writer' = writer
    BY <1>1 DEF Install!Go, InstallInv, Install!TypeOK
  <2>3. /\ install' \in [Installation -> InstallRun] /\ writer' = p
        /\ install'[p] = r
        /\ \A q \in Installation \ {p} :
              install'[q] = install[q] /\ install[q].at = "idle"
    BY <2>1, <2>2, InstallMoves DEF InstallInv, Install!Mark
  <2>4. Install!TypeOK' /\ LockIsExclusive'
    BY <1>1, <2>1, <2>3 DEF InstallInv, Install!TypeOK, InstallRun,
       LockIsExclusive, Install!Mark
  <2>5. marker' # "none" /\ content' = content /\ install'[p].at = "write"
    BY <1>1, <2>1, <2>3 DEF Install!Mark, Install!Goal, InstallRun
  <2>6. MarkerGuardsFiles' /\ Install!OneCompleteVersion'
    BY <2>3, <2>4, <2>5, FilesUntouched DEF Install!TypeOK
  <2> QED
    BY <2>4, <2>6 DEF InstallInv
<1>2. CASE marker' \in {marker, install[p].goal} /\ Install!Fault
           /\ Install!End(p)
  <2>1. /\ install' \in [Installation -> InstallRun]
        /\ writer' = NoInstallation
        /\ \A q \in Installation : install'[q].at = "idle"
    BY <1>2, InstallEnds DEF InstallInv, Install!InstallerAssumption,
       Install!Mark
  <2>2. Install!TypeOK' /\ LockIsExclusive'
    BY <1>2, <2>1 DEF InstallInv, Install!TypeOK, InstallRun,
       LockIsExclusive, Install!Mark, Install!Fault,
                      Install!InstallerAssumption
  <2>3. marker' = "none" => marker = "none"
    BY <1>2 DEF InstallInv, Install!TypeOK, Install!Goal
  <2>4. MarkerGuardsFiles' /\ Install!OneCompleteVersion'
    BY <2>1, <2>2, <2>3, FilesUntouched DEF Install!Mark, Install!TypeOK
  <2> QED
    BY <2>2, <2>4 DEF InstallInv
<1> QED
  BY <1>1, <1>2 DEF Install!Mark

\* Whatever stops a process that was at work: the files may have changed while
\* it wrote them, and the marker may be gone when it was about to clear it.
LEMMA InstallEndStep ==
    ASSUME Install!InstallerAssumption, InstallInv, NEW p \in Installation,
           install[p].at # "idle",
           Install!End(p), marker' \in Install!Goal \cup {"none"},
           edits' = edits,
           installFaults' \in 0..MaxInstallFaults,
           \/ /\ content' = content
              /\ marker' = "none" => marker = "none" \/ install[p].at = "clear"
           \/ /\ content' \in [Install!Target -> Install!Goal \cup {"other"}]
              /\ marker' = marker /\ install[p].at \in {"write", "undo"}
    PROVE  InstallInv'
<1>1. /\ install' \in [Installation -> InstallRun] /\ writer' = NoInstallation
      /\ \A q \in Installation : install'[q].at = "idle"
  BY InstallEnds DEF InstallInv, Install!InstallerAssumption
<1>2. Install!TypeOK' /\ LockIsExclusive'
  BY <1>1 DEF InstallInv, Install!TypeOK, InstallRun, LockIsExclusive
<1>3. CASE content' = content
             /\ (marker' = "none" =>
                 marker = "none" \/ install[p].at = "clear")
  BY <1>1, <1>2, <1>3, FilesUntouched DEF InstallInv
<1>4. CASE marker' = marker /\ install[p].at \in {"write", "undo"}
  BY <1>1, <1>2, <1>4, FilesTouched DEF InstallInv
<1> QED
  BY <1>3, <1>4

\* A step that moves a process on, on the same terms.
LEMMA InstallMoveStep ==
    ASSUME Install!InstallerAssumption, InstallInv, NEW p \in Installation,
           install[p].at # "idle",
           NEW r \in InstallRun, r.at # "idle",
           install' = [install EXCEPT ![p] = r], writer' = writer,
           marker' = marker, edits' = edits,
           installFaults' \in 0..MaxInstallFaults,
           install[p].at \in {"write", "undo"},
           \/ /\ content' = content
              /\ r.at = "clear" => Install!Complete(r.goal)
           \/ /\ content' \in [Install!Target -> Install!Goal \cup {"other"}]
              /\ r.at # "clear"
    PROVE  InstallInv'
<1>1. /\ install' \in [Installation -> InstallRun] /\ writer' = p
      /\ install'[p] = r
      /\ \A q \in Installation \ {p} :
            install'[q] = install[q] /\ install[q].at = "idle"
  BY InstallMoves DEF InstallInv
<1>2. Install!TypeOK' /\ LockIsExclusive'
  BY <1>1 DEF InstallInv, Install!TypeOK, InstallRun, LockIsExclusive
<1>3. marker' # "none"
  BY DEF InstallInv, MarkerGuardsFiles
<1>4. CASE content' = content /\ (r.at = "clear" => Install!Complete(r.goal))
  BY <1>1, <1>2, <1>3, <1>4, FilesUntouched
  DEF InstallInv, Install!TypeOK, Install!Complete
<1>5. CASE r.at # "clear"
  BY <1>1, <1>2, <1>5, FilesTouched DEF InstallInv
<1> QED
  BY <1>4, <1>5

LEMMA InstallWriteStep ==
    ASSUME Install!InstallerAssumption, InstallInv, NEW p \in Installation,
           Install!Write(p) \/ Install!PutBack(p)
    PROVE  InstallInv'
<1> DEFINE t == Install!First(install[p].todo)
           replaced == [content EXCEPT ![t] = install[p].goal]
           next == [install[p] EXCEPT !.todo = @ \ {t}]
           undo == [install[p] EXCEPT !.at = "undo", !.goal = Install!Other(@),
                                  !.todo = Install!Target]
<1>1. /\ install \in [Installation -> InstallRun] /\ install[p] \in InstallRun
      /\ install[p].at \in {"write", "undo"}
      /\ marker \in Install!Goal \cup {"none"}
      /\ installFaults \in 0..MaxInstallFaults /\ MaxInstallFaults \in Nat
  BY DEF InstallInv, Install!TypeOK, InstallRun, Install!Write,
     Install!PutBack, Install!InstallerAssumption
<1>2. content \in [Install!Target -> Install!Goal \cup {"other"}]
      /\ replaced \in [Install!Target -> Install!Goal \cup {"other"}]
  BY <1>1 DEF InstallInv, Install!TypeOK, InstallRun
<1>3. CASE /\ content' = replaced /\ UNCHANGED <<writer, installFaults>>
           /\ install' = [install EXCEPT ![p].todo = @ \ {t}]
  <2>1. next \in InstallRun /\ next.at = install[p].at
    BY <1>1 DEF InstallRun
  <2>2. install' = [install EXCEPT ![p] = next]
    BY <1>1, <1>3
  <2>3. marker' = marker /\ edits' = edits
    BY DEF Install!Write, Install!PutBack
  <2> HIDE DEF next, replaced
  <2> QED
    BY <1>1, <1>2, <1>3, <2>1, <2>2, <2>3, InstallMoveStep
<1>4. CASE Install!Fails(t, install[p].goal) /\ Install!Undo(p)
  <2>1. undo \in InstallRun /\ undo.at = "undo"
    BY <1>1, OtherIsGoal DEF InstallRun
  <2>2. install' = [install EXCEPT ![p] = undo] /\ writer' = writer
    BY <1>1, <1>4 DEF Install!Undo
  <2>3. marker' = marker /\ edits' = edits
    BY DEF Install!Write, Install!PutBack
  <2>4. installFaults' \in 0..MaxInstallFaults
        /\ content' \in {content, replaced}
    BY <1>1, <1>4 DEF Install!Fails, Install!Fault, Install!Replace
  <2> HIDE DEF undo, replaced
  <2> QED
    BY <1>1, <1>2, <2>1, <2>2, <2>3, <2>4, InstallMoveStep
<1>5. CASE Install!Fails(t, install[p].goal) /\ Install!End(p)
  <2>1. marker' = marker /\ edits' = edits
    BY DEF Install!Write, Install!PutBack
  <2>2. installFaults' \in 0..MaxInstallFaults
        /\ content' \in {content, replaced}
    BY <1>1, <1>5 DEF Install!Fails, Install!Fault, Install!Replace
  <2> HIDE DEF replaced
  <2> QED
    BY <1>1, <1>2, <1>5, <2>1, <2>2, InstallEndStep
<1> QED
  BY <1>3, <1>4, <1>5 DEF Install!Write, Install!PutBack, Install!Replace

LEMMA InstallVerifyStep ==
    ASSUME Install!InstallerAssumption, InstallInv, NEW p \in Installation,
           Install!Verify(p) \/ Install!VerifyUndo(p)
    PROVE  InstallInv'
<1> DEFINE clear == [install[p] EXCEPT !.at = "clear"]
           undo == [install[p] EXCEPT !.at = "undo", !.goal = Install!Other(@),
                                  !.todo = Install!Target]
<1>1. /\ install \in [Installation -> InstallRun] /\ install[p] \in InstallRun
      /\ install[p].at \in {"write", "undo"}
      /\ marker \in Install!Goal \cup {"none"}
      /\ installFaults \in 0..MaxInstallFaults
      /\ UNCHANGED <<content, marker, edits, installFaults>>
  BY DEF InstallInv, Install!TypeOK, InstallRun, Install!Verify,
     Install!VerifyUndo
<1>2. CASE Install!Complete(install[p].goal) /\ Install!Go(p, "clear")
  <2>1. clear \in InstallRun /\ clear.at = "clear"
        /\ clear.goal = install[p].goal
    BY <1>1 DEF InstallRun
  <2>2. install' = [install EXCEPT ![p] = clear] /\ writer' = writer
    BY <1>1, <1>2 DEF Install!Go
  <2> HIDE DEF clear
  <2> QED
    BY <1>1, <1>2, <2>1, <2>2, InstallMoveStep
<1>3. CASE Install!Undo(p)
  <2>1. undo \in InstallRun /\ undo.at = "undo"
    BY <1>1, OtherIsGoal DEF InstallRun
  <2>2. install' = [install EXCEPT ![p] = undo] /\ writer' = writer
    BY <1>1, <1>3 DEF Install!Undo
  <2> HIDE DEF undo
  <2> QED
    BY <1>1, <2>1, <2>2, InstallMoveStep
<1>4. CASE Install!End(p)
  BY <1>1, <1>4, InstallEndStep
<1> QED
  BY <1>2, <1>3, <1>4 DEF Install!Verify, Install!VerifyUndo

LEMMA InstallLastStep ==
    ASSUME Install!InstallerAssumption, InstallInv, NEW p \in Installation,
           Install!Clear(p) \/ Install!Crash(p)
    PROVE  InstallInv'
<1>1. /\ install[p].at # "idle" /\ Install!End(p) /\ content' = content
      /\ edits' = edits
      /\ installFaults' \in 0..MaxInstallFaults
  BY DEF Install!Clear, Install!Crash, Install!Fault, InstallInv,
     Install!TypeOK, Install!InstallerAssumption
<1>2. /\ marker' \in Install!Goal \cup {"none"}
      /\ marker' = "none" => marker = "none" \/ install[p].at = "clear"
  BY DEF Install!Clear, Install!Crash, InstallInv, Install!TypeOK
<1> QED
  BY <1>1, <1>2, InstallEndStep

\* An edit of somebody else only makes a file exempt.
LEMMA InstallEditStep ==
    ASSUME Install!InstallerAssumption, InstallInv, NEW t \in Install!Target,
           Install!Edit(t)
    PROVE  InstallInv'
<1>1. content' = [content EXCEPT ![t] = "other"]
      /\ UNCHANGED <<marker, writer, install, installFaults>>
  BY DEF Install!Edit
<1>2. Install!TypeOK' /\ LockIsExclusive' /\ MarkerGuardsFiles'
  BY <1>1 DEF InstallInv, Install!TypeOK, LockIsExclusive, MarkerGuardsFiles,
     Install!Edit,
              Install!InstallerAssumption
<1>3. \A u \in Install!Target :
            content'[u] = IF u = t THEN "other" ELSE content[u]
  BY <1>1 DEF InstallInv, Install!TypeOK
<1>4. Install!OneCompleteVersion'
  BY <1>1, <1>3 DEF InstallInv, Install!OneCompleteVersion
<1> QED
  BY <1>2, <1>4 DEF InstallInv

LEMMA InstallSteps ==
    ASSUME Install!InstallerAssumption, InstallInv, Install!Next
    PROVE  InstallInv'
<1>1. ASSUME NEW p \in Installation, NEW goal \in Install!Goal,
             Install!Begin(p, goal)
      PROVE  InstallInv'
  BY <1>1, InstallBeginStep
<1>2. ASSUME NEW p \in Installation, Install!Mark(p) PROVE InstallInv'
  BY <1>2, InstallMarkStep
<1>3. ASSUME NEW p \in Installation, Install!Write(p) \/ Install!PutBack(p)
      PROVE  InstallInv'
  BY <1>3, InstallWriteStep
<1>4. ASSUME NEW p \in Installation,
             Install!Verify(p) \/ Install!VerifyUndo(p)
      PROVE  InstallInv'
  BY <1>4, InstallVerifyStep
<1>5. ASSUME NEW p \in Installation, Install!Clear(p) \/ Install!Crash(p)
      PROVE  InstallInv'
  BY <1>5, InstallLastStep
<1>6. ASSUME NEW t \in Install!Target, Install!Edit(t) PROVE InstallInv'
  BY <1>6, InstallEditStep
<1> QED
  BY <1>1, <1>2, <1>3, <1>4, <1>5, <1>6 DEF Install!Next

-----------------------------------------------------------------------------
(* SubscriptionRunner: one run of a worker or a skill                        *)

RunnerClass == {"success", "subscription_quota", "billing", "timeout",
                "cancelled", "unknown"}
EndCode == {0, Runner!EXIT_OTHER, Runner!EXIT_CONTRACT, Runner!EXIT_TRANSIENT}
RunnerStep == {"over", "preflight", "codex", "probe", "auth", "claude",
               "status", "block", "finish"}
RunnerRun == [step : RunnerStep, mode : Runner!Modes, code : Int,
              attempts : Seq(Runner!Attempt), quota : BOOLEAN,
              receipt : BOOLEAN, confirmed : BOOLEAN, deaf : BOOLEAN]

Tried == Len(attempt.attempts)

\* Codex comes first, Claude only when it did not succeed, and a worker that
\* lets Claude go on has seen the subscription used up.
AttemptsInOrder ==
    /\ Tried <= 2
    /\ Tried = 2 => /\ attempt.attempts[1].runtime = "codex"
                    /\ attempt.attempts[2].runtime = "claude"
    /\ attempt.step \in {"preflight", "codex"} => Tried = 0
    /\ attempt.step = "probe" => Tried = 1 /\ attempt.code # 0
    /\ attempt.step \in {"probe", "auth", "claude"} =>
         /\ Tried <= 1
         /\ Tried = 1 => /\ attempt.attempts[1].runtime = "codex"
                         /\ attempt.attempts[1].code # 0
    /\ attempt.step \in {"auth", "claude"} /\ attempt.mode # "claude-skill" =>
         attempt.confirmed

\* What a worker is about to report, or has reported, of its card.
ReportIsTrue ==
    /\ attempt.receipt => attempt.step = "over"
    /\ /\ attempt.mode = "worker" /\ attempt.step \in {"finish", "over"}
       /\ attempt.step = "over" => attempt.receipt
       => /\ attempt.code = 0 => card \in Runner!Terminal
          /\ ~ attempt.deaf /\ Tried # 0 =>
               (attempt.attempts[Tried].code = 0 => card # "running")

RunnerInv ==
    /\ card \in Runner!Terminal \cup {"running"} /\ spent \in BOOLEAN
    /\ attempt \in RunnerRun /\ count \in 0..MaxRuns
    /\ runnerFaults \in 0..MaxRunnerFaults
    /\ AttemptsInOrder /\ ReportIsTrue

LEMMA CodexClass ==
    ASSUME NEW end \in Runner!Ends
    PROVE  Runner!ClassOfCodex(end) \in RunnerClass
           /\ end.code \in EndCode
BY DEF Runner!Ends, Runner!ClassOfCodex, RunnerClass, EndCode

LEMMA ClaudeClass ==
    ASSUME NEW end \in Runner!Ends, NEW stream
    PROVE  Runner!ClassOfClaude(end, stream) \in RunnerClass
<1>1. Runner!Classified(Runner!Kept(stream)) \in RunnerClass
  BY DEF Runner!Classified, RunnerClass
<1> QED
  BY <1>1 DEF Runner!Ends, Runner!ClassOfClaude, RunnerClass

LEMMA FirstOfAll ==
    ASSUME NEW S, NEW s \in Seq(S), Len(s) = 0, NEW x \in S
    PROVE  s = <<>> /\ Append(s, x) = <<x>>
<1>1. s = <<>>
  OBVIOUS
<1>2. Append(<<>>, x) = <<x>>
  OBVIOUS
<1> QED
  BY <1>1, <1>2

LEMMA NoRunIsRun ==
    /\ Runner!NoRun \in RunnerRun /\ Runner!NoRun.attempts = <<>>
       /\ Len(Runner!NoRun.attempts) = 0
    /\ Runner!NoRun.step = "over" /\ Runner!NoRun.mode = "worker"
       /\ ~ Runner!NoRun.receipt
<1>1. <<>> \in Seq(Runner!Attempt) /\ Len(<<>>) = 0
  OBVIOUS
<1> QED
  BY <1>1 DEF Runner!NoRun, RunnerRun, RunnerStep, Runner!Modes

LEMMA RunnerInit ==
    ASSUME Runner!RunnerAssumption, Runner!Init
    PROVE  RunnerInv
<1>1. attempt = [Runner!NoRun EXCEPT !.code = Runner!EXIT_OTHER]
      /\ Runner!EXIT_OTHER \in Int
  BY DEF Runner!Init, Runner!EXIT_OTHER
<1>2. attempt \in RunnerRun /\ attempt.attempts = Runner!NoRun.attempts
      /\ attempt.step = "over"
      /\ ~ attempt.receipt
  BY <1>1, NoRunIsRun DEF RunnerRun
<1>3. Tried = 0
  BY <1>2, NoRunIsRun DEF Tried
<1> QED
  BY <1>2, <1>3
  DEF RunnerInv, Runner!Init, AttemptsInOrder, ReportIsTrue,
      Runner!RunnerAssumption

\* A step of the run that leaves the attempts alone.
LEMMA RunnerSameAttempts ==
    ASSUME Runner!RunnerAssumption, RunnerInv,
           card' \in Runner!Terminal \cup {"running"},
           spent' \in BOOLEAN, count' = count,
           runnerFaults' \in 0..MaxRunnerFaults,
           attempt' \in RunnerRun, attempt'.attempts = attempt.attempts,
           attempt'.step \in {"over", "status", "block", "finish", "claude"},
           attempt'.step = "claude" => attempt.step = "auth"
                                   /\ attempt'.confirmed = attempt.confirmed
                                   /\ attempt'.mode = attempt.mode,
           ReportIsTrue'
    PROVE  RunnerInv'
<1>1. Tried' = Tried
  BY DEF Tried
<1>2. AttemptsInOrder'
  BY <1>1 DEF RunnerInv, AttemptsInOrder
<1> QED
  BY <1>2 DEF RunnerInv

LEMMA RunnerBeginStep ==
    ASSUME Runner!RunnerAssumption, RunnerInv, NEW mode \in Runner!Modes,
           Runner!Begin(mode)
    PROVE  RunnerInv'
<1>1. PICK code \in Int, step \in RunnerStep :
        /\ attempt' = [Runner!NoRun EXCEPT !.mode = mode, !.step = step,
                                           !.code = code]
        /\ \/ step = Runner!FirstStep(mode)
           \/ step \in {"over", "finish"} /\ code # 0
  <2>1. Runner!FirstStep(mode) \in RunnerStep
        /\ {"over", "finish"} \subseteq RunnerStep
    BY DEF RunnerStep, Runner!FirstStep, Runner!Modes
  <2>2. 0 \in Int /\ Runner!EXIT_CONFIGURATION \in Int
        /\ Runner!EXIT_CONFIGURATION # 0
    BY DEF Runner!EXIT_CONFIGURATION
  <2>3. \/ attempt'
           = [Runner!NoRun EXCEPT !.mode = mode,
                                  !.step = Runner!FirstStep(mode)]
        \/ attempt'
           = [Runner!NoRun EXCEPT !.mode = mode,
                                  !.code = Runner!EXIT_CONFIGURATION]
        \/ attempt' = [Runner!NoRun EXCEPT !.mode = mode, !.step = "finish",
                                           !.code = Runner!EXIT_CONFIGURATION]
    BY DEF Runner!Begin
  <2>4. Runner!NoRun.code = 0 /\ Runner!NoRun.step = "over"
    BY DEF Runner!NoRun
  <2>5. /\ [Runner!NoRun EXCEPT !.mode = mode, !.step = Runner!FirstStep(mode)]
             = [Runner!NoRun EXCEPT !.mode = mode,
                                    !.step = Runner!FirstStep(mode),
                                    !.code = 0]
        /\ [Runner!NoRun EXCEPT !.mode = mode,
                                !.code = Runner!EXIT_CONFIGURATION]
             = [Runner!NoRun EXCEPT !.mode = mode, !.step = "over",
                                    !.code = Runner!EXIT_CONFIGURATION]
    BY <2>4, NoRunIsRun DEF RunnerRun
  <2> QED
    BY <2>1, <2>2, <2>3, <2>5
<1>2. /\ attempt' \in RunnerRun /\ attempt'.attempts = Runner!NoRun.attempts
         /\ ~ attempt'.receipt
      /\ attempt'.mode = mode /\ attempt'.step = step /\ attempt'.code = code
  BY <1>1, NoRunIsRun DEF RunnerRun
<1>3. Tried' = 0
  BY <1>2, NoRunIsRun DEF Tried
<1>4. AttemptsInOrder' /\ ReportIsTrue'
  BY <1>1, <1>2, <1>3
  DEF AttemptsInOrder, ReportIsTrue, Runner!FirstStep, Runner!Modes
<1> QED
  BY <1>2, <1>4
  DEF RunnerInv, Runner!Begin, Runner!RunnerAssumption, Runner!Terminal

\* A probe that says the subscription is used up says the truth.
LEMMA RunnerProbed ==
    ASSUME RunnerInv, NEW seen \in Runner!Answers
    PROVE  (seen = TRUE /\ spent = TRUE) \/ seen = FALSE
<1>1. spent = TRUE \/ spent = FALSE
  BY DEF RunnerInv
<1> QED
  BY <1>1 DEF Runner!Answers

LEMMA RunnerPreflightStep ==
    ASSUME Runner!RunnerAssumption, RunnerInv, Runner!Preflight
    PROVE  RunnerInv'
<1>1. PICK seen \in Runner!Answers :
        attempt' = [attempt EXCEPT !.step = IF seen THEN "auth" ELSE "codex",
                           !.confirmed = @ \/ spent]
  BY DEF Runner!Preflight
<1>2. attempt \in RunnerRun /\ attempt.step = "preflight" /\ Tried = 0
      /\ ~ attempt.receipt
  BY DEF RunnerInv, Runner!Preflight, AttemptsInOrder, ReportIsTrue
<1>3. PICK step \in {"auth", "codex"} :
        /\ attempt' = [attempt EXCEPT !.step = step, !.confirmed = @ \/ spent]
        /\ step = "auth" => spent = TRUE
  BY <1>1, RunnerProbed
<1>4. /\ attempt' \in RunnerRun /\ attempt'.step = step
         /\ (step = "auth" => attempt'.confirmed)
      /\ attempt'.attempts = attempt.attempts
         /\ attempt'.receipt = attempt.receipt
  BY <1>2, <1>3 DEF RunnerRun, RunnerStep
<1>5. Tried' = 0
  BY <1>2, <1>4 DEF Tried
<1>6. AttemptsInOrder' /\ ReportIsTrue'
  BY <1>2, <1>4, <1>5 DEF AttemptsInOrder, ReportIsTrue
<1> QED
  BY <1>4, <1>6 DEF RunnerInv, Runner!Preflight

LEMMA RunnerCodexStep ==
    ASSUME Runner!RunnerAssumption, RunnerInv, Runner!CodexEnds
    PROVE  RunnerInv'
<1> DEFINE Ended(end) == [runtime |-> "codex", code |-> end.code,
                          class |-> Runner!ClassOfCodex(end)]
<1>1. PICK end \in Runner!Ends, step \in {"status", "probe", "finish"} :
        /\ attempt' = [attempt EXCEPT !.attempts = Append(@, Ended(end)),
                                      !.step = step, !.code = end.code]
        /\ step = "probe" => end.code # 0
        /\ step = "finish" /\ attempt.mode = "worker" => end.code # 0
  BY Zenon DEF Runner!CodexEnds
<1> DEFINE ended == Ended(end)
<1>2. ended \in Runner!Attempt /\ ended.runtime = "codex"
      /\ ended.code = end.code /\ end.code \in Int
  BY CodexClass
  DEF Runner!Attempt, RunnerClass, EndCode, Runner!EXIT_OTHER,
      Runner!EXIT_CONTRACT, Runner!EXIT_TRANSIENT
<1>3. attempt \in RunnerRun /\ attempt.step = "codex" /\ Tried = 0
      /\ ~ attempt.receipt
  BY DEF RunnerInv, Runner!CodexEnds, AttemptsInOrder, ReportIsTrue
<1>4. attempt.attempts = <<>> /\ Append(attempt.attempts, ended) = <<ended>>
  <2>1. attempt.attempts \in Seq(Runner!Attempt) /\ Len(attempt.attempts) = 0
    BY <1>3 DEF RunnerRun, Tried
  <2> QED
    BY <1>2, <2>1, FirstOfAll
<1> HIDE DEF ended
<1>5. /\ attempt' \in RunnerRun /\ attempt'.attempts = <<ended>>
         /\ attempt'.step = step
      /\ attempt'.code = end.code /\ attempt'.mode = attempt.mode
      /\ attempt'.receipt = attempt.receipt
  <2>1. [attempt EXCEPT !.attempts = Append(@, Ended(end)), !.step = step,
                        !.code = end.code]
          = [attempt EXCEPT !.attempts = <<ended>>, !.step = step,
                            !.code = end.code]
    BY <1>3, <1>4 DEF ended, RunnerRun
  <2> HIDE DEF Ended
  <2>2. <<ended>> \in Seq(Runner!Attempt) /\ step \in RunnerStep
    BY <1>2 DEF RunnerStep
  <2> QED
    BY <1>1, <1>2, <1>3, <2>1, <2>2 DEF RunnerRun
<1>6. Tried' = 1 /\ attempt'.attempts[1] = ended
  BY <1>5 DEF Tried
<1>7. AttemptsInOrder' /\ ReportIsTrue'
  BY <1>1, <1>2, <1>3, <1>5, <1>6 DEF AttemptsInOrder, ReportIsTrue
<1> QED
  BY <1>5, <1>7 DEF RunnerInv, Runner!CodexEnds

LEMMA RunnerProbeStep ==
    ASSUME Runner!RunnerAssumption, RunnerInv, Runner!Probe
    PROVE  RunnerInv'
<1>1. attempt \in RunnerRun /\ attempt.step = "probe" /\ Tried = 1
      /\ ~ attempt.receipt
      /\ attempt.attempts[1].runtime = "codex" /\ attempt.attempts[1].code # 0
      /\ spent \in BOOLEAN /\ attempt.code # 0
  BY DEF RunnerInv, Runner!Probe, AttemptsInOrder, ReportIsTrue
<1>2. attempt.attempts \in Seq(Runner!Attempt)
      /\ attempt.attempts[1] \in Runner!Attempt
      /\ Len(attempt.attempts) = 1
  BY <1>1 DEF RunnerRun, Tried
<1> DEFINE changed == [attempt.attempts EXCEPT
                         ![1].class = "subscription_quota"]
<1>3. /\ changed \in Seq(Runner!Attempt) /\ Len(changed) = 1
      /\ changed[1].runtime = "codex" /\ changed[1].code # 0
  <2>1. [attempt.attempts[1] EXCEPT !.class = "subscription_quota"]
        \in Runner!Attempt
    BY <1>2 DEF Runner!Attempt
  <2>2. /\ [attempt.attempts[1] EXCEPT !.class = "subscription_quota"].runtime
              = "codex"
        /\ [attempt.attempts[1] EXCEPT !.class = "subscription_quota"].code # 0
    BY <1>1, <1>2 DEF Runner!Attempt
  <2> QED
    BY <1>2, <2>1, <2>2
<1>4. CASE attempt' =
            [attempt EXCEPT !.step = "auth", !.confirmed = @ \/ spent,
                            !.attempts[1].class = "subscription_quota"]
           /\ spent
  <2>1. /\ attempt' \in RunnerRun /\ attempt'.attempts = changed
           /\ attempt'.step = "auth"
        /\ attempt'.confirmed /\ attempt'.receipt = attempt.receipt
    <3> HIDE DEF changed
    <3>1. attempt' = [attempt EXCEPT !.step = "auth", !.confirmed = @ \/ spent,
                                     !.attempts = changed]
      BY <1>1, <1>4 DEF changed, RunnerRun
    <3> QED
      BY <1>1, <1>3, <1>4, <3>1 DEF RunnerRun, RunnerStep
  <2> HIDE DEF changed
  <2>2. Tried' = 1 /\ 1 <= 2
    <3>1. Len(attempt'.attempts) = 1
      BY <1>3, <2>1
    <3> QED
      BY <3>1 DEF Tried
  <2>3. AttemptsInOrder' /\ ReportIsTrue'
    BY <1>1, <1>3, <2>1, <2>2 DEF AttemptsInOrder, ReportIsTrue
  <2> QED
    BY <2>1, <2>3 DEF RunnerInv, Runner!Probe
<1>5. CASE attempt' = [attempt EXCEPT !.step = "finish",
                                      !.confirmed = @ \/ spent]
  <2>1. /\ attempt' \in RunnerRun /\ attempt'.attempts = attempt.attempts
        /\ attempt'.step = "finish" /\ attempt'.receipt = attempt.receipt
        /\ attempt'.code = attempt.code /\ attempt'.code # 0
    BY <1>1, <1>5 DEF RunnerRun, RunnerStep
  <2>2. Tried' = Tried
    BY <2>1 DEF Tried
  <2>3. AttemptsInOrder' /\ ReportIsTrue'
    BY <1>1, <2>1, <2>2 DEF AttemptsInOrder, ReportIsTrue
  <2> QED
    BY <2>1, <2>3 DEF RunnerInv, Runner!Probe
<1> QED
  <2>1. PICK seen \in Runner!Answers :
          attempt' =
            IF seen
            THEN [attempt EXCEPT !.step = "auth", !.confirmed = @ \/ spent,
                                 !.attempts[1].class = "subscription_quota"]
            ELSE [attempt EXCEPT !.step = "finish", !.confirmed = @ \/ spent]
    BY DEF Runner!Probe
  <2>2. CASE seen = TRUE /\ spent = TRUE
    BY <1>4, <2>1, <2>2
  <2>3. CASE seen = FALSE
    BY <1>5, <2>1, <2>3
  <2> QED
    BY <2>2, <2>3, RunnerProbed

LEMMA RunnerAuthStep ==
    ASSUME Runner!RunnerAssumption, RunnerInv, Runner!Auth
    PROVE  RunnerInv'
<1>1. attempt \in RunnerRun /\ attempt.step = "auth" /\ ~ attempt.receipt
      /\ Tried <= 1
      /\ (Tried = 1 => attempt.attempts[1].code # 0) /\ Tried \in Nat
  BY DEF RunnerInv, Runner!Auth, AttemptsInOrder, ReportIsTrue, RunnerRun,
     Tried
<1>2. PICK step \in {"claude", "finish"}, code \in Int :
        /\ attempt' = [attempt EXCEPT !.step = step, !.code = code]
        /\ step = "finish" => code # 0
  <2>1. CASE Runner!GoTo("claude")
    <3>1. attempt' = [attempt EXCEPT !.step = "claude", !.code = attempt.code]
      BY <1>1, <2>1 DEF Runner!GoTo, RunnerRun
    <3> QED
      BY <1>1, <3>1 DEF RunnerRun
  <2>2. CASE Runner!FinishWith(Runner!EXIT_CONFIGURATION)
    <3>1. attempt' = [attempt EXCEPT !.step = "finish",
                                     !.code = Runner!EXIT_CONFIGURATION]
      BY <2>2 DEF Runner!FinishWith
    <3>2. Runner!EXIT_CONFIGURATION \in Int \ {0}
      BY DEF Runner!EXIT_CONFIGURATION
    <3> QED
      BY <3>1, <3>2
  <2> QED
    BY <2>1, <2>2 DEF Runner!Auth
<1>3. /\ attempt' \in RunnerRun /\ attempt'.attempts = attempt.attempts
         /\ attempt'.step = step
      /\ attempt'.code = code /\ attempt'.mode = attempt.mode
      /\ attempt'.confirmed = attempt.confirmed
         /\ attempt'.receipt = attempt.receipt
  BY <1>1, <1>2 DEF RunnerRun, RunnerStep
<1>4. Tried' = Tried
  BY <1>3 DEF Tried
<1>5. ReportIsTrue'
  BY <1>1, <1>2, <1>3, <1>4 DEF ReportIsTrue
<1> QED
  BY <1>1, <1>3, <1>5, RunnerSameAttempts DEF Runner!Auth, RunnerInv

LEMMA RunnerClaudeStep ==
    ASSUME Runner!RunnerAssumption, RunnerInv, Runner!ClaudeEnds
    PROVE  RunnerInv'
<1> DEFINE Ended(end, class) == [runtime |-> "claude", code |-> end.code,
                                 class |-> class]
<1>1. PICK end \in Runner!Ends, class \in RunnerClass,
           step \in {"status", "block", "finish"}, quota \in BOOLEAN,
           code \in Int :
        /\ attempt' = [attempt EXCEPT
                          !.attempts = Append(@, Ended(end, class)),
                          !.step = step, !.quota = quota, !.code = code]
        /\ step = "finish" /\ attempt.mode = "worker" => end.code # 0
           /\ code # 0
  <2>1. PICK end \in Runner!Ends, stream \in Runner!Streams :
          LET class == Runner!ClassOfClaude(end, stream)
              exhausted == class = "subscription_quota"
              worker == attempt.mode = "worker"
              step == CASE worker /\ exhausted -> "block"
                        [] worker /\ ~exhausted /\ end.code = 0 -> "status"
                        [] OTHER -> "finish"
          IN  attempt' = [attempt EXCEPT
                  !.attempts = Append(@, [runtime |-> "claude",
                                          code |-> end.code, class |-> class]),
                  !.step = step, !.quota = exhausted,
                  !.code =
                    IF exhausted THEN Runner!EXIT_TRANSIENT ELSE end.code]
    BY DEF Runner!ClaudeEnds
  <2> DEFINE class == Runner!ClassOfClaude(end, stream)
             exhausted == class = "subscription_quota"
             worker == attempt.mode = "worker"
             step == CASE worker /\ exhausted -> "block"
                       [] worker /\ ~exhausted /\ end.code = 0 -> "status"
                       [] OTHER -> "finish"
             code == IF exhausted THEN Runner!EXIT_TRANSIENT ELSE end.code
  <2>2. end.code \in EndCode /\ class \in RunnerClass
    BY CodexClass, ClaudeClass
  <2>3. step \in {"status", "block", "finish"}
    OBVIOUS
  <2>4. step = "finish" /\ worker => end.code # 0 /\ ~ exhausted
    OBVIOUS
  <2>5. code \in Int /\ (end.code # 0 => code # 0)
    BY <2>2 DEF EndCode, Runner!EXIT_OTHER, Runner!EXIT_CONTRACT,
            Runner!EXIT_TRANSIENT
  <2>6. exhausted \in BOOLEAN
    OBVIOUS
  <2>7. attempt' = [attempt EXCEPT !.attempts = Append(@, Ended(end, class)),
                                   !.step = step, !.quota = exhausted,
                                   !.code = code]
    BY <2>1
  <2> HIDE DEF class, exhausted, step, code, Ended
  <2> QED
    BY <2>2, <2>3, <2>4, <2>5, <2>6, <2>7
<1> DEFINE ended == Ended(end, class)
<1>2. ended \in Runner!Attempt /\ ended.runtime = "claude"
      /\ ended.code = end.code
  BY CodexClass DEF Runner!Attempt, RunnerClass, EndCode
<1>3. attempt \in RunnerRun /\ attempt.step = "claude" /\ Tried <= 1
      /\ ~ attempt.receipt
      /\ (Tried = 1 => attempt.attempts[1].runtime = "codex") /\ Tried \in Nat
  BY DEF RunnerInv, Runner!ClaudeEnds, AttemptsInOrder, ReportIsTrue,
     RunnerRun, Tried
<1> DEFINE tried == Append(attempt.attempts, ended)
<1> HIDE DEF ended
<1>4. /\ tried \in Seq(Runner!Attempt) /\ Len(tried) = Tried + 1
      /\ tried[Tried + 1] = ended
      /\ Tried = 1 => tried[1] = attempt.attempts[1]
  <2>1. attempt.attempts \in Seq(Runner!Attempt)
        /\ Len(attempt.attempts) = Tried
    BY <1>3 DEF RunnerRun, Tried
  <2> HIDE DEF Tried
  <2> QED
    BY <1>2, <1>3, <2>1
<1> HIDE DEF tried
<1>5. attempt' = [attempt EXCEPT !.attempts = tried, !.step = step,
                                 !.quota = quota, !.code = code]
  BY <1>1, <1>3 DEF tried, ended, RunnerRun
<1>6. /\ attempt' \in RunnerRun /\ attempt'.attempts = tried
         /\ attempt'.step = step
      /\ attempt'.code = code /\ attempt'.mode = attempt.mode
      /\ attempt'.receipt = attempt.receipt
  BY <1>3, <1>4, <1>5 DEF RunnerRun, RunnerStep
<1>7. Tried' = Tried + 1
  <2>1. Len(attempt'.attempts) = Tried + 1
    BY <1>4, <1>6
  <2> QED
    BY <2>1 DEF Tried
<1>8. AttemptsInOrder'
  BY <1>2, <1>3, <1>4, <1>6, <1>7 DEF AttemptsInOrder
<1>9. ReportIsTrue'
  BY <1>1, <1>2, <1>3, <1>4, <1>6, <1>7 DEF ReportIsTrue
<1> QED
  BY <1>6, <1>8, <1>9 DEF RunnerInv, Runner!ClaudeEnds

\* The last steps of a run: whatever changes is not the attempts, and what is
\* reported of the card is true, or is not reported.
LEMMA RunnerLastSteps ==
    ASSUME Runner!RunnerAssumption, RunnerInv,
           attempt.step \in {"status", "block", "finish"},
           card' \in {card, "blocked"}, spent' = spent, count' = count,
           runnerFaults' \in 0..MaxRunnerFaults,
           NEW step \in {"over", "block", "finish"}, NEW code \in Int,
           NEW deaf \in BOOLEAN, NEW wrote \in BOOLEAN,
           attempt' = [attempt EXCEPT !.step = step, !.code = code,
                                      !.deaf = deaf, !.receipt = wrote],
           wrote => step = "over",
           (step = "over" => wrote) /\ step # "block"
             /\ attempt.mode = "worker"
              => /\ code = 0 => card' \in Runner!Terminal
                 /\ ~ deaf /\ Tried # 0 =>
                      (attempt.attempts[Tried].code = 0 => card' # "running")
    PROVE  RunnerInv'
<1>1. attempt \in RunnerRun /\ card \in Runner!Terminal \cup {"running"}
      /\ spent \in BOOLEAN
  BY DEF RunnerInv
<1>2. /\ attempt' \in RunnerRun /\ attempt'.attempts = attempt.attempts
         /\ attempt'.step = step
      /\ attempt'.code = code /\ attempt'.deaf = deaf
         /\ attempt'.receipt = wrote
      /\ attempt'.mode = attempt.mode
  BY <1>1 DEF RunnerRun, RunnerStep
<1>3. Tried' = Tried
  BY <1>2 DEF Tried
<1>4. ReportIsTrue'
  BY <1>2, <1>3 DEF ReportIsTrue
<1>5. card' \in Runner!Terminal \cup {"running"}
  BY <1>1 DEF Runner!Terminal
<1> QED
  BY <1>1, <1>2, <1>4, <1>5, RunnerSameAttempts

LEMMA RunnerStatusStep ==
    ASSUME Runner!RunnerAssumption, RunnerInv, Runner!Status
    PROVE  RunnerInv'
<1>1. /\ attempt \in RunnerRun /\ attempt.step = "status" /\ ~ attempt.receipt
      /\ UNCHANGED <<card, spent, count>>
         /\ runnerFaults' \in 0..MaxRunnerFaults
  BY DEF RunnerInv, Runner!Status, ReportIsTrue, Runner!RunnerAssumption
<1>2. attempt.deaf \in BOOLEAN /\ attempt.code \in Int
      /\ attempt.receipt = FALSE
      /\ 0 \in Int
  BY <1>1 DEF RunnerRun
<1>3. CASE Runner!Settled /\ Runner!FinishWith(0)
  <2>1. attempt' = [attempt EXCEPT !.step = "finish", !.code = 0,
                                   !.deaf = attempt.deaf, !.receipt = FALSE]
    BY <1>1, <1>2, <1>3 DEF Runner!FinishWith, RunnerRun
  <2>2. card' \in Runner!Terminal /\ card' # "running"
    BY <1>1, <1>3 DEF Runner!Settled, Runner!Terminal
  <2> QED
    BY <1>1, <1>2, <2>1, <2>2, RunnerLastSteps
<1>4. CASE Runner!GoTo("block")
  <2>1. attempt' = [attempt EXCEPT !.step = "block", !.code = attempt.code,
                                   !.deaf = attempt.deaf, !.receipt = FALSE]
    BY <1>1, <1>2, <1>4 DEF Runner!GoTo, RunnerRun
  <2> QED
    BY <1>1, <1>2, <2>1, RunnerLastSteps
<1>5. CASE attempt' = [attempt EXCEPT !.step = "block", !.deaf = TRUE]
  <2>1. attempt' = [attempt EXCEPT !.step = "block", !.code = attempt.code,
                                   !.deaf = TRUE, !.receipt = FALSE]
    BY <1>1, <1>2, <1>5 DEF RunnerRun
  <2> QED
    BY <1>1, <1>2, <2>1, RunnerLastSteps
<1> QED
  BY <1>3, <1>4, <1>5 DEF Runner!Status

LEMMA RunnerBlockStep ==
    ASSUME Runner!RunnerAssumption, RunnerInv, Runner!Block
    PROVE  RunnerInv'
<1>1. /\ attempt \in RunnerRun /\ attempt.step = "block" /\ ~ attempt.receipt
      /\ UNCHANGED <<spent, count>> /\ runnerFaults' \in 0..MaxRunnerFaults
  BY DEF RunnerInv, Runner!Block, ReportIsTrue, Runner!RunnerAssumption
<1>2. attempt.deaf \in BOOLEAN /\ attempt.receipt = FALSE
  BY <1>1 DEF RunnerRun
<1>3. /\ Runner!EXIT_CONTRACT \in Int \ {0}
         /\ Runner!EXIT_CONFIGURATION \in Int \ {0}
      /\ 0 \in Int
  BY DEF Runner!EXIT_CONTRACT, Runner!EXIT_CONFIGURATION
<1>4. ASSUME NEW code \in Int, Runner!FinishWith(code),
             card' \in {card, "blocked"},
             card' # "running", code = 0 => card' \in Runner!Terminal
      PROVE  RunnerInv'
  <2>1. attempt' = [attempt EXCEPT !.step = "finish", !.code = code,
                                   !.deaf = attempt.deaf, !.receipt = FALSE]
    BY <1>1, <1>2, <1>4 DEF Runner!FinishWith, RunnerRun
  <2> QED
    BY <1>1, <1>2, <1>4, <2>1, RunnerLastSteps
<1>5. CASE card = "running" /\ card' = "blocked"
           /\ Runner!FinishWith(
                 IF attempt.quota THEN 0 ELSE Runner!EXIT_CONTRACT)
  BY <1>3, <1>4, <1>5 DEF Runner!Terminal
<1>6. CASE card # "running" /\ card' = card
           /\ Runner!FinishWith(Runner!EXIT_CONTRACT)
  BY <1>3, <1>4, <1>6
<1>7. ASSUME NEW code \in {Runner!EXIT_CONTRACT, Runner!EXIT_CONFIGURATION},
             card' = card,
             attempt' = [attempt EXCEPT !.step = "finish", !.deaf = TRUE,
                            !.code =
                              IF attempt.quota
                                THEN code ELSE Runner!EXIT_CONTRACT]
      PROVE  RunnerInv'
  <2> DEFINE c == IF attempt.quota THEN code ELSE Runner!EXIT_CONTRACT
  <2>1. c \in Int /\ c # 0
    BY <1>3
  <2>2. attempt' = [attempt EXCEPT !.step = "finish", !.code = c,
                                   !.deaf = TRUE, !.receipt = FALSE]
    BY <1>1, <1>2, <1>7 DEF RunnerRun
  <2> HIDE DEF c
  <2> QED
    BY <1>1, <1>7, <2>1, <2>2, RunnerLastSteps
<1> QED
  BY <1>5, <1>6, <1>7 DEF Runner!Block

LEMMA RunnerFinishStep ==
    ASSUME Runner!RunnerAssumption, RunnerInv, Runner!Finish
    PROVE  RunnerInv'
<1>1. /\ attempt \in RunnerRun /\ attempt.step = "finish"
      /\ UNCHANGED <<card, spent, count>>
         /\ runnerFaults' \in 0..MaxRunnerFaults
      /\ attempt.mode = "worker" =>
           /\ attempt.code = 0 => card \in Runner!Terminal
           /\ ~ attempt.deaf /\ Tried # 0 =>
                (attempt.attempts[Tried].code = 0 => card # "running")
  BY DEF RunnerInv, Runner!Finish, ReportIsTrue, Runner!RunnerAssumption
<1>2. attempt.deaf \in BOOLEAN /\ attempt.code \in Int
      /\ attempt.receipt = FALSE
      /\ Runner!EXIT_OTHER \in Int
  BY <1>1 DEF RunnerRun, Runner!EXIT_OTHER, RunnerInv, ReportIsTrue
<1>3. CASE attempt' = [attempt EXCEPT !.step = "over", !.receipt = TRUE]
  <2>1. attempt' = [attempt EXCEPT !.step = "over", !.code = attempt.code,
                                   !.deaf = attempt.deaf, !.receipt = TRUE]
    BY <1>1, <1>2, <1>3 DEF RunnerRun
  <2> QED
    BY <1>1, <1>2, <2>1, RunnerLastSteps
<1>4. CASE attempt' = [attempt EXCEPT !.step = "over",
                                      !.code = Runner!EXIT_OTHER]
  <2>1. attempt' = [attempt EXCEPT !.step = "over", !.code = Runner!EXIT_OTHER,
                                   !.deaf = attempt.deaf, !.receipt = FALSE]
    BY <1>1, <1>2, <1>4 DEF RunnerRun
  <2> QED
    BY <1>1, <1>2, <2>1, RunnerLastSteps
<1> QED
  BY <1>3, <1>4 DEF Runner!Finish

LEMMA RunnerKillStep ==
    ASSUME Runner!RunnerAssumption, RunnerInv, Runner!Kill
    PROVE  RunnerInv'
<1>1. /\ attempt \in RunnerRun /\ attempt.step # "over"
         /\ attempt.receipt = FALSE
      /\ UNCHANGED <<card, spent, count>>
         /\ runnerFaults' \in 0..MaxRunnerFaults
      /\ attempt' = [attempt EXCEPT !.step = "over",
                                    !.code = Runner!EXIT_OTHER]
  <2>1. attempt \in RunnerRun /\ attempt.step # "over" /\ ~ attempt.receipt
    BY DEF RunnerInv, Runner!Kill, ReportIsTrue
  <2> QED
    BY <2>1 DEF RunnerInv, Runner!Kill, RunnerRun, Runner!RunnerAssumption
<1>2. /\ attempt' \in RunnerRun /\ attempt'.attempts = attempt.attempts
         /\ attempt'.step = "over"
      /\ attempt'.receipt = FALSE
  <2>1. Runner!EXIT_OTHER \in Int /\ "over" \in RunnerStep
    BY DEF Runner!EXIT_OTHER, RunnerStep
  <2> QED
    BY <1>1, <2>1 DEF RunnerRun
<1>3. ReportIsTrue'
  BY <1>2 DEF ReportIsTrue
<1> QED
  BY <1>1, <1>2, <1>3, RunnerSameAttempts DEF RunnerInv

\* A card that asks for no more work asks for none after these either.
LEMMA RunnerAroundStep ==
    ASSUME Runner!RunnerAssumption, RunnerInv,
           Runner!AgentSettles \/ Runner!Archive \/ Runner!QuotaChanges
    PROVE  RunnerInv'
<1>1. attempt' = attempt /\ Tried' = Tried /\ UNCHANGED <<count, runnerFaults>>
  BY DEF Runner!AgentSettles, Runner!Archive, Runner!QuotaChanges, Tried
<1>2. card' = card \/ (card' \in Runner!Terminal /\ card' # "running")
  BY DEF Runner!AgentSettles, Runner!Archive, Runner!QuotaChanges,
     Runner!Terminal
<1>3. spent' \in BOOLEAN
  BY DEF RunnerInv, Runner!AgentSettles, Runner!Archive, Runner!QuotaChanges
<1> QED
  BY <1>1, <1>2, <1>3 DEF RunnerInv, AttemptsInOrder, ReportIsTrue, RunnerRun

LEMMA RunnerSteps ==
    ASSUME Runner!RunnerAssumption, RunnerInv, Runner!Next
    PROVE  RunnerInv'
BY RunnerBeginStep, RunnerPreflightStep, RunnerCodexStep, RunnerProbeStep,
   RunnerAuthStep, RunnerClaudeStep, RunnerStatusStep,
   RunnerBlockStep, RunnerFinishStep, RunnerKillStep, RunnerAroundStep
DEF Runner!Next

LEMMA RunnerTypes == ASSUME RunnerInv PROVE Runner!TypeOK
<1>1. attempt.attempts \in Seq(Runner!Attempt) /\ attempt.step \in RunnerStep
      /\ attempt.mode \in Runner!Modes
  BY DEF RunnerInv, RunnerRun
<1> DEFINE runtimes ==
        [i \in DOMAIN attempt.attempts |-> attempt.attempts[i].runtime]
<1>2. /\ \/ Len(attempt.attempts) = 0
         \/ Len(attempt.attempts) = 1
         \/ Len(attempt.attempts) = 2
      /\ Len(attempt.attempts) = 2 =>
            /\ attempt.attempts[1].runtime = "codex"
            /\ attempt.attempts[2].runtime = "claude"
  <2>1. Len(attempt.attempts) \in Nat
    BY <1>1
  <2>2. Tried \in Nat
    BY <2>1 DEF Tried
  <2>3. Tried <= 2 /\ (Tried = 2 => /\ attempt.attempts[1].runtime = "codex"
                                   /\ attempt.attempts[2].runtime = "claude")
    BY DEF RunnerInv, AttemptsInOrder
  <2>4. Tried = 0 \/ Tried = 1 \/ Tried = 2
    BY <2>2, <2>3
  <2> QED
    BY <2>3, <2>4 DEF Tried
<1>3. \A i \in 1..Len(attempt.attempts) :
         attempt.attempts[i] \in Runner!Attempt
  BY <1>1
<1>4. runtimes \in {<<>>, <<"codex">>, <<"claude">>, <<"codex", "claude">>}
  <2>1. CASE Len(attempt.attempts) = 0
    BY <1>1, <2>1
  <2>2. CASE Len(attempt.attempts) = 1
    BY <1>1, <1>3, <2>2 DEF Runner!Attempt
  <2>3. CASE Len(attempt.attempts) = 2
    BY <1>1, <1>2, <2>3
  <2> QED
    BY <1>2, <2>1, <2>2, <2>3
<1> QED
  BY <1>1, <1>3, <1>4 DEF RunnerInv, Runner!TypeOK, RunnerStep

LEMMA RunnerReports == ASSUME RunnerInv PROVE Runner!RunReportsTruth
<1>1. attempt.attempts \in Seq(Runner!Attempt) /\ Tried = Len(attempt.attempts)
      /\ (attempt.attempts # <<>> => Tried # 0)
  BY DEF RunnerInv, RunnerRun, Tried
<1>2. Runner!Last(attempt.attempts) = attempt.attempts[Tried]
  BY <1>1 DEF Runner!Last
<1> QED
  BY <1>1, <1>2
  DEF RunnerInv, AttemptsInOrder, ReportIsTrue, Runner!RunReportsTruth

-----------------------------------------------------------------------------
(* TaskDatabase: the locks that its users share or have alone               *)

ThreadRec == [kind : Db!Kinds \cup {"none"}, held : 0..2, seen : Nat,
              copy : 0..MaxCommits,
              step : {"idle", "enter", "file", "work", "reading", "preimage",
                      "commit", "leave", "release"}]

\* A thread is where its operation has such a step, with the locks it needs.
Placed(t) ==
    LET a == at[t] IN
    /\ a.step = "idle" => a = Db!Idle
    /\ a.step # "idle" => a.kind \in Db!Kinds /\ a.held <= Len(Db!Plan(a.kind))
    /\ a.step \in {"enter", "file"} => a.held < Len(Db!Plan(a.kind))
    /\ a.step = "work" => a.held = Len(Db!Plan(a.kind))
                          \/ (a.kind = "backup" /\ a.held = 1)
    /\ a.step = "reading" => a.kind \in {"read", "init"} /\ a.held = 1
    /\ a.step = "preimage" => a.kind = "restore" /\ a.held = 1
    /\ a.step = "commit" => a.kind \in {"write", "restore"}
                            /\ a.held = Len(Db!Plan(a.kind))
    /\ a.step \in {"leave", "release"} => a.held >= 1
    /\ a.kind = "restore" =>
         backup # 0 /\ (a.step \in {"preimage", "commit"} => a.copy # 0)
    /\ a.kind = "backup" =>
         (a.held = 1 /\ a.step \in {"enter", "file"} => a.copy # 0)
         /\ (a.held = 2 => a.copy # 0)

\* How many locks of its plan a thread has in the barrier of its process.
Entered(t) == IF at[t].step = "release" THEN at[t].held - 1 ELSE at[t].held
Has(t, l) == \E i \in 1..Entered(t) : Db!Plan(at[t].kind)[i] = l
Coming(t, l) == at[t].step = "file" /\ Db!Wanted(t) = l
Going(t, l) == at[t].step = "release" /\ Db!Top(t) = l

Owners(p, l) == {t \in Thread : Home[t] = p /\ Has(t, l) /\ Db!Alone(t, l)}
Sharers(p, l) == {t \in Thread : Home[t] = p /\ Has(t, l) /\ ~ Db!Alone(t, l)}
Comers(p, l) == {t \in Thread : Home[t] = p /\ Coming(t, l)}

\* The barrier counts and names the threads of its process that have the lock
\* or are about to; who owns it, or waits for the file, is the only one.
BarrierInv(p, l) ==
    /\ barrier[p][l] = [shared |-> Cardinality(Sharers(p, l)),
                        owner |-> Owners(p, l), inside |-> Comers(p, l)]
    /\ \A t, u \in Owners(p, l) \cup Comers(p, l) : t = u
    /\ Owners(p, l) \cup Comers(p, l) # {} => Sharers(p, l) = {}

Shut(who) == [who |-> who, alone |-> TRUE]
Ajar(who) == [who |-> who, alone |-> FALSE]

\* The process has the file while a thread of it has the lock; the handle goes
\* with the thread that is to release it.
HandleInv(l) ==
    /\ \A p \in Process :
         /\ Shut(p) \in files[l] <=> Owners(p, l) # {}
         /\ Ajar(p) \in files[l] <=> Sharers(p, l) # {}
    /\ \A t \in Thread :
         /\ Shut(t) \in files[l] <=> Going(t, l) /\ Db!Alone(t, l)
         /\ Ajar(t) \in files[l] <=> Going(t, l) /\ ~ Db!Alone(t, l)
    /\ \A h, g \in files[l] : h.alone => h = g

CommitsSeen == \A t \in Thread : at[t].step = "commit" => at[t].seen = db

DbStores ==
    /\ at \in [Thread -> ThreadRec]
    /\ barrier \in [Process -> [Db!Lock ->
         [shared : Nat, owner : SUBSET Thread, inside : SUBSET Thread]]]
    /\ files \in [Db!Lock -> SUBSET [who : Process \cup Thread,
                                    alone : BOOLEAN]]
    /\ db \in 1..MaxCommits /\ backup \in 0..MaxCommits
    /\ versions \in 1..MaxCommits /\ databaseFaults \in 0..MaxDatabaseFaults

DbInv ==
    /\ DbStores /\ CommitsSeen /\ \A t \in Thread : Placed(t)
    /\ \A p \in Process, l \in Db!Lock : BarrierInv(p, l)
    /\ \A l \in Db!Lock : HandleInv(l)

LEMMA PlanOfLocks ==
    ASSUME NEW kind \in Db!Kinds
    PROVE  /\ Len(Db!Plan(kind))
                 = IF kind \in {"write", "backup"} THEN 2 ELSE 1
           /\ \A i \in 1..Len(Db!Plan(kind)) : Db!Plan(kind)[i] \in Db!Lock
           /\ Db!Plan(kind)[1] = "operation"
           /\ kind \in {"write", "backup"} => Db!Plan(kind)[2] # "operation"
           /\ kind = "write" => Db!Plan(kind)[2] = "write"
           /\ \A i, j \in 1..Len(Db!Plan(kind)) :
                 Db!Plan(kind)[i] = Db!Plan(kind)[j] => i = j
<1>1. CASE kind = "write"
  BY <1>1 DEF Db!Plan, Db!Lock
<1>2. CASE kind = "backup"
  BY <1>2 DEF Db!Plan, Db!Lock
<1>3. CASE kind \notin {"write", "backup"}
  BY <1>3 DEF Db!Plan, Db!Lock
<1> QED
  BY <1>1, <1>2, <1>3

\* The one step of a thread at a time.
Moves(t, r) == /\ r \in ThreadRec /\ at' = [at EXCEPT ![t] = r]

\* A step of t that changes nothing about this lock for t.
SameView(t, l) ==
    /\ Has(t, l)' <=> Has(t, l)
    /\ Coming(t, l)' <=> Coming(t, l)
    /\ Going(t, l)' <=> Going(t, l)
    /\ Has(t, l) \/ Going(t, l) => (Db!Alone(t, l)' <=> Db!Alone(t, l))

LEMMA OthersView ==
    ASSUME DbStores, NEW t \in Thread, NEW r, Moves(t, r),
           NEW u \in Thread \ {t},
           NEW l \in Db!Lock
    PROVE  SameView(u, l)
<1>1. at'[u] = at[u]
  BY DEF DbStores, Moves
<1> QED
  BY <1>1 DEF SameView, Has, Entered, Coming, Going, Db!Wanted, Db!Top,
       Db!Alone

LEMMA BarrierKept ==
    ASSUME NEW p \in Process, NEW l \in Db!Lock, BarrierInv(p, l),
           \A u \in Thread : Home[u] = p => SameView(u, l),
           barrier'[p][l] = barrier[p][l]
    PROVE  BarrierInv(p, l)'
<1>1. /\ Owners(p, l)' = Owners(p, l) /\ Sharers(p, l)' = Sharers(p, l)
      /\ Comers(p, l)' = Comers(p, l)
  BY DEF Owners, Sharers, Comers, SameView
<1> QED
  BY <1>1 DEF BarrierInv

LEMMA HandleKept ==
    ASSUME NEW l \in Db!Lock, HandleInv(l), files'[l] = files[l],
           \A u \in Thread : SameView(u, l)
    PROVE  HandleInv(l)'
<1>1. ASSUME NEW p \in Process
      PROVE  Owners(p, l)' = Owners(p, l) /\ Sharers(p, l)' = Sharers(p, l)
  BY DEF Owners, Sharers, SameView
<1>2. \A t \in Thread :
         /\ (Going(t, l) /\ Db!Alone(t, l))' <=> Going(t, l) /\ Db!Alone(t, l)
         /\ (Going(t, l) /\ ~ Db!Alone(t, l))'
               <=> Going(t, l) /\ ~ Db!Alone(t, l)
  BY DEF SameView
<1> QED
  BY <1>1, <1>2 DEF HandleInv, Shut, Ajar

\* A step that no lock shows.
LEMMA LocksKept ==
    ASSUME DbInv, NEW t \in Thread, NEW r, Moves(t, r), DbStores',
           CommitsSeen',
           Placed(t)', backup # 0 => backup' # 0,
           UNCHANGED <<barrier, files>>, \A l \in Db!Lock : SameView(t, l)
    PROVE  DbInv'
<1>1. \A u \in Thread, l \in Db!Lock : SameView(u, l)
  BY OthersView DEF DbInv
<1>2. \A u \in Thread : Placed(u)'
  <2>1. \A u \in Thread \ {t} : at'[u] = at[u]
    BY DEF Moves, DbInv, DbStores
  <2> QED
    BY <2>1 DEF DbInv, Placed
<1>3. \A p \in Process, l \in Db!Lock : BarrierInv(p, l)'
  BY <1>1, BarrierKept DEF DbInv
<1>4. \A l \in Db!Lock : HandleInv(l)'
  BY <1>1, HandleKept DEF DbInv
<1> QED
  BY <1>2, <1>3, <1>4 DEF DbInv

\* Threads that are not in a lock are not seen there.
LEMMA IdleView ==
    ASSUME NEW t \in Thread, at[t] = Db!Idle, NEW l \in Db!Lock
    PROVE  ~ Has(t, l) /\ ~ Coming(t, l) /\ ~ Going(t, l) /\ Placed(t)
BY DEF Db!Idle, Has, Entered, Coming, Going, Placed

LEMMA NoneEmpty == Cardinality({}) = 0
BY FS_EmptySet

LEMMA DbInit == ASSUME Db!DatabaseAssumption, Db!Init PROVE DbInv
<1>1. Db!Idle \in ThreadRec
  BY DEF Db!Idle, ThreadRec, Db!DatabaseAssumption
<1>2. DbStores /\ CommitsSeen
  BY <1>1
  DEF Db!Init, DbStores, CommitsSeen, Db!Idle, Db!Down, Db!Nobody,
      Db!DatabaseAssumption
<1>3. \A t \in Thread, l \in Db!Lock :
         ~ Has(t, l) /\ ~ Coming(t, l) /\ ~ Going(t, l) /\ Placed(t)
  BY IdleView DEF Db!Init
<1>4. \A p \in Process, l \in Db!Lock :
         Owners(p, l) = {} /\ Sharers(p, l) = {} /\ Comers(p, l) = {}
  BY <1>3 DEF Owners, Sharers, Comers
<1>5. \A p \in Process, l \in Db!Lock : BarrierInv(p, l)
  BY <1>4, NoneEmpty DEF BarrierInv, Db!Init, Db!Down, Db!Nobody
<1>6. \A l \in Db!Lock : HandleInv(l)
  BY <1>3, <1>4 DEF HandleInv, Db!Init
<1>7. "operation" \in Db!Lock
  BY DEF Db!Lock
<1> QED
  BY <1>2, <1>3, <1>5, <1>6, <1>7 DEF DbInv

\* A lock that somebody has alone, nobody else has.
LEMMA Exclusion ==
    ASSUME Db!DatabaseAssumption, DbInv, NEW l \in Db!Lock,
           NEW t \in Thread, NEW u \in Thread,
           Has(t, l), Has(u, l), Db!Alone(t, l)
    PROVE  t = u
<1>1. Home[t] \in Process /\ Home[u] \in Process
  BY DEF Db!DatabaseAssumption
<1>2. t \in Owners(Home[t], l)
      /\ (u \in Owners(Home[u], l) \/ u \in Sharers(Home[u], l))
  BY DEF Owners, Sharers
<1>3. Home[u] = Home[t]
  <2>1. Shut(Home[t]) \in files[l]
        /\ (Shut(Home[u]) \in files[l] \/ Ajar(Home[u]) \in files[l])
    BY <1>1, <1>2 DEF DbInv, HandleInv
  <2>2. \A h, g \in files[l] : h.alone => h = g
    BY DEF DbInv, HandleInv
  <2> QED
    BY <2>1, <2>2 DEF Shut, Ajar
<1>4. BarrierInv(Home[t], l)
  BY <1>1 DEF DbInv
<1> QED
  BY <1>2, <1>3, <1>4 DEF BarrierInv

\* Who is past its last lock has the operation lock, a writer the other too.
LEMMA HasLocks ==
    ASSUME DbInv, NEW t \in Thread,
           at[t].step \in {"work", "reading", "preimage", "commit"}
    PROVE  /\ at[t].kind \in Db!Kinds /\ Has(t, "operation")
           /\ at[t].kind = "write" => Has(t, "write")
<1>1. /\ at[t].kind \in Db!Kinds /\ at[t].held \in 0..2
      /\ at[t].held >= 1 /\ (at[t].kind = "write" => at[t].held = 2)
  <2>1. at[t].held \in 0..2 /\ Placed(t)
    BY DEF DbInv, DbStores, ThreadRec
  <2>2. at[t].kind \in Db!Kinds /\ Len(Db!Plan(at[t].kind))
             = IF at[t].kind \in {"write", "backup"} THEN 2 ELSE 1
    BY <2>1, PlanOfLocks DEF Placed
  <2> QED
    BY <2>1, <2>2 DEF Placed
<1>2. Entered(t) = at[t].held
  BY DEF Entered
<1>3. 1 \in 1..Entered(t) /\ (at[t].kind = "write" => 2 \in 1..Entered(t))
  BY <1>1, <1>2
<1> QED
  BY <1>1, <1>3, PlanOfLocks DEF Has

LEMMA OneCommit ==
    ASSUME Db!DatabaseAssumption, DbInv, NEW t \in Thread, NEW u \in Thread,
           at[t].step = "commit", at[u].step = "commit"
    PROVE  t = u
<1>1. at[t].kind \in {"write", "restore"}
      /\ at[u].kind \in {"write", "restore"}
  BY DEF DbInv, Placed
<1>2. "operation" \in Db!Lock /\ "write" \in Db!Lock
  BY DEF Db!Lock
<1>3. CASE at[t].kind = "restore"
  BY <1>2, <1>3, HasLocks, Exclusion DEF Db!Alone, Db!Exclusive
<1>4. CASE at[u].kind = "restore"
  BY <1>2, <1>4, HasLocks, Exclusion DEF Db!Alone, Db!Exclusive
<1>5. CASE at[t].kind = "write" /\ at[u].kind = "write"
  BY <1>2, <1>5, HasLocks, Exclusion DEF Db!Alone, Db!Exclusive
<1> QED
  BY <1>1, <1>3, <1>4, <1>5

\* A step at work: it neither enters nor leaves a lock.
LEMMA WorkKeepsLocks ==
    ASSUME Db!DatabaseAssumption, DbInv, NEW t \in Thread, NEW r, Moves(t, r),
           r.kind = at[t].kind, r.held = at[t].held,
           at[t].step \notin {"file", "release"},
           r.step \notin {"file", "release"},
           UNCHANGED <<barrier, files>>,
           db' \in 1..MaxCommits, backup' \in 0..MaxCommits,
           versions' \in 1..MaxCommits,
           databaseFaults' \in 0..MaxDatabaseFaults,
           backup # 0 => backup' # 0,
           r.step = "commit" => r.seen = db',
           db' = db \/ at[t].step = "commit", Placed(t)'
    PROVE  DbInv'
<1>1. at \in [Thread -> ThreadRec] /\ at'[t] = r
      /\ \A u \in Thread \ {t} : at'[u] = at[u]
  BY DEF Moves, DbInv, DbStores
<1>2. \A l \in Db!Lock : SameView(t, l)
  BY <1>1 DEF SameView, Has, Entered, Coming, Going, Db!Alone
<1>3. DbStores'
  BY <1>1 DEF DbStores, DbInv, Moves
<1>4. CommitsSeen'
  <2>1. \A u \in Thread \ {t} : at[u].step = "commit" => at[u].seen = db'
    BY OneCommit DEF DbInv, CommitsSeen
  <2> QED
    BY <1>1, <2>1 DEF CommitsSeen
<1> QED
  BY <1>2, <1>3, <1>4, LocksKept

LEMMA DbCallStep ==
    ASSUME Db!DatabaseAssumption, DbInv, NEW t \in Thread,
           NEW kind \in Db!Kinds,
           Db!Call(t, kind)
    PROVE  DbInv'
<1> DEFINE r == [Db!Idle EXCEPT !.kind = kind, !.step = "enter"]
<1>1. r \in ThreadRec /\ r.kind = kind /\ r.step = "enter" /\ r.held = 0
  <2>1. Db!Idle \in ThreadRec /\ Db!Idle.held = 0
    BY DEF Db!Idle, ThreadRec, Db!DatabaseAssumption
  <2> QED
    BY <2>1 DEF ThreadRec
<1>2. at[t] = Db!Idle /\ at \in [Thread -> ThreadRec] /\ Db!Idle.held = 0
      /\ Db!Idle.step = "idle"
  BY DEF Db!Call, DbInv, Placed, DbStores, Db!Idle
<1>3. Moves(t, r) /\ UNCHANGED <<barrier, files, Db!fileVars, databaseFaults>>
      /\ (kind = "restore" => backup # 0)
  BY <1>1 DEF Moves, Db!Call
<1> HIDE DEF r
<1>4. at'[t] = r
  BY <1>2, <1>3 DEF Moves
<1>5. Placed(t)'
  BY <1>1, <1>3, <1>4, PlanOfLocks DEF Placed, Db!fileVars
<1>6. \A l \in Db!Lock : SameView(t, l)
  BY <1>1, <1>2, <1>4 DEF SameView, Has, Entered, Coming, Going
<1>7. DbStores'
  BY <1>1, <1>2, <1>3 DEF DbStores, DbInv, Moves, Db!fileVars
<1>8. CommitsSeen'
  BY <1>1, <1>2, <1>3, <1>4 DEF CommitsSeen, DbInv, Moves, Db!fileVars
<1> QED
  BY <1>1, <1>3, <1>5, <1>6, <1>7, <1>8, LocksKept DEF Db!fileVars

\* Where a thread is that works.
LEMMA WhereItWorks ==
    ASSUME DbInv, NEW t \in Thread,
           at[t].step \in {"work", "reading", "preimage", "commit"}
    PROVE  /\ at[t].kind \in Db!Kinds /\ at[t].held \in 1..2
           /\ at[t].held <= Len(Db!Plan(at[t].kind))
           /\ at[t].kind # "backup" => at[t].held = Len(Db!Plan(at[t].kind))
           /\ at[t].kind = "restore" => backup # 0
           /\ at[t].kind = "backup" /\ at[t].held = 2 => at[t].copy # 0
<1>1. Placed(t) /\ at[t].held \in 0..2
  BY DEF DbInv, DbStores, ThreadRec
<1>2. at[t].kind \in Db!Kinds /\ at[t].held <= Len(Db!Plan(at[t].kind))
  BY <1>1 DEF Placed
<1>3. at[t].kind # "backup" => at[t].held = Len(Db!Plan(at[t].kind))
  BY <1>1, <1>2, PlanOfLocks DEF Placed
<1>4. at[t].held # 0
  BY <1>1, <1>2, <1>3, PlanOfLocks DEF Placed
<1> QED
  BY <1>1, <1>2, <1>3, <1>4 DEF Placed

\* A step of a thread that works, to a step its operation has.
Works(t, step, seen, copy) ==
    /\ at[t].step \in {"work", "reading", "preimage", "commit"}
    /\ at' = [at EXCEPT ![t].step = step, ![t].seen = seen, ![t].copy = copy]
    /\ step \in {"enter", "reading", "preimage", "commit", "leave"}
    /\ seen \in Nat /\ copy \in 0..MaxCommits
    /\ step = "enter" => at[t].kind = "backup" /\ at[t].held = 1 /\ copy # 0
    /\ step = "reading" => at[t].kind \in {"read", "init"}
    /\ step = "preimage" => at[t].kind = "restore" /\ copy # 0
    /\ step = "commit" => /\ at[t].kind \in {"write", "restore"}
                          /\ seen = db'
                          /\ at[t].kind = "restore" => copy # 0
    /\ copy # at[t].copy => copy # 0

LEMMA DbWorkStep ==
    ASSUME Db!DatabaseAssumption, DbInv, NEW t \in Thread,
           NEW step, NEW seen, NEW copy, Works(t, step, seen, copy),
           UNCHANGED <<barrier, files>>,
           db' \in 1..MaxCommits, backup' \in 0..MaxCommits,
           versions' \in 1..MaxCommits,
           databaseFaults' \in 0..MaxDatabaseFaults,
           backup # 0 => backup' # 0,
           db' = db \/ at[t].step = "commit"
    PROVE  DbInv'
<1> DEFINE r == [at[t] EXCEPT !.step = step, !.seen = seen, !.copy = copy]
<1>1. at[t] \in ThreadRec /\ at \in [Thread -> ThreadRec]
  BY DEF DbInv, DbStores
<1>2. /\ r \in ThreadRec /\ r.kind = at[t].kind /\ r.held = at[t].held
      /\ r.step = step /\ r.seen = seen /\ r.copy = copy
  BY <1>1 DEF ThreadRec, Works
<1>3. at' = [at EXCEPT ![t] = r]
  BY <1>1 DEF Works
<1> HIDE DEF r
<1>4. Moves(t, r) /\ at'[t] = r
  BY <1>1, <1>2, <1>3 DEF Moves
<1>5. Placed(t)'
  <2>1. at[t].step \in {"work", "reading", "preimage", "commit"}
    BY DEF Works
  <2>2. /\ at[t].kind \in Db!Kinds /\ at[t].held \in 1..2
        /\ at[t].held <= Len(Db!Plan(at[t].kind))
        /\ at[t].kind # "backup" => at[t].held = Len(Db!Plan(at[t].kind))
        /\ at[t].kind = "restore" => backup # 0
        /\ at[t].kind = "backup" /\ at[t].held = 2 => at[t].copy # 0
        /\ Len(Db!Plan(at[t].kind)) =
              IF at[t].kind \in {"write", "backup"} THEN 2 ELSE 1
    BY <2>1, WhereItWorks, PlanOfLocks
  <2> QED
    BY <1>2, <1>4, <2>2 DEF Placed, Works
<1> QED
  BY <1>2, <1>4, <1>5, WorkKeepsLocks DEF Works

LEMMA DbOperateStep ==
    ASSUME Db!DatabaseAssumption, DbInv, NEW t \in Thread, Db!Operate(t)
    PROVE  DbInv'
<1>1. /\ at \in [Thread -> ThreadRec] /\ at[t] \in ThreadRec
      /\ at[t].seen \in Nat /\ at[t].copy \in 0..MaxCommits
      /\ db \in 1..MaxCommits /\ backup \in 0..MaxCommits
      /\ versions \in 1..MaxCommits /\ databaseFaults \in 0..MaxDatabaseFaults
      /\ MaxCommits \in Nat /\ MaxDatabaseFaults \in Nat
  BY DEF DbInv, DbStores, ThreadRec, Db!DatabaseAssumption
<1>2. Db!Fault => databaseFaults' \in 0..MaxDatabaseFaults
  BY <1>1 DEF Db!Fault
<1>3. ASSUME NEW step \in {"reading", "leave"}, Db!Goto(t, step),
             at[t].step \in {"work", "reading", "preimage", "commit"},
             step = "reading" => at[t].kind \in {"read", "init"}
      PROVE  Works(t, step, at[t].seen, at[t].copy)
  <2>1. at' = [at EXCEPT ![t].step = step, ![t].seen = at[t].seen,
                         ![t].copy = at[t].copy]
    BY <1>1, <1>3 DEF Db!Goto, ThreadRec
  <2> QED
    BY <1>1, <1>3, <2>1 DEF Works
<1>4. CASE Db!Begin(t)
  <2>1. at' = [at EXCEPT ![t].step = "commit", ![t].seen = db,
                         ![t].copy = at[t].copy]
    BY <1>1, <1>4 DEF Db!Begin, ThreadRec
  <2>2. at[t].step = "work" /\ at[t].kind = "write"
        /\ UNCHANGED <<barrier, files, db, backup, versions, databaseFaults>>
    BY <1>4 DEF Db!Begin, Db!Ready, Db!fileVars
  <2>3. Works(t, "commit", db, at[t].copy)
    BY <1>1, <2>1, <2>2 DEF Works
  <2> QED
    BY <1>1, <2>2, <2>3, DbWorkStep
<1>5. CASE Db!Commit(t)
  <2>1. /\ db' \in 1..MaxCommits /\ versions' \in 1..MaxCommits
        /\ databaseFaults' \in 0..MaxDatabaseFaults
    BY <1>1, <1>2, <1>5 DEF Db!Commit
  <2>2. Db!Goto(t, "leave") /\ at[t].step = "commit"
        /\ UNCHANGED <<barrier, files, backup>>
    BY <1>5 DEF Db!Commit
  <2> QED
    BY <1>1, <1>3, <2>1, <2>2, DbWorkStep
<1>6. CASE Db!Look(t) \/ Db!Looked(t)
  <2>1. PICK step \in {"reading", "leave"} :
          /\ Db!Goto(t, step) /\ at[t].step \in {"work", "reading"}
          /\ step = "reading" => at[t].kind \in {"read", "init"}
    BY <1>6 DEF Db!Look, Db!Looked, Db!Ready
  <2>2. UNCHANGED <<barrier, files, db, backup, versions, databaseFaults>>
    BY <1>6 DEF Db!Look, Db!Looked, Db!fileVars
  <2> QED
    BY <1>1, <1>3, <2>1, <2>2, DbWorkStep
<1>7. CASE Db!Capture(t)
  <2>1. /\ at[t].step = "work" /\ at[t].kind = "backup" /\ at[t].held = 1
        /\ UNCHANGED <<barrier, files, db, backup, versions>>
        /\ databaseFaults' \in 0..MaxDatabaseFaults
    BY <1>1, <1>2, <1>7 DEF Db!Capture, Db!fileVars
  <2>2. CASE at' = [at EXCEPT ![t].copy = db, ![t].step = "enter"]
    <3>1. at' = [at EXCEPT ![t].step = "enter", ![t].seen = at[t].seen,
                           ![t].copy = db]
      BY <1>1, <2>2 DEF ThreadRec
    <3>2. Works(t, "enter", at[t].seen, db)
      BY <1>1, <2>1, <3>1 DEF Works
    <3> QED
      BY <1>1, <2>1, <3>2, DbWorkStep
  <2>3. CASE Db!Goto(t, "leave")
    BY <1>1, <1>3, <2>1, <2>3, DbWorkStep
  <2> QED
    BY <1>7, <2>2, <2>3 DEF Db!Capture
<1>8. CASE Db!Publish(t)
  <2>1. /\ at[t].step = "work" /\ at[t].kind = "backup"
        /\ at[t].held = Len(Db!Plan("backup"))
        /\ UNCHANGED <<barrier, files, db, versions>> /\ Db!Goto(t, "leave")
        /\ databaseFaults' \in 0..MaxDatabaseFaults
        /\ backup' = at[t].copy \/ backup' = backup
    BY <1>1, <1>2, <1>8 DEF Db!Publish, Db!Ready
  <2>2. at[t].held = 2
    BY <2>1, PlanOfLocks DEF Db!Kinds
  <2>3. at[t].copy # 0
    BY <2>1, <2>2 DEF DbInv, Placed
  <2> QED
    BY <1>1, <1>3, <2>1, <2>3, DbWorkStep
<1>9. CASE Db!Stage(t)
  <2>1. /\ at[t].step = "work" /\ at[t].kind = "restore" /\ backup # 0
        /\ UNCHANGED <<barrier, files, db, backup, versions>>
        /\ databaseFaults' \in 0..MaxDatabaseFaults
    BY <1>1, <1>2, <1>9 DEF Db!Stage, Db!Ready, Db!fileVars, DbInv, Placed
  <2>2. CASE at' = [at EXCEPT ![t].copy = backup, ![t].step = "preimage"]
    <3>1. at' = [at EXCEPT ![t].step = "preimage", ![t].seen = at[t].seen,
                           ![t].copy = backup]
      BY <1>1, <2>2 DEF ThreadRec
    <3>2. Works(t, "preimage", at[t].seen, backup)
      BY <1>1, <2>1, <3>1 DEF Works
    <3> QED
      BY <1>1, <2>1, <3>2, DbWorkStep
  <2>3. CASE Db!Goto(t, "leave")
    BY <1>1, <1>3, <2>1, <2>3, DbWorkStep
  <2> QED
    BY <1>9, <2>2, <2>3 DEF Db!Stage
<1>10. CASE Db!Preimage(t)
  <2>1. /\ at[t].step = "preimage" /\ at[t].kind = "restore"
        /\ at[t].copy # 0
        /\ UNCHANGED <<barrier, files, db, backup, versions>>
        /\ databaseFaults' \in 0..MaxDatabaseFaults
    BY <1>1, <1>2, <1>10 DEF Db!Preimage, Db!fileVars, DbInv, Placed
  <2>2. CASE at' = [at EXCEPT ![t].seen = db, ![t].step = "commit"]
    <3>1. at' = [at EXCEPT ![t].step = "commit", ![t].seen = db,
                           ![t].copy = at[t].copy]
      BY <1>1, <2>2 DEF ThreadRec
    <3>2. Works(t, "commit", db, at[t].copy)
      BY <1>1, <2>1, <3>1 DEF Works
    <3> QED
      BY <1>1, <2>1, <3>2, DbWorkStep
  <2>3. CASE Db!Goto(t, "leave")
    BY <1>1, <1>3, <2>1, <2>3, DbWorkStep
  <2> QED
    BY <1>10, <2>2, <2>3 DEF Db!Preimage
<1>11. CASE Db!Replace(t)
  <2>1. /\ at[t].step = "commit" /\ at[t].kind = "restore"
        /\ UNCHANGED <<barrier, files, backup, versions>>
        /\ Db!Goto(t, "leave")
        /\ databaseFaults' \in 0..MaxDatabaseFaults
        /\ (db' = at[t].copy \/ db' = db)
    BY <1>1, <1>2, <1>11 DEF Db!Replace
  <2>2. at[t].copy # 0
    BY <2>1 DEF DbInv, Placed
  <2>3. Works(t, "leave", at[t].seen, at[t].copy) /\ db' \in 1..MaxCommits
    BY <1>1, <1>3, <2>1, <2>2
  <2> QED
    BY <1>1, <2>1, <2>3, DbWorkStep
<1> QED
  BY <1>4, <1>5, <1>6, <1>7, <1>8, <1>9, <1>10, <1>11 DEF Db!Operate

\* A step of t at one lock, of the barrier and the file of that lock.
LEMMA LockStep ==
    ASSUME Db!DatabaseAssumption, DbInv, NEW t \in Thread, NEW l \in Db!Lock,
           NEW r,
           Moves(t, r), NEW s, NEW F,
           s \in [shared : Nat, owner : SUBSET Thread, inside : SUBSET Thread],
           F \in SUBSET [who : Process \cup Thread, alone : BOOLEAN],
           barrier' = [barrier EXCEPT ![Home[t]][l] = s],
           files' = [files EXCEPT ![l] = F],
           UNCHANGED <<db, backup, versions, databaseFaults>>,
           r.step # "commit", Placed(t)',
           \A k \in Db!Lock \ {l} : SameView(t, k),
           BarrierInv(Home[t], l)', HandleInv(l)'
    PROVE  DbInv'
<1>1. Home[t] \in Process
  BY DEF Db!DatabaseAssumption
<1>2. at \in [Thread -> ThreadRec] /\ at'[t] = r
      /\ \A u \in Thread \ {t} : at'[u] = at[u]
  BY DEF Moves, DbInv, DbStores
<1>3. DbStores'
  <2>1. at' \in [Thread -> ThreadRec]
    BY <1>2 DEF Moves
  <2>2. barrier' \in [Process -> [Db!Lock ->
          [shared : Nat, owner : SUBSET Thread, inside : SUBSET Thread]]]
    BY <1>1 DEF DbInv, DbStores
  <2> QED
    BY <2>1, <2>2 DEF DbInv, DbStores
<1>4. CommitsSeen'
  BY <1>2 DEF CommitsSeen, DbInv
<1>5. \A u \in Thread : Placed(u)'
  BY <1>2 DEF DbInv, Placed
<1>6. \A u \in Thread \ {t}, k \in Db!Lock : SameView(u, k)
  BY OthersView DEF DbInv
<1>7. ASSUME NEW p \in Process, NEW k \in Db!Lock PROVE BarrierInv(p, k)'
  <2>1. CASE p = Home[t] /\ k = l
    BY <2>1
  <2>2. CASE ~ (p = Home[t] /\ k = l)
    <3>1. \A u \in Thread : Home[u] = p => SameView(u, k)
      BY <1>6, <2>2
    <3>2. barrier'[p][k] = barrier[p][k]
      BY <1>1, <2>2 DEF DbInv, DbStores
    <3> QED
      BY <3>1, <3>2, BarrierKept DEF DbInv
  <2> QED
    BY <2>1, <2>2
<1>8. ASSUME NEW k \in Db!Lock PROVE HandleInv(k)'
  <2>1. CASE k # l
    <3>1. \A u \in Thread : SameView(u, k)
      BY <1>6, <2>1
    <3>2. files'[k] = files[k]
      BY <2>1 DEF DbInv, DbStores
    <3> QED
      BY <3>1, <3>2, HandleKept DEF DbInv
  <2> QED
    BY <2>1
<1> QED
  BY <1>3, <1>4, <1>5, <1>7, <1>8 DEF DbInv

\* What a step of t makes of the threads that have a lock, or come for it.
LEMMA MovedSets ==
    ASSUME DbStores, NEW t \in Thread, NEW r, Moves(t, r), NEW l \in Db!Lock
    PROVE  /\ Owners(Home[t], l)' = (Owners(Home[t], l) \ {t}) \cup
                  (IF (Has(t, l) /\ Db!Alone(t, l))' THEN {t} ELSE {})
           /\ Sharers(Home[t], l)' = (Sharers(Home[t], l) \ {t}) \cup
                  (IF (Has(t, l) /\ ~ Db!Alone(t, l))' THEN {t} ELSE {})
           /\ Comers(Home[t], l)' = (Comers(Home[t], l) \ {t}) \cup
                  (IF Coming(t, l)' THEN {t} ELSE {})
           /\ \A p \in Process \ {Home[t]} :
                 Owners(p, l)' = Owners(p, l) /\ Sharers(p, l)' = Sharers(p, l)
           /\ \A u \in Thread \ {t} :
                 /\ (Going(u, l) /\ Db!Alone(u, l))'
                       <=> Going(u, l) /\ Db!Alone(u, l)
                 /\ (Going(u, l) /\ ~ Db!Alone(u, l))'
                       <=> Going(u, l) /\ ~ Db!Alone(u, l)
<1>1. \A u \in Thread \ {t} : SameView(u, l)
  BY OthersView
<1>2. \A u \in Thread \ {t} :
        /\ (Has(u, l) /\ Db!Alone(u, l))' <=> Has(u, l) /\ Db!Alone(u, l)
        /\ (Has(u, l) /\ ~ Db!Alone(u, l))' <=> Has(u, l) /\ ~ Db!Alone(u, l)
        /\ Coming(u, l)' <=> Coming(u, l)
        /\ (Going(u, l) /\ Db!Alone(u, l))' <=> Going(u, l) /\ Db!Alone(u, l)
        /\ (Going(u, l) /\ ~ Db!Alone(u, l))'
              <=> Going(u, l) /\ ~ Db!Alone(u, l)
  BY <1>1 DEF SameView
<1>3. Owners(Home[t], l)' = (Owners(Home[t], l) \ {t}) \cup
                  (IF (Has(t, l) /\ Db!Alone(t, l))' THEN {t} ELSE {})
  BY <1>2 DEF Owners
<1>4. Sharers(Home[t], l)' = (Sharers(Home[t], l) \ {t}) \cup
                  (IF (Has(t, l) /\ ~ Db!Alone(t, l))' THEN {t} ELSE {})
  BY <1>2 DEF Sharers
<1>5. Comers(Home[t], l)' = (Comers(Home[t], l) \ {t}) \cup
                  (IF Coming(t, l)' THEN {t} ELSE {})
  BY <1>2 DEF Comers
<1>6. \A p \in Process \ {Home[t]} :
         Owners(p, l)' = Owners(p, l) /\ Sharers(p, l)' = Sharers(p, l)
  BY <1>2 DEF Owners, Sharers
<1> QED
  BY <1>2, <1>3, <1>4, <1>5, <1>6

\* Where a thread is that enters, and where it is then.
LEMMA WhereItWaits ==
    ASSUME DbInv, NEW t \in Thread, at[t].step \in {"enter", "file"}
    PROVE  /\ Db!Wanted(t) \in Db!Lock /\ ~ Has(t, Db!Wanted(t))
           /\ at[t].kind \in Db!Kinds /\ at[t].held \in 0..1
           /\ at[t].held < Len(Db!Plan(at[t].kind))
<1>1. /\ at[t].kind \in Db!Kinds /\ at[t].held \in 0..2
      /\ at[t].held < Len(Db!Plan(at[t].kind))
  BY DEF DbInv, DbStores, ThreadRec, Placed
<1>2. /\ at[t].held \in 0..1
      /\ at[t].held + 1 \in 1..Len(Db!Plan(at[t].kind))
      /\ \A i \in 1..at[t].held :
            i \in 1..Len(Db!Plan(at[t].kind)) /\ i # at[t].held + 1
  BY <1>1, PlanOfLocks
<1>3. Entered(t) = at[t].held
  BY DEF Entered
<1> QED
  BY <1>1, <1>2, <1>3, PlanOfLocks DEF Db!Wanted, Has

LEMMA WhereItEnters ==
    ASSUME Db!DatabaseAssumption, DbInv, NEW t \in Thread, NEW l \in Db!Lock,
           l = Db!Wanted(t), at[t].step \in {"enter", "file"}, Db!In(t),
           backup' = backup
    PROVE  \E r \in ThreadRec :
              /\ Moves(t, r) /\ r.step # "commit" /\ Placed(t)'
              /\ Has(t, l)' /\ ~ Coming(t, l)' /\ ~ Going(t, l)'
              /\ Db!Alone(t, l)' <=> Db!Alone(t, l)
              /\ \A k \in Db!Lock \ {l} : SameView(t, k)
<1> DEFINE kind == at[t].kind
           held == at[t].held
           step == IF held + 1 = Len(Db!Plan(kind)) \/ kind = "backup"
                   THEN "work" ELSE "enter"
           r == [at[t] EXCEPT !.held = held + 1, !.step = step]
<1>1. at \in [Thread -> ThreadRec] /\ at[t] \in ThreadRec
  BY DEF DbInv, DbStores
<1>2. kind \in Db!Kinds /\ held \in 0..1 /\ held < Len(Db!Plan(kind))
  BY WhereItWaits
<1>3. /\ r \in ThreadRec /\ r.kind = kind /\ r.held = held + 1 /\ r.step = step
      /\ r.copy = at[t].copy
  <2>1. held + 1 \in 0..2 /\ step \in {"work", "enter"}
    BY <1>2
  <2> HIDE DEF held, step
  <2> QED
    BY <1>1, <2>1 DEF ThreadRec
<1>4. Moves(t, r) /\ at'[t] = r
  BY <1>1, <1>3 DEF Db!In, Moves
<1> HIDE DEF r
<1>5. Placed(t)'
  <2>1. /\ kind = "restore" => backup # 0
        /\ kind = "backup" /\ held = 1 => at[t].copy # 0
    BY DEF DbInv, Placed
  <2> QED
    BY <1>2, <1>3, <1>4, <2>1, PlanOfLocks DEF Placed
<1>6. Entered(t) = held /\ Entered(t)' = held + 1
  BY <1>3, <1>4 DEF Entered
<1>7. \A k \in Db!Lock : Has(t, k)' <=> Has(t, k) \/ k = l
  <2>1. \A k : Has(t, k)' <=> \E i \in 1..held + 1 : Db!Plan(kind)[i] = k
    BY <1>3, <1>4, <1>6 DEF Has
  <2>2. \A k : Has(t, k) <=> \E i \in 1..held : Db!Plan(kind)[i] = k
    BY <1>6 DEF Has
  <2>3. l = Db!Plan(kind)[held + 1]
    BY DEF Db!Wanted
  <2>4. 1..held + 1 = 1..held \cup {held + 1}
    BY <1>2
  <2> HIDE DEF kind, held
  <2> QED
    BY <2>1, <2>2, <2>3, <2>4
<1>8. \A k \in Db!Lock : ~ Coming(t, k)' /\ ~ Going(t, k)' /\ ~ Going(t, k)
                         /\ (Db!Alone(t, k)' <=> Db!Alone(t, k))
                         /\ (k # l => ~ Coming(t, k))
  BY <1>3, <1>4 DEF Coming, Going, Db!Alone
<1>9. \A k \in Db!Lock \ {l} : SameView(t, k)
  BY <1>7, <1>8 DEF SameView
<1> QED
  BY <1>3, <1>4, <1>5, <1>7, <1>8, <1>9

LEMMA FiniteSharers ==
    ASSUME Db!DatabaseAssumption, NEW p, NEW l
    PROVE  /\ IsFiniteSet(Sharers(p, l)) /\ Cardinality(Sharers(p, l)) \in Nat
           /\ Cardinality(Sharers(p, l)) = 0 <=> Sharers(p, l) = {}
<1>1. IsFiniteSet(Thread) /\ Sharers(p, l) \subseteq Thread
  BY DEF Db!DatabaseAssumption, Sharers, Db!IsFiniteSet, IsFiniteSet
<1>2. IsFiniteSet(Sharers(p, l))
  BY <1>1, FS_Subset
<1> QED
  BY <1>2, FS_CardinalityType, FS_EmptySet

\* The state of a lock in a step is what the invariant says it is.
LEMMA StateIs ==
    ASSUME Db!DatabaseAssumption, DbInv, NEW t \in Thread, NEW l \in Db!Lock
    PROVE  /\ Db!State(t, l).shared = Cardinality(Sharers(Home[t], l))
           /\ Db!State(t, l).owner = Owners(Home[t], l)
           /\ Db!State(t, l).inside = Comers(Home[t], l)
           /\ Db!State(t, l) \in [shared : Nat, owner : SUBSET Thread,
                                  inside : SUBSET Thread]
           /\ BarrierInv(Home[t], l) /\ HandleInv(l) /\ Home[t] \in Process
           /\ \A s : Db!SetState(t, l, s) =>
                  barrier'[Home[t]][l] = s
<1>1. Home[t] \in Process
  BY DEF Db!DatabaseAssumption
<1>2. BarrierInv(Home[t], l) /\ HandleInv(l)
  BY <1>1 DEF DbInv
<1>3. barrier \in [Process -> [Db!Lock ->
         [shared : Nat, owner : SUBSET Thread, inside : SUBSET Thread]]]
  BY DEF DbInv, DbStores
<1>4. \A s : Db!SetState(t, l, s) => barrier'[Home[t]][l] = s
  BY <1>1, <1>3 DEF Db!SetState
<1> QED
  BY <1>1, <1>2, <1>3, <1>4 DEF Db!State, BarrierInv

\* A lock that is shared already is shared with one more.
LEMMA DbEnterSharesStep ==
    ASSUME Db!DatabaseAssumption, DbInv, NEW t \in Thread, NEW l \in Db!Lock,
           l = Db!Wanted(t), at[t].step = "enter", ~ Db!Alone(t, l),
           Db!State(t, l).inside = {}, Db!State(t, l).owner = {},
           Db!State(t, l).shared > 0,
           Db!SetState(t, l, [Db!State(t, l) EXCEPT !.shared = @ + 1]),
           Db!In(t),
           UNCHANGED <<files, db, backup, versions, databaseFaults>>
    PROVE  DbInv'
<1> DEFINE p == Home[t]
           s == [Db!State(t, l) EXCEPT !.shared = @ + 1]
<1>1. PICK r \in ThreadRec :
              /\ Moves(t, r) /\ r.step # "commit" /\ Placed(t)'
              /\ Has(t, l)' /\ ~ Coming(t, l)' /\ ~ Going(t, l)'
              /\ Db!Alone(t, l)' <=> Db!Alone(t, l)
              /\ \A k \in Db!Lock \ {l} : SameView(t, k)
  BY WhereItEnters
<1>2. ~ Has(t, l) /\ ~ Going(t, l) /\ ~ Coming(t, l)
  BY WhereItWaits DEF Going, Coming
<1> DEFINE n == Cardinality(Sharers(p, l))
<1>3. /\ Owners(p, l) = {} /\ Comers(p, l) = {} /\ t \notin Sharers(p, l)
      /\ Sharers(p, l) # {} /\ n \in Nat /\ Db!State(t, l).shared = n
  <2>1. /\ Owners(p, l) = {} /\ Comers(p, l) = {} /\ Db!State(t, l).shared = n
    BY StateIs
  <2>2. n \in Nat /\ (n = 0 <=> Sharers(p, l) = {})
    BY FiniteSharers
  <2>3. t \notin Sharers(p, l)
    BY <1>2 DEF Sharers
  <2> QED
    BY <2>1, <2>2, <2>3
<1>4. /\ Owners(p, l)' = {} /\ Comers(p, l)' = {}
      /\ Sharers(p, l)' = Sharers(p, l) \cup {t}
  BY <1>1, <1>3, MovedSets DEF DbInv
<1>5. Cardinality(Sharers(p, l)') = n + 1
  <2>1. IsFiniteSet(Sharers(p, l))
    BY FiniteSharers
  <2>2. Cardinality(Sharers(p, l) \cup {t}) = n + 1
    BY <1>3, <2>1, FS_AddElement
  <2> QED
    BY <1>4, <2>2
<1>6. s = [shared |-> n + 1, owner |-> {}, inside |-> {}]
  <2>1. Db!State(t, l) \in [shared : Nat, owner : SUBSET Thread,
                           inside : SUBSET Thread]
    BY StateIs
  <2> HIDE DEF n
  <2>2. /\ s \in [shared : Nat, owner : SUBSET Thread,
                 inside : SUBSET Thread]
        /\ s.shared = n + 1 /\ s.owner = {} /\ s.inside = {}
    BY <1>3, <2>1
  <2> HIDE DEF s
  <2> QED
    BY <2>2
<1>7. BarrierInv(p, l)'
  <2>1. barrier'[p][l] = s
    BY StateIs
  <2> QED
    BY <1>4, <1>5, <1>6, <2>1 DEF BarrierInv
<1>8. HandleInv(l)'
  <2>1. \A q \in Process : /\ Owners(q, l)' = {} <=> Owners(q, l) = {}
                           /\ Sharers(q, l)' = {} <=> Sharers(q, l) = {}
    BY <1>1, <1>3, <1>4, MovedSets DEF DbInv
  <2>2. \A u \in Thread :
           /\ (Going(u, l) /\ Db!Alone(u, l))'
                 <=> Going(u, l) /\ Db!Alone(u, l)
           /\ (Going(u, l) /\ ~ Db!Alone(u, l))'
                 <=> Going(u, l) /\ ~ Db!Alone(u, l)
    BY <1>1, <1>2, MovedSets DEF DbInv
  <2>3. HandleInv(l)
    BY StateIs
  <2> QED
    BY <2>1, <2>2, <2>3 DEF HandleInv, Shut, Ajar
<1>9. s \in [shared : Nat, owner : SUBSET Thread, inside : SUBSET Thread]
  <2> HIDE DEF n, s
  <2> QED
    BY <1>3, <1>6
<1>10. barrier' = [barrier EXCEPT ![Home[t]][l] = s]
       /\ files' = [files EXCEPT ![l] = files[l]]
       /\ files[l] \in SUBSET [who : Process \cup Thread, alone : BOOLEAN]
  BY DEF Db!SetState, DbInv, DbStores
<1> HIDE DEF s
<1> QED
  BY <1>1, <1>7, <1>8, <1>9, <1>10, LockStep

\* Of a lock that nobody has one thread takes the place before the file.
LEMMA DbEnterWaitsStep ==
    ASSUME Db!DatabaseAssumption, DbInv, NEW t \in Thread, NEW l \in Db!Lock,
           l = Db!Wanted(t), at[t].step = "enter",
           Db!State(t, l).inside = {}, Db!State(t, l).owner = {},
           Sharers(Home[t], l) = {},
           Db!SetState(t, l, [Db!State(t, l) EXCEPT !.inside = {t}]),
           Db!Goto(t, "file"),
           UNCHANGED <<files, db, backup, versions, databaseFaults>>
    PROVE  DbInv'
<1> DEFINE p == Home[t]
           s == [Db!State(t, l) EXCEPT !.inside = {t}]
           r == [at[t] EXCEPT !.step = "file"]
<1>1. /\ r \in ThreadRec /\ r.step = "file" /\ r.kind = at[t].kind
      /\ r.held = at[t].held /\ r.copy = at[t].copy /\ Moves(t, r)
      /\ at'[t] = r
  BY DEF DbInv, DbStores, ThreadRec, Moves, Db!Goto
<1> HIDE DEF r
<1>2. /\ \A k \in Db!Lock :
            /\ ~ Going(t, k) /\ ~ Coming(t, k) /\ ~ Going(t, k)'
            /\ Coming(t, k)' <=> k = l
            /\ Has(t, k)' <=> Has(t, k)
            /\ Db!Alone(t, k)' <=> Db!Alone(t, k)
      /\ ~ Has(t, l)
  BY <1>1, WhereItWaits DEF Going, Coming, Db!Wanted, Has, Entered, Db!Alone
<1>3. \A k \in Db!Lock \ {l} : SameView(t, k)
  BY <1>2 DEF SameView
<1>4. Owners(p, l) = {} /\ Comers(p, l) = {}
  BY StateIs
<1>5. Owners(p, l)' = {} /\ Comers(p, l)' = {t} /\ Sharers(p, l)' = {}
  BY <1>1, <1>2, <1>4, MovedSets DEF DbInv
<1>6. s = [shared |-> 0, owner |-> {}, inside |-> {t}]
  <2>1. /\ Db!State(t, l).shared = 0
        /\ Db!State(t, l) \in [shared : Nat, owner : SUBSET Thread,
                              inside : SUBSET Thread]
    BY StateIs, NoneEmpty
  <2> QED
    BY <2>1
<1>7. BarrierInv(p, l)'
  <2>1. barrier'[p][l] = s
    BY StateIs
  <2> QED
    BY <1>5, <1>6, <2>1, NoneEmpty DEF BarrierInv
<1>8. HandleInv(l)'
  <2>1. \A q \in Process : /\ Owners(q, l)' = Owners(q, l)
                           /\ Sharers(q, l)' = Sharers(q, l)
    BY <1>1, <1>4, <1>5, MovedSets DEF DbInv
  <2>2. \A u \in Thread :
           /\ (Going(u, l) /\ Db!Alone(u, l))'
                 <=> Going(u, l) /\ Db!Alone(u, l)
           /\ (Going(u, l) /\ ~ Db!Alone(u, l))'
                 <=> Going(u, l) /\ ~ Db!Alone(u, l)
    BY <1>1, <1>2, MovedSets DEF DbInv
  <2>3. HandleInv(l)
    BY StateIs
  <2> QED
    BY <2>1, <2>2, <2>3 DEF HandleInv, Shut, Ajar
<1>9. Placed(t)'
  BY <1>1 DEF DbInv, Placed
<1>10. barrier' = [barrier EXCEPT ![Home[t]][l] = s]
       /\ files' = [files EXCEPT ![l] = files[l]]
       /\ files[l] \in SUBSET [who : Process \cup Thread, alone : BOOLEAN]
  BY DEF Db!SetState, DbInv, DbStores
<1> HIDE DEF s
<1>11. s \in [shared : Nat, owner : SUBSET Thread, inside : SUBSET Thread]
  BY <1>6
<1> QED
  BY <1>1, <1>3, <1>7, <1>8, <1>9, <1>10, <1>11, LockStep

LEMMA DbEnterStep ==
    ASSUME Db!DatabaseAssumption, DbInv, NEW t \in Thread, Db!Enter(t)
    PROVE  DbInv'
<1> DEFINE l == Db!Wanted(t)
<1>1. l \in Db!Lock
  BY WhereItWaits DEF Db!Enter
<1>2. /\ at[t].step = "enter" /\ Db!State(t, l).inside = {}
      /\ Db!State(t, l).owner = {}
      /\ (Db!Alone(t, l) => Db!State(t, l).shared = 0)
      /\ UNCHANGED <<files, db, backup, versions, databaseFaults>>
  BY DEF Db!Enter, Db!Nobody, Db!fileVars
<1>3. CASE /\ ~ Db!Alone(t, l) /\ Db!State(t, l).shared > 0
           /\ Db!SetState(t, l, [Db!State(t, l) EXCEPT !.shared = @ + 1])
           /\ Db!In(t)
  BY <1>1, <1>2, <1>3, DbEnterSharesStep
<1>4. CASE /\ Db!Alone(t, l) \/ ~ (Db!State(t, l).shared > 0)
           /\ Db!SetState(t, l, [Db!State(t, l) EXCEPT !.inside = {t}])
           /\ Db!Goto(t, "file")
  <2>1. Sharers(Home[t], l) = {}
    BY <1>1, <1>2, <1>4, StateIs, FiniteSharers
  <2> QED
    BY <1>1, <1>2, <1>4, <2>1, DbEnterWaitsStep
<1> QED
  BY <1>3, <1>4 DEF Db!Enter

\* A thread that waits for the file of a lock is the only one of its process.
LEMMA OnlyComer ==
    ASSUME Db!DatabaseAssumption, DbInv, NEW t \in Thread, NEW l \in Db!Lock,
           l = Db!Wanted(t), at[t].step = "file"
    PROVE  /\ Owners(Home[t], l) = {} /\ Comers(Home[t], l) = {t}
           /\ Sharers(Home[t], l) = {} /\ ~ Has(t, l) /\ ~ Going(t, l)
<1>1. t \in Comers(Home[t], l) /\ ~ Has(t, l) /\ ~ Going(t, l)
  BY WhereItWaits DEF Comers, Coming, Going
<1>2. t \notin Owners(Home[t], l)
  BY <1>1 DEF Owners
<1>3. BarrierInv(Home[t], l)
  BY StateIs
<1>4. \A u \in Owners(Home[t], l) \cup Comers(Home[t], l) : u = t
  BY <1>1, <1>3 DEF BarrierInv
<1>5. Sharers(Home[t], l) = {}
  BY <1>1, <1>3 DEF BarrierInv
<1> QED
  BY <1>1, <1>2, <1>4, <1>5

LEMMA DbAcquireStep ==
    ASSUME Db!DatabaseAssumption, DbInv, NEW t \in Thread, Db!Acquire(t)
    PROVE  DbInv'
<1> DEFINE p == Home[t]
           l == Db!Wanted(t)
           h == Db!Handle(p, l, t)
           s == IF Db!Alone(t, l) THEN [Db!Down EXCEPT !.owner = {t}]
                                  ELSE [Db!Down EXCEPT !.shared = 1]
<1>1. /\ l \in Db!Lock /\ at[t].step = "file"
      /\ Db!Compatible(l, Db!Alone(t, l))
      /\ files' = [files EXCEPT ![l] = @ \cup {h}] /\ Db!SetState(t, l, s)
      /\ Db!In(t) /\ UNCHANGED <<db, backup, versions, databaseFaults>>
  BY WhereItWaits DEF Db!Acquire, Db!fileVars
<1> SUFFICES ASSUME NEW k \in Db!Lock, k = Db!Wanted(t) PROVE DbInv'
  BY <1>1
<1>2. PICK r \in ThreadRec :
              /\ Moves(t, r) /\ r.step # "commit" /\ Placed(t)'
              /\ Has(t, k)' /\ ~ Coming(t, k)' /\ ~ Going(t, k)'
              /\ Db!Alone(t, k)' <=> Db!Alone(t, k)
              /\ \A m \in Db!Lock \ {k} : SameView(t, m)
  BY <1>1, WhereItEnters
<1>3. /\ Owners(p, k) = {} /\ Comers(p, k) = {t} /\ Sharers(p, k) = {}
      /\ ~ Going(t, k)
  BY <1>1, OnlyComer
<1>4. /\ Owners(p, k)' = IF Db!Alone(t, k) THEN {t} ELSE {}
      /\ Sharers(p, k)' = IF Db!Alone(t, k) THEN {} ELSE {t}
      /\ Comers(p, k)' = {}
      /\ \A q \in Process \ {p} :
            Owners(q, k)' = Owners(q, k) /\ Sharers(q, k)' = Sharers(q, k)
      /\ \A u \in Thread \ {t} :
            /\ (Going(u, k) /\ Db!Alone(u, k))'
                  <=> Going(u, k) /\ Db!Alone(u, k)
            /\ (Going(u, k) /\ ~ Db!Alone(u, k))'
                  <=> Going(u, k) /\ ~ Db!Alone(u, k)
  BY <1>2, <1>3, MovedSets DEF DbInv
<1>5. /\ s = [shared |-> IF Db!Alone(t, k) THEN 0 ELSE 1,
              owner |-> IF Db!Alone(t, k) THEN {t} ELSE {}, inside |-> {}]
      /\ s \in [shared : Nat, owner : SUBSET Thread, inside : SUBSET Thread]
  BY DEF Db!Down, Db!Nobody
<1>6. BarrierInv(p, k)'
  <2>1. barrier'[p][k] = s
    BY <1>1, StateIs
  <2>2. Cardinality({t}) = 1
    BY FS_Singleton
  <2> HIDE DEF s
  <2> QED
    BY <1>4, <1>5, <2>1, <2>2, NoneEmpty DEF BarrierInv
<1>7. /\ files[k] \in SUBSET [who : Process \cup Thread, alone : BOOLEAN]
      /\ p \in Process /\ HandleInv(k) /\ Thread \cap Process = {}
      /\ files'[k] = files[k] \cup {h}
  BY <1>1, StateIs DEF DbInv, DbStores, Db!DatabaseAssumption
<1>8. files'[k] \in SUBSET [who : Process \cup Thread, alone : BOOLEAN]
      /\ HandleInv(k)'
  <2>1. CASE Db!Alone(t, k)
    <3>1. h = Shut(p) /\ files[k] = {} /\ files'[k] = {Shut(p)}
      BY <1>1, <1>7, <2>1 DEF Db!Handle, Shut, Db!Compatible
    <3>2. \A q \in Process : Owners(q, k) = {} /\ Sharers(q, k) = {}
      BY <1>7, <3>1 DEF HandleInv
    <3>3. \A u \in Thread : ~ (Going(u, k) /\ Db!Alone(u, k))
                           /\ ~ (Going(u, k) /\ ~ Db!Alone(u, k))
      BY <1>7, <3>1 DEF HandleInv
    <3>4. \A q \in Process : Sharers(q, k)' = {}
          /\ (Owners(q, k)' # {} <=> q = p)
      BY <1>4, <2>1, <3>2
    <3>5. \A u \in Thread : ~ (Going(u, k) /\ Db!Alone(u, k))'
                           /\ ~ (Going(u, k) /\ ~ Db!Alone(u, k))'
      BY <1>2, <1>4, <3>3
    <3>6. \A u \in Thread : u # p
      BY <1>7
    <3>7. HandleInv(k)'
      BY <3>1, <3>4, <3>5, <3>6 DEF HandleInv, Shut, Ajar
    <3> QED
      BY <1>7, <3>1, <3>7 DEF Shut
  <2>2. CASE ~ Db!Alone(t, k)
    <3>1. h = Ajar(p) /\ \A g \in files[k] : ~ g.alone
      <4>1. Db!Alone(t, k) = FALSE
        BY <2>2 DEF Db!Alone, Db!Exclusive
      <4> QED
        BY <1>1, <4>1 DEF Db!Handle, Ajar, Db!Compatible
    <3>2. files'[k] = files[k] \cup {Ajar(p)} /\ \A q : Shut(q) \notin files[k]
      BY <1>7, <3>1 DEF Shut
    <3>3. \A g \in files'[k] : ~ g.alone
      BY <3>1, <3>2 DEF Ajar
    <3>4. \A q : Shut(q) \notin files'[k]
      BY <3>3 DEF Shut
    <3>5. \A q : Ajar(q) \in files'[k] <=> Ajar(q) \in files[k] \/ q = p
      BY <3>2 DEF Ajar
    <3>6. \A q \in Process :
             /\ Owners(q, k)' = Owners(q, k)
             /\ Sharers(q, k)' # {} <=> Sharers(q, k) # {} \/ q = p
      BY <1>3, <1>4, <2>2
    <3>7. \A u \in Thread :
             /\ (Going(u, k) /\ Db!Alone(u, k))'
                   <=> Going(u, k) /\ Db!Alone(u, k)
             /\ (Going(u, k) /\ ~ Db!Alone(u, k))'
                   <=> Going(u, k) /\ ~ Db!Alone(u, k)
      BY <1>2, <1>3, <1>4
    <3>8. \A u \in Thread : u # p
      BY <1>7
    <3>9. HandleInv(k)'
      BY <1>7, <3>2, <3>3, <3>4, <3>5, <3>6, <3>7, <3>8 DEF HandleInv
    <3>10. Ajar(p) \in [who : Process \cup Thread, alone : BOOLEAN]
      BY <1>7 DEF Ajar
    <3> QED
      BY <1>7, <3>2, <3>9, <3>10
  <2> QED
    BY <2>1, <2>2
<1>9. /\ barrier' = [barrier EXCEPT ![p][k] = s]
      /\ files' = [files EXCEPT ![k] = files'[k]]
  BY <1>1, <1>7 DEF Db!SetState
<1> HIDE DEF s
<1> QED
  BY <1>1, <1>2, <1>5, <1>6, <1>8, <1>9, LockStep

LEMMA DbGiveUpStep ==
    ASSUME Db!DatabaseAssumption, DbInv, NEW t \in Thread, Db!GiveUp(t)
    PROVE  DbInv'
<1> DEFINE p == Home[t]
           s == [Db!State(t, Db!Wanted(t)) EXCEPT !.inside = Db!Nobody]
           r == IF at[t].held = 0 THEN Db!Idle
                                  ELSE [at[t] EXCEPT !.step = "leave"]
<1>1. /\ Db!Wanted(t) \in Db!Lock /\ at[t].step \in {"enter", "file"}
      /\ at' = [at EXCEPT ![t] = r]
      /\ UNCHANGED <<files, db, backup, versions, databaseFaults>>
      /\ at[t] \in ThreadRec /\ at \in [Thread -> ThreadRec]
  BY WhereItWaits DEF Db!GiveUp, Db!fileVars, DbInv, DbStores
<1>2. r \in ThreadRec /\ r.step \in {"idle", "leave"}
  BY <1>1 DEF ThreadRec, Db!Idle, Db!DatabaseAssumption
<1>3. Moves(t, r) /\ at'[t] = r
  BY <1>1, <1>2 DEF Moves
<1>4. Placed(t)'
  <2>1. CASE at[t].held = 0
    BY <1>3, <2>1 DEF Placed, Db!Idle
  <2>2. CASE at[t].held # 0
    <3>1. /\ at'[t].kind = at[t].kind /\ at'[t].held = at[t].held
          /\ at'[t].copy = at[t].copy /\ at'[t].step = "leave"
      BY <1>1, <1>3, <2>2 DEF ThreadRec
    <3>2. Placed(t) /\ at[t].held >= 1
      BY <1>1, <2>2 DEF DbInv, ThreadRec
    <3> QED
      BY <1>1, <3>1, <3>2 DEF Placed
  <2> QED
    BY <2>1, <2>2
<1>5. \A k \in Db!Lock :
         /\ Has(t, k)' <=> Has(t, k)
         /\ ~ Coming(t, k)' /\ ~ Going(t, k) /\ ~ Going(t, k)'
         /\ Has(t, k) => (Db!Alone(t, k)' <=> Db!Alone(t, k))
  <2>1. CASE at[t].held = 0
    BY <1>1, <1>3, <2>1 DEF Has, Entered, Coming, Going, Db!Idle
  <2>2. CASE at[t].held # 0
    BY <1>1, <1>3, <2>2 DEF Has, Entered, Coming, Going, Db!Alone, ThreadRec
  <2> QED
    BY <2>1, <2>2
<1> HIDE DEF r
<1>6. CASE at[t].step = "enter"
  <2>1. \A k \in Db!Lock : SameView(t, k)
    BY <1>5, <1>6 DEF SameView, Coming
  <2>2. DbStores' /\ CommitsSeen'
    BY <1>1, <1>2, <1>3, <1>6 DEF Db!GiveUp, DbInv, DbStores, CommitsSeen,
         Moves
  <2>3. UNCHANGED barrier
    BY <1>6 DEF Db!GiveUp
  <2> QED
    BY <1>1, <1>2, <1>3, <1>4, <2>1, <2>2, <2>3, LocksKept
<1>7. CASE at[t].step = "file"
  <2> SUFFICES ASSUME NEW l \in Db!Lock, l = Db!Wanted(t) PROVE DbInv'
    BY <1>1
  <2>1. Db!SetState(t, l, s)
    BY <1>7 DEF Db!GiveUp
  <2>2. \A k \in Db!Lock \ {l} : SameView(t, k)
    BY <1>5 DEF SameView, Coming
  <2>3. /\ Owners(p, l) = {} /\ Comers(p, l) = {t} /\ Sharers(p, l) = {}
        /\ ~ Has(t, l)
    BY <1>7, OnlyComer
  <2>4. Owners(p, l)' = {} /\ Comers(p, l)' = {} /\ Sharers(p, l)' = {}
    BY <1>2, <1>3, <1>5, <2>3, MovedSets DEF DbInv
  <2>5. s = [shared |-> 0, owner |-> {}, inside |-> {}]
    <3>1. /\ Db!State(t, l).shared = 0 /\ Db!State(t, l).owner = {}
          /\ Db!State(t, l) \in [shared : Nat, owner : SUBSET Thread,
                                inside : SUBSET Thread]
      BY <2>3, StateIs, NoneEmpty
    <3> QED
      BY <3>1 DEF Db!Nobody
  <2>6. BarrierInv(p, l)'
    <3>1. barrier'[p][l] = s
      BY <2>1, StateIs
    <3> HIDE DEF s
    <3> QED
      BY <2>4, <2>5, <3>1, NoneEmpty DEF BarrierInv
  <2>7. HandleInv(l)'
    <3>1. \A q \in Process : /\ Owners(q, l)' = Owners(q, l)
                             /\ Sharers(q, l)' = Sharers(q, l)
      BY <1>2, <1>3, <2>3, <2>4, MovedSets DEF DbInv
    <3>2. \A u \in Thread :
             /\ (Going(u, l) /\ Db!Alone(u, l))'
                   <=> Going(u, l) /\ Db!Alone(u, l)
             /\ (Going(u, l) /\ ~ Db!Alone(u, l))'
                   <=> Going(u, l) /\ ~ Db!Alone(u, l)
      BY <1>2, <1>3, <1>5, MovedSets DEF DbInv
    <3>3. HandleInv(l)
      BY StateIs
    <3> QED
      BY <1>1, <3>1, <3>2, <3>3 DEF HandleInv, Shut, Ajar
  <2>8. /\ barrier' = [barrier EXCEPT ![Home[t]][l] = s]
        /\ files' = [files EXCEPT ![l] = files[l]]
        /\ files[l] \in SUBSET [who : Process \cup Thread, alone : BOOLEAN]
    BY <1>1, <2>1 DEF Db!SetState, DbInv, DbStores
  <2> HIDE DEF s
  <2>9. s \in [shared : Nat, owner : SUBSET Thread, inside : SUBSET Thread]
    BY <2>5
  <2> QED
    BY <1>1, <1>2, <1>3, <1>4, <2>2, <2>6, <2>7, <2>8, <2>9, LockStep
<1> QED
  BY <1>1, <1>6, <1>7

\* Where a thread is that leaves, and where it is after that lock.
LEMMA WhereItLeaves ==
    ASSUME Db!DatabaseAssumption, DbInv, NEW t \in Thread,
           at[t].step \in {"leave", "release"}
    PROVE  /\ Db!Top(t) \in Db!Lock /\ at[t].kind \in Db!Kinds
           /\ at[t].held \in 1..2
           /\ at[t].held <= Len(Db!Plan(at[t].kind))
           /\ \A i \in 1..at[t].held - 1 : Db!Plan(at[t].kind)[i] # Db!Top(t)
           /\ at[t].step = "leave" => Has(t, Db!Top(t))
           /\ at[t].step = "release" => ~ Has(t, Db!Top(t))
<1>1. /\ at[t].kind \in Db!Kinds /\ at[t].held \in 1..2
      /\ at[t].held <= Len(Db!Plan(at[t].kind))
  BY DEF DbInv, DbStores, ThreadRec, Placed
<1>2. /\ Db!Top(t) = Db!Plan(at[t].kind)[at[t].held]
      /\ at[t].held \in 1..Len(Db!Plan(at[t].kind))
      /\ \A i \in 1..at[t].held - 1 :
            i \in 1..Len(Db!Plan(at[t].kind)) /\ i # at[t].held
  BY <1>1, PlanOfLocks DEF Db!Top
<1>3. Db!Top(t) \in Db!Lock /\ \A i \in 1..at[t].held - 1 :
                                    Db!Plan(at[t].kind)[i] # Db!Top(t)
  BY <1>1, <1>2, PlanOfLocks
<1>4. /\ at[t].step = "leave" => Entered(t) = at[t].held
      /\ at[t].step = "release" => Entered(t) = at[t].held - 1
      /\ at[t].held \in 1..at[t].held
  BY <1>1 DEF Entered
<1> QED
  BY <1>1, <1>2, <1>3, <1>4 DEF Has

\* A thread that has left a lock goes on to leave the one before.
LEMMA Dropping ==
    ASSUME Db!DatabaseAssumption, DbInv, NEW t \in Thread, NEW l \in Db!Lock,
           l = Db!Top(t), at[t].step \in {"leave", "release"},
           Db!Out(t), backup' = backup
    PROVE  \E r \in ThreadRec :
              /\ Moves(t, r) /\ r.step # "commit" /\ Placed(t)'
              /\ ~ Has(t, l)' /\ ~ Coming(t, l)' /\ ~ Going(t, l)'
              /\ \A k \in Db!Lock \ {l} : SameView(t, k)
<1>1. /\ at[t] \in ThreadRec /\ at \in [Thread -> ThreadRec]
      /\ at[t].kind \in Db!Kinds /\ at[t].held \in 1..2
      /\ at[t].held <= Len(Db!Plan(at[t].kind))
      /\ l = Db!Plan(at[t].kind)[at[t].held]
      /\ \A i \in 1..at[t].held - 1 : Db!Plan(at[t].kind)[i] # l
  BY WhereItLeaves DEF DbInv, DbStores, Db!Top
<1>2. \A k \in Db!Lock \ {l} : ~ Going(t, k) /\ ~ Coming(t, k)
  BY DEF Going, Coming
<1>3. CASE at[t].held = 1
  <2>1. Db!Idle \in ThreadRec /\ Db!Idle.step = "idle"
    BY DEF Db!Idle, ThreadRec, Db!DatabaseAssumption
  <2>2. Moves(t, Db!Idle) /\ at'[t] = Db!Idle
    BY <1>1, <1>3, <2>1 DEF Moves, Db!Out
  <2>3. /\ Placed(t)'
        /\ \A k \in Db!Lock : ~ Has(t, k)' /\ ~ Coming(t, k)' /\ ~ Going(t, k)'
    <3>1. Db!Idle.step = "idle" /\ Db!Idle.held = 0 /\ Db!Idle.kind = "none"
      BY DEF Db!Idle
    <3>2. Placed(t)'
      BY <2>2, <3>1 DEF Placed
    <3>3. Entered(t)' = 0
      BY <2>2, <3>1 DEF Entered
    <3>4. \A k : ~ Has(t, k)' /\ ~ Coming(t, k)' /\ ~ Going(t, k)'
      BY <2>2, <3>1, <3>3 DEF Has, Coming, Going
    <3> QED
      BY <3>2, <3>4
  <2>4. \A k \in Db!Lock \ {l} : ~ Has(t, k)
    BY <1>1, <1>3 DEF Has, Entered
  <2> QED
    BY <1>2, <2>1, <2>2, <2>3, <2>4 DEF SameView
<1>4. CASE at[t].held # 1
  <2> DEFINE r == [at[t] EXCEPT !.held = @ - 1, !.step = "leave"]
  <2>1. /\ r \in ThreadRec /\ r.step = "leave" /\ r.held = at[t].held - 1
        /\ r.kind = at[t].kind /\ r.copy = at[t].copy
    <3>1. at[t].held - 1 \in 0..2
      BY <1>1
    <3> QED
      BY <1>1, <3>1 DEF ThreadRec
  <2>2. Moves(t, r) /\ at'[t] = r
    <3>1. at' = [at EXCEPT ![t] = r]
      BY <1>1, <1>4 DEF Db!Out
    <3> HIDE DEF r
    <3> QED
      BY <1>1, <2>1, <3>1 DEF Moves
  <2> HIDE DEF r
  <2>3. Placed(t)'
    <3>1. Placed(t) /\ r.held \in 1..2 /\ r.held <= Len(Db!Plan(r.kind))
      BY <1>1, <1>4, <2>1, PlanOfLocks DEF DbInv
    <3>2. at[t].kind = "restore" => backup # 0
      BY <3>1 DEF Placed
    <3>3. r.held # 2 /\ r.held >= 1 /\ r.kind \in Db!Kinds
      BY <1>1, <2>1, <3>1
    <3> QED
      BY <2>1, <2>2, <3>1, <3>2, <3>3 DEF Placed
  <2>4. Entered(t)' = at[t].held - 1
        /\ Entered(t) \in {at[t].held, at[t].held - 1}
    BY <2>1, <2>2 DEF Entered
  <2>5. \A k : Has(t, k)' <=>
                 \E i \in 1..at[t].held - 1 : Db!Plan(at[t].kind)[i] = k
    BY <2>1, <2>2, <2>4 DEF Has
  <2>6. \A k \in Db!Lock \ {l} : Has(t, k) <=>
                 \E i \in 1..at[t].held - 1 : Db!Plan(at[t].kind)[i] = k
    <3>1. 1..at[t].held = 1..at[t].held - 1 \cup {at[t].held}
      BY <1>1
    <3> QED
      BY <1>1, <2>4, <3>1 DEF Has
  <2>7. \A k \in Db!Lock :
           /\ ~ Coming(t, k)' /\ ~ Going(t, k)'
           /\ Db!Alone(t, k)' <=> Db!Alone(t, k)
    BY <2>1, <2>2 DEF Coming, Going, Db!Alone
  <2>8. \A k \in Db!Lock \ {l} : SameView(t, k)
    BY <1>2, <2>5, <2>6, <2>7 DEF SameView
  <2>9. ~ Has(t, l)'
    BY <1>1, <2>5
  <2> QED
    BY <2>1, <2>2, <2>3, <2>7, <2>8, <2>9
<1> QED
  BY <1>3, <1>4

\* A thread that has opened a barrier has its file still.
LEMMA Opening ==
    ASSUME Db!DatabaseAssumption, DbInv, NEW t \in Thread, NEW l \in Db!Lock,
           l = Db!Top(t), at[t].step = "leave", Db!Goto(t, "release"),
           backup' = backup
    PROVE  \E r \in ThreadRec :
              /\ Moves(t, r) /\ r.step # "commit" /\ Placed(t)'
              /\ ~ Has(t, l)' /\ ~ Coming(t, l)' /\ Going(t, l)'
              /\ Db!Alone(t, l)' <=> Db!Alone(t, l)
              /\ \A k \in Db!Lock \ {l} : SameView(t, k)
<1> DEFINE r == [at[t] EXCEPT !.step = "release"]
<1>1. /\ at[t] \in ThreadRec /\ at \in [Thread -> ThreadRec]
      /\ at[t].kind \in Db!Kinds /\ at[t].held \in 1..2
      /\ at[t].held <= Len(Db!Plan(at[t].kind))
      /\ l = Db!Plan(at[t].kind)[at[t].held]
      /\ \A i \in 1..at[t].held - 1 : Db!Plan(at[t].kind)[i] # l
  BY WhereItLeaves DEF DbInv, DbStores, Db!Top
<1>2. /\ r \in ThreadRec /\ r.step = "release" /\ r.held = at[t].held
      /\ r.kind = at[t].kind /\ r.copy = at[t].copy
  BY <1>1 DEF ThreadRec
<1>3. Moves(t, r) /\ at'[t] = r
  BY <1>1, <1>2 DEF Moves, Db!Goto
<1> HIDE DEF r
<1>4. Placed(t)'
  BY <1>1, <1>2, <1>3 DEF Placed, DbInv
<1>5. Entered(t) = at[t].held /\ Entered(t)' = at[t].held - 1
  BY <1>2, <1>3 DEF Entered
<1>6. \A k : Has(t, k)' <=>
               \E i \in 1..at[t].held - 1 : Db!Plan(at[t].kind)[i] = k
  BY <1>2, <1>3, <1>5 DEF Has
<1>7. \A k \in Db!Lock \ {l} : Has(t, k) <=>
               \E i \in 1..at[t].held - 1 : Db!Plan(at[t].kind)[i] = k
  <2>1. 1..at[t].held = 1..at[t].held - 1 \cup {at[t].held}
    BY <1>1
  <2> QED
    BY <1>1, <1>5, <2>1 DEF Has
<1>8. \A k \in Db!Lock :
         /\ ~ Coming(t, k)' /\ ~ Coming(t, k) /\ ~ Going(t, k)
         /\ Going(t, k)' <=> k = l
         /\ Db!Alone(t, k)' <=> Db!Alone(t, k)
  BY <1>2, <1>3 DEF Coming, Going, Db!Alone, Db!Top
<1>9. \A k \in Db!Lock \ {l} : SameView(t, k)
  BY <1>6, <1>7, <1>8 DEF SameView
<1>10. ~ Has(t, l)'
  BY <1>1, <1>6
<1> QED
  BY <1>2, <1>3, <1>4, <1>8, <1>9, <1>10

LEMMA DbLeaveStep ==
    ASSUME Db!DatabaseAssumption, DbInv, NEW t \in Thread, Db!Leave(t)
    PROVE  DbInv'
<1> SUFFICES ASSUME NEW l \in Db!Lock, l = Db!Top(t) PROVE DbInv'
  BY WhereItLeaves DEF Db!Leave
<1> DEFINE p == Home[t]
           s == IF Db!Alone(t, l) THEN Db!Down
                                  ELSE [Db!State(t, l) EXCEPT !.shared = @ - 1]
           n == Cardinality(Sharers(p, l))
<1>1. /\ at[t].step = "leave" /\ Db!SetState(t, l, s)
      /\ UNCHANGED <<db, backup, versions, databaseFaults>>
      /\ Comers(p, l) = {} /\ Db!State(t, l).shared = n /\ n \in Nat
      /\ Db!State(t, l) \in [shared : Nat, owner : SUBSET Thread,
                            inside : SUBSET Thread]
      /\ Db!State(t, l).owner = Owners(p, l) /\ Db!State(t, l).inside = {}
  BY StateIs, FiniteSharers DEF Db!Leave, Db!fileVars, Db!Nobody
<1>2. /\ HandleInv(l) /\ p \in Process /\ Has(t, l) /\ BarrierInv(p, l)
      /\ files \in [Db!Lock -> SUBSET [who : Process \cup Thread,
                                      alone : BOOLEAN]]
      /\ Thread \cap Process = {} /\ Db!Alone(t, l) \in BOOLEAN
      /\ ~ Going(t, l)
  BY <1>1, StateIs, WhereItLeaves
     DEF DbInv, DbStores, Db!DatabaseAssumption, Db!Alone, Db!Exclusive, Going
<1>3. barrier' = [barrier EXCEPT ![p][l] = s] /\ barrier'[p][l] = s
  <2>1. barrier' = [barrier EXCEPT ![p][l] = s]
    BY <1>1 DEF Db!SetState
  <2>2. barrier \in [Process -> [Db!Lock -> [shared : Nat,
              owner : SUBSET Thread, inside : SUBSET Thread]]]
    BY DEF DbInv, DbStores
  <2> HIDE DEF s
  <2> QED
    BY <1>2, <2>1, <2>2
<1>4. CASE Db!Alone(t, l)
  <2>1. /\ files' = [files EXCEPT ![l] = (@ \ {Shut(p)}) \cup {Shut(t)}]
        /\ Db!Goto(t, "release")
    BY <1>2, <1>4 DEF Db!Leave, Db!Handle, Shut
  <2>2. PICK r \in ThreadRec :
              /\ Moves(t, r) /\ r.step # "commit" /\ Placed(t)'
              /\ ~ Has(t, l)' /\ ~ Coming(t, l)' /\ Going(t, l)'
              /\ Db!Alone(t, l)' <=> Db!Alone(t, l)
              /\ \A k \in Db!Lock \ {l} : SameView(t, k)
    BY <1>1, <2>1, Opening
  <2>3. t \in Owners(p, l)
    BY <1>2, <1>4 DEF Owners
  <2>4. Owners(p, l) = {t} /\ Sharers(p, l) = {}
    BY <1>2, <2>3 DEF BarrierInv
  <2>5. files[l] = {Shut(p)}
    <3>1. Shut(p) \in files[l]
      BY <1>2, <2>3 DEF HandleInv
    <3> QED
      BY <1>2, <3>1 DEF HandleInv, Shut
  <2>6. files'[l] = {Shut(t)}
    BY <1>2, <2>1, <2>5
  <2>7. /\ Owners(p, l)' = {} /\ Comers(p, l)' = {} /\ Sharers(p, l)' = {}
    BY <1>1, <2>2, <2>4, MovedSets DEF DbInv
  <2>8. \A q \in Process : Owners(q, l)' = {} /\ Sharers(q, l)' = {}
    <3>1. \A q \in Process \ {p} : Owners(q, l) = {} /\ Sharers(q, l) = {}
      BY <1>2, <2>5 DEF HandleInv, Shut, Ajar
    <3> QED
      BY <2>2, <2>7, <3>1, MovedSets DEF DbInv
  <2>9. \A u \in Thread : ~ (Going(u, l) /\ ~ Db!Alone(u, l))'
                         /\ ((Going(u, l) /\ Db!Alone(u, l))' <=> u = t)
    <3>1. \A u \in Thread : u # p
      BY <1>2
    <3>2. \A u \in Thread : ~ (Going(u, l) /\ ~ Db!Alone(u, l))
                           /\ ~ (Going(u, l) /\ Db!Alone(u, l))
      BY <1>2, <2>5, <3>1 DEF HandleInv, Shut, Ajar
    <3>3. \A u \in Thread \ {t} : ~ (Going(u, l) /\ ~ Db!Alone(u, l))'
                                 /\ ~ (Going(u, l) /\ Db!Alone(u, l))'
      BY <2>2, <3>2, MovedSets DEF DbInv
    <3> QED
      BY <1>4, <2>2, <3>3
  <2>10. HandleInv(l)'
    <3>1. \A q \in Process : q # t
      BY <1>2
    <3> QED
      BY <2>6, <2>8, <2>9, <3>1 DEF HandleInv, Shut, Ajar
  <2>11. BarrierInv(p, l)'
    BY <1>3, <1>4, <2>7, NoneEmpty DEF BarrierInv, Db!Down, Db!Nobody
  <2>12. s \in [shared : Nat, owner : SUBSET Thread, inside : SUBSET Thread]
    BY <1>4 DEF Db!Down, Db!Nobody
  <2>13. files' = [files EXCEPT ![l] = {Shut(t)}]
         /\ {Shut(t)} \in SUBSET [who : Process \cup Thread, alone : BOOLEAN]
    <3>1. Shut(t) \in [who : Process \cup Thread, alone : BOOLEAN]
      BY DEF Shut
    <3>2. (files[l] \ {Shut(p)}) \cup {Shut(t)} = {Shut(t)}
      BY <2>5
    <3> QED
      BY <2>1, <3>1, <3>2
  <2> HIDE DEF s
  <2> QED
    BY <1>1, <1>3, <2>2, <2>10, <2>11, <2>12, <2>13, LockStep
<1>5. CASE ~ Db!Alone(t, l)
  <2>1. t \in Sharers(p, l) /\ Owners(p, l) = {} /\ n # 0
    <3>1. t \in Sharers(p, l)
      BY <1>2, <1>5 DEF Sharers
    <3> QED
      BY <1>2, <3>1, FiniteSharers DEF BarrierInv
  <2>2. Ajar(p) \in files[l] /\ (\A h \in files[l] : ~ h.alone)
    <3>1. Ajar(p) \in files[l]
      BY <1>2, <2>1 DEF HandleInv
    <3>2. \A h \in files[l] : h.alone => h = Ajar(p)
      BY <1>2, <3>1 DEF HandleInv
    <3> QED
      BY <3>1, <3>2 DEF Ajar
  <2>3. /\ s \in [shared : Nat, owner : SUBSET Thread, inside : SUBSET Thread]
        /\ s = [shared |-> n - 1, owner |-> {}, inside |-> {}]
    <3>1. /\ s \in [shared : Nat, owner : SUBSET Thread,
                   inside : SUBSET Thread]
          /\ s.shared = n - 1 /\ s.owner = {} /\ s.inside = {}
      BY <1>1, <1>5, <2>1
    <3> HIDE DEF s, n
    <3> QED
      BY <3>1
  <2>4. CASE n = 1
    <3>1. /\ files' = [files EXCEPT ![l] = (@ \ {Ajar(p)}) \cup {Ajar(t)}]
          /\ Db!Goto(t, "release")
      BY <1>1, <1>2, <1>5, <2>4 DEF Db!Leave, Db!Handle, Ajar
    <3>2. PICK r \in ThreadRec :
              /\ Moves(t, r) /\ r.step # "commit" /\ Placed(t)'
              /\ ~ Has(t, l)' /\ ~ Coming(t, l)' /\ Going(t, l)'
              /\ Db!Alone(t, l)' <=> Db!Alone(t, l)
              /\ \A k \in Db!Lock \ {l} : SameView(t, k)
      BY <1>1, <3>1, Opening
    <3>3. Sharers(p, l) = {t}
      BY <2>1, <2>4, FiniteSharers, FS_Singleton
    <3>4. /\ Owners(p, l)' = {} /\ Comers(p, l)' = {} /\ Sharers(p, l)' = {}
      BY <1>1, <2>1, <3>2, <3>3, MovedSets DEF DbInv
    <3>5. files'[l] = (files[l] \ {Ajar(p)}) \cup {Ajar(t)}
      BY <1>2, <3>1
    <3>6. \A q \in Process :
             /\ Owners(q, l)' = Owners(q, l)
             /\ Sharers(q, l)' # {} <=> Sharers(q, l) # {} /\ q # p
      BY <2>1, <3>2, <3>4, MovedSets DEF DbInv
    <3>7. \A u \in Thread :
             /\ (Going(u, l) /\ Db!Alone(u, l))'
                   <=> Going(u, l) /\ Db!Alone(u, l)
             /\ (Going(u, l) /\ ~ Db!Alone(u, l))'
                   <=> (Going(u, l) /\ ~ Db!Alone(u, l)) \/ u = t
      BY <1>2, <1>5, <3>2, MovedSets DEF DbInv
    <3>8. HandleInv(l)'
      <4>1. (\A q \in Process : q # t) /\ (\A u \in Thread : u # p)
        BY <1>2
      <4>2. \A q : Shut(q) \notin files[l] /\ Shut(q) \notin files'[l]
        BY <2>2, <3>5 DEF Shut, Ajar
      <4>3. \A q : Ajar(q) \in files'[l]
                     <=> (Ajar(q) \in files[l] /\ q # p) \/ q = t
        BY <3>5 DEF Ajar
      <4>4. \A h \in files'[l] : ~ h.alone
        BY <2>2, <3>5 DEF Ajar
      <4> QED
        BY <1>2, <3>6, <3>7, <4>1, <4>2, <4>3, <4>4 DEF HandleInv
    <3>9. BarrierInv(p, l)'
      <4>1. barrier'[p][l] = [shared |-> 0, owner |-> {}, inside |-> {}]
        BY <1>3, <2>3, <2>4
      <4> HIDE DEF s, n
      <4> QED
        BY <3>4, <4>1, NoneEmpty DEF BarrierInv
    <3>10. files' = [files EXCEPT ![l] = files'[l]]
           /\ files'[l] \in SUBSET [who : Process \cup Thread,
                                   alone : BOOLEAN]
      <4>1. Ajar(t) \in [who : Process \cup Thread, alone : BOOLEAN]
        BY DEF Ajar
      <4>2. files[l] \in SUBSET [who : Process \cup Thread, alone : BOOLEAN]
        BY <1>2
      <4>3. files' = [files EXCEPT ![l] = files'[l]]
        BY <1>2, <3>1
      <4> QED
        BY <3>5, <4>1, <4>2, <4>3
    <3> HIDE DEF s
    <3> QED
      BY <1>1, <1>3, <2>3, <3>2, <3>8, <3>9, <3>10, LockStep
  <2>5. CASE n # 1
    <3>1. files' = files /\ Db!Out(t)
      BY <1>1, <1>5, <2>5 DEF Db!Leave
    <3>2. PICK r \in ThreadRec :
              /\ Moves(t, r) /\ r.step # "commit" /\ Placed(t)'
              /\ ~ Has(t, l)' /\ ~ Coming(t, l)' /\ ~ Going(t, l)'
              /\ \A k \in Db!Lock \ {l} : SameView(t, k)
      BY <1>1, <3>1, Dropping
    <3>3. /\ Owners(p, l)' = {} /\ Comers(p, l)' = {}
          /\ Sharers(p, l)' = Sharers(p, l) \ {t}
      BY <1>1, <2>1, <3>2, MovedSets DEF DbInv
    <3>4. /\ Cardinality(Sharers(p, l) \ {t}) = n - 1
          /\ Sharers(p, l) \ {t} # {}
      <4>1. IsFiniteSet(Sharers(p, l))
        BY FiniteSharers
      <4>2. Cardinality(Sharers(p, l) \ {t}) = n - 1
        BY <2>1, <4>1, FS_RemoveElement
      <4>3. n - 1 # 0
        BY <1>1, <2>5
      <4> QED
        BY <4>2, <4>3, NoneEmpty
    <3>5. \A q \in Process :
             /\ Owners(q, l)' = Owners(q, l)
             /\ Sharers(q, l)' # {} <=> Sharers(q, l) # {}
      BY <2>1, <3>2, <3>3, <3>4, MovedSets DEF DbInv
    <3>6. \A u \in Thread :
             /\ (Going(u, l) /\ Db!Alone(u, l))'
                   <=> Going(u, l) /\ Db!Alone(u, l)
             /\ (Going(u, l) /\ ~ Db!Alone(u, l))'
                   <=> Going(u, l) /\ ~ Db!Alone(u, l)
      BY <1>2, <3>2, MovedSets DEF DbInv
    <3>7. HandleInv(l)'
      BY <1>2, <3>1, <3>5, <3>6 DEF HandleInv, Shut, Ajar
    <3>8. BarrierInv(p, l)'
      BY <1>3, <2>3, <3>3, <3>4 DEF BarrierInv
    <3>9. files' = [files EXCEPT ![l] = files[l]]
           /\ files[l] \in SUBSET [who : Process \cup Thread, alone : BOOLEAN]
      BY <1>2, <3>1
    <3> HIDE DEF s
    <3> QED
      BY <1>1, <1>3, <2>3, <3>2, <3>7, <3>8, <3>9, LockStep
  <2> QED
    BY <2>4, <2>5
<1> QED
  BY <1>2, <1>4, <1>5

LEMMA DbReleaseStep ==
    ASSUME Db!DatabaseAssumption, DbInv, NEW t \in Thread, Db!Release(t)
    PROVE  DbInv'
<1> SUFFICES ASSUME NEW l \in Db!Lock, l = Db!Top(t) PROVE DbInv'
  BY WhereItLeaves DEF Db!Release
<1> DEFINE p == Home[t]
           H == Db!Handle(t, l, t)
           F == files[l] \ {H}
           s == barrier[p][l]
<1>1. /\ at[t].step = "release"
      /\ UNCHANGED <<barrier, Db!fileVars, databaseFaults>>
      /\ files' = [files EXCEPT ![l] = F] /\ Db!Out(t)
  BY DEF Db!Release
<1>2. /\ HandleInv(l) /\ p \in Process /\ BarrierInv(p, l)
      /\ files \in [Db!Lock -> SUBSET [who : Process \cup Thread,
                                      alone : BOOLEAN]]
      /\ Thread \cap Process = {} /\ Db!Alone(t, l) \in BOOLEAN
      /\ barrier \in [Process -> [Db!Lock -> [shared : Nat,
              owner : SUBSET Thread, inside : SUBSET Thread]]]
  BY StateIs DEF DbInv, DbStores, Db!DatabaseAssumption, Db!Alone, Db!Exclusive
<1>3. ~ Has(t, l) /\ ~ Coming(t, l) /\ Going(t, l)
  BY <1>1, WhereItLeaves DEF Coming, Going
<1>4. PICK r \in ThreadRec :
              /\ Moves(t, r) /\ r.step # "commit" /\ Placed(t)'
              /\ ~ Has(t, l)' /\ ~ Coming(t, l)' /\ ~ Going(t, l)'
              /\ \A k \in Db!Lock \ {l} : SameView(t, k)
  BY <1>1, Dropping DEF Db!fileVars
<1>5. H = IF Db!Alone(t, l) THEN Shut(t) ELSE Ajar(t)
  BY <1>2 DEF Db!Handle, Shut, Ajar
<1>6. /\ Owners(p, l)' = Owners(p, l) /\ Sharers(p, l)' = Sharers(p, l)
      /\ Comers(p, l)' = Comers(p, l)
  <2>1. t \notin Owners(p, l) /\ t \notin Sharers(p, l)
        /\ t \notin Comers(p, l)
    BY <1>3 DEF Owners, Sharers, Comers
  <2>2. /\ Owners(p, l)' = Owners(p, l) \ {t}
        /\ Sharers(p, l)' = Sharers(p, l) \ {t}
        /\ Comers(p, l)' = Comers(p, l) \ {t}
    <3>1. DbStores
      BY DEF DbInv
    <3> QED
      BY <1>4, <3>1, MovedSets
  <2> QED
    BY <2>1, <2>2
<1>7. BarrierInv(p, l)'
  BY <1>1, <1>2, <1>6 DEF BarrierInv
<1>8. \A q \in Process : Owners(q, l)' = Owners(q, l)
                         /\ Sharers(q, l)' = Sharers(q, l)
  BY <1>4, <1>6, MovedSets DEF DbInv
<1>9. \A u \in Thread :
         /\ (Going(u, l) /\ Db!Alone(u, l))'
               <=> Going(u, l) /\ Db!Alone(u, l) /\ u # t
         /\ (Going(u, l) /\ ~ Db!Alone(u, l))'
               <=> Going(u, l) /\ ~ Db!Alone(u, l) /\ u # t
  BY <1>4, MovedSets DEF DbInv
<1>10. /\ \A q : Shut(q) \in F <=>
                   Shut(q) \in files[l] /\ ~ (q = t /\ Db!Alone(t, l))
       /\ \A q : Ajar(q) \in F <=>
                   Ajar(q) \in files[l] /\ ~ (q = t /\ ~ Db!Alone(t, l))
  <2> HIDE DEF H
  <2>1. CASE Db!Alone(t, l)
    BY <1>5, <2>1 DEF Shut, Ajar
  <2>2. CASE ~ Db!Alone(t, l)
    BY <1>5, <2>2 DEF Shut, Ajar
  <2> QED
    BY <2>1, <2>2
<1>11. files'[l] = F /\ F \subseteq files[l]
  BY <1>1, <1>2
<1>12. (\A q \in Process : q # t) /\ F \in SUBSET
              [who : Process \cup Thread, alone : BOOLEAN]
  BY <1>2
<1> HIDE DEF F, H
<1>13. HandleInv(l)'
  <2>1. \A q \in Process :
           /\ Shut(q) \in files'[l] <=> Owners(q, l)' # {}
           /\ Ajar(q) \in files'[l] <=> Sharers(q, l)' # {}
    BY <1>2, <1>8, <1>10, <1>11, <1>12 DEF HandleInv
  <2>2. \A u \in Thread :
           /\ Shut(u) \in files'[l] <=> (Going(u, l) /\ Db!Alone(u, l))'
           /\ Ajar(u) \in files'[l] <=> (Going(u, l) /\ ~ Db!Alone(u, l))'
    BY <1>2, <1>9, <1>10, <1>11 DEF HandleInv
  <2>3. \A h, g \in files'[l] : h.alone => h = g
    BY <1>2, <1>11 DEF HandleInv
  <2> QED
    BY <2>1, <2>2, <2>3 DEF HandleInv, Shut, Ajar
<1>14. /\ barrier' = [barrier EXCEPT ![p][l] = s]
       /\ s \in [shared : Nat, owner : SUBSET Thread, inside : SUBSET Thread]
  <2>1. /\ barrier' = barrier /\ p \in Process
        /\ barrier \in [Process -> [Db!Lock -> [shared : Nat,
              owner : SUBSET Thread, inside : SUBSET Thread]]]
    BY <1>1, <1>2
  <2>2. barrier[p] \in [Db!Lock -> [shared : Nat, owner : SUBSET Thread,
                                    inside : SUBSET Thread]]
    BY <2>1
  <2>3. barrier = [barrier EXCEPT ![p][l] = s]
    BY <2>1, <2>2
  <2> QED
    BY <2>1, <2>2, <2>3
<1> HIDE DEF s
<1> QED
  BY <1>1, <1>4, <1>7, <1>12, <1>13, <1>14, LockStep DEF Db!fileVars

\* A process that dies leaves nothing of its threads in any lock.
LEMMA DbDieStep ==
    ASSUME Db!DatabaseAssumption, DbInv, NEW p \in Process, Db!Die(p)
    PROVE  DbInv'
<1>1. /\ at \in [Thread -> ThreadRec] /\ Db!Idle \in ThreadRec
      /\ \A t \in Thread : at'[t] = IF Home[t] = p THEN Db!Idle ELSE at[t]
      /\ at' \in [Thread -> ThreadRec]
  <2>1. Db!Idle \in ThreadRec
    BY DEF Db!Idle, ThreadRec, Db!DatabaseAssumption
  <2> QED
    BY <2>1 DEF Db!Die, DbInv, DbStores
<1>2. /\ databaseFaults' \in 0..MaxDatabaseFaults
      /\ UNCHANGED <<db, backup, versions>>
      /\ \A l \in Db!Lock : /\ barrier'[p][l] = Db!Down
                            /\ \A q \in Process \ {p} :
                                  barrier'[q][l] = barrier[q][l]
      /\ \A l \in Db!Lock : files'[l] =
            {h \in files[l] : h.who # p
                /\ ~ \E t \in Thread : Home[t] = p /\ h.who = t}
  <2>1. databaseFaults' \in 0..MaxDatabaseFaults
    BY DEF Db!Die, Db!Fault, DbInv, DbStores, Db!DatabaseAssumption
  <2> QED
    BY <2>1 DEF Db!Die, Db!fileVars, DbInv, DbStores
<1>3. DbStores'
  <2>1. barrier' \in [Process -> [Db!Lock ->
         [shared : Nat, owner : SUBSET Thread, inside : SUBSET Thread]]]
    <3>1. Db!Down \in [shared : Nat, owner : SUBSET Thread,
                      inside : SUBSET Thread]
      BY DEF Db!Down, Db!Nobody
    <3> QED
      BY <3>1 DEF Db!Die, DbInv, DbStores
  <2>2. files' \in [Db!Lock -> SUBSET [who : Process \cup Thread,
                                      alone : BOOLEAN]]
    BY DEF Db!Die, DbInv, DbStores
  <2> QED
    BY <1>1, <1>2, <2>1, <2>2 DEF DbInv, DbStores
<1>4. ASSUME NEW t \in Thread, Home[t] = p, NEW l \in Db!Lock
      PROVE  ~ Has(t, l)' /\ ~ Coming(t, l)' /\ ~ Going(t, l)' /\ Placed(t)'
  <2>1. at'[t] = Db!Idle
    BY <1>1, <1>4
  <2> QED
    BY <2>1 DEF Db!Idle, Has, Entered, Coming, Going, Placed
<1>5. ASSUME NEW t \in Thread, Home[t] # p
      PROVE  Placed(t)' /\ \A l \in Db!Lock : SameView(t, l)
  <2>1. at'[t] = at[t]
    BY <1>1, <1>5
  <2>2. Placed(t)'
    BY <1>2, <2>1 DEF DbInv, Placed
  <2>3. \A l \in Db!Lock : SameView(t, l)
    BY <2>1 DEF SameView, Has, Entered, Coming, Going, Db!Wanted, Db!Top,
         Db!Alone
  <2> QED
    BY <2>2, <2>3
<1>6. CommitsSeen'
  BY <1>1, <1>2 DEF DbInv, CommitsSeen, Db!Idle
<1>7. ASSUME NEW l \in Db!Lock
      PROVE  /\ Owners(p, l)' = {} /\ Sharers(p, l)' = {}
             /\ Comers(p, l)' = {}
  BY <1>4 DEF Owners, Sharers, Comers
<1>8. ASSUME NEW l \in Db!Lock, NEW q \in Process \ {p}
      PROVE  /\ Owners(q, l)' = Owners(q, l) /\ Sharers(q, l)' = Sharers(q, l)
             /\ Comers(q, l)' = Comers(q, l)
  BY <1>5 DEF Owners, Sharers, Comers, SameView
<1>9. ASSUME NEW q \in Process, NEW l \in Db!Lock PROVE BarrierInv(q, l)'
  <2>1. CASE q = p
    BY <1>2, <1>7, <2>1, NoneEmpty DEF BarrierInv, Db!Down, Db!Nobody
  <2>2. CASE q # p
    <3>1. BarrierInv(q, l)
      BY DEF DbInv
    <3>2. barrier'[q][l] = barrier[q][l]
      BY <1>2, <2>2
    <3>3. /\ Owners(q, l)' = Owners(q, l) /\ Sharers(q, l)' = Sharers(q, l)
          /\ Comers(q, l)' = Comers(q, l)
      BY <1>8, <2>2
    <3> QED
      BY <3>1, <3>2, <3>3 DEF BarrierInv
  <2> QED
    BY <2>1, <2>2
<1>10. ASSUME NEW l \in Db!Lock PROVE HandleInv(l)'
  <2>1. HandleInv(l) /\ Thread \cap Process = {}
    BY DEF DbInv, Db!DatabaseAssumption
  <2>2. \A who : /\ Shut(who) \in files'[l] <=>
                      /\ Shut(who) \in files[l] /\ who # p
                      /\ ~ \E t \in Thread : Home[t] = p /\ who = t
                 /\ Ajar(who) \in files'[l] <=>
                      /\ Ajar(who) \in files[l] /\ who # p
                      /\ ~ \E t \in Thread : Home[t] = p /\ who = t
    BY <1>2 DEF Shut, Ajar
  <2>3. \A q \in Process :
           /\ Shut(q) \in files'[l] <=> Owners(q, l)' # {}
           /\ Ajar(q) \in files'[l] <=> Sharers(q, l)' # {}
    <3>1. \A q \in Process : ~ \E t \in Thread : Home[t] = p /\ q = t
      BY <2>1
    <3> QED
      BY <1>7, <1>8, <2>1, <2>2, <3>1 DEF HandleInv
  <2>4. \A t \in Thread :
           /\ (Going(t, l) /\ Db!Alone(t, l))'
                 <=> Going(t, l) /\ Db!Alone(t, l) /\ Home[t] # p
           /\ (Going(t, l) /\ ~ Db!Alone(t, l))'
                 <=> Going(t, l) /\ ~ Db!Alone(t, l) /\ Home[t] # p
    BY <1>4, <1>5 DEF SameView
  <2>5. \A t \in Thread :
           /\ Shut(t) \in files'[l] <=> (Going(t, l) /\ Db!Alone(t, l))'
           /\ Ajar(t) \in files'[l] <=> (Going(t, l) /\ ~ Db!Alone(t, l))'
    BY <2>1, <2>2, <2>4 DEF HandleInv
  <2>6. \A h, g \in files'[l] : h.alone => h = g
    BY <1>2, <2>1 DEF HandleInv
  <2> QED
    BY <2>3, <2>5, <2>6 DEF HandleInv, Shut, Ajar
<1> QED
  BY <1>3, <1>4, <1>5, <1>6, <1>9, <1>10 DEF DbInv, Db!Lock

LEMMA DbSteps ==
    ASSUME Db!DatabaseAssumption, DbInv, Db!Next
    PROVE  DbInv'
<1>1. ASSUME NEW t \in Thread, Db!Step(t) PROVE DbInv'
  BY <1>1, DbEnterStep, DbAcquireStep, DbGiveUpStep, DbOperateStep,
     DbLeaveStep, DbReleaseStep
     DEF Db!Step
<1>2. ASSUME NEW t \in Thread, NEW kind \in Db!Kinds, Db!Call(t, kind)
      PROVE DbInv'
  BY <1>2, DbCallStep
<1>3. ASSUME NEW p \in Process, Db!Die(p) PROVE DbInv'
  BY <1>3, DbDieStep
<1> QED
  BY <1>1, <1>2, <1>3 DEF Db!Next

LEMMA DbRests ==
    ASSUME DbInv, UNCHANGED databaseVars
    PROVE  DbInv'
<1>1. UNCHANGED <<at, barrier, files, db, backup, versions, databaseFaults>>
  BY DEF databaseVars
<1>2. DbStores' /\ CommitsSeen'
  BY <1>1 DEF DbInv, DbStores, CommitsSeen
<1>3. \A t \in Thread : Placed(t)' /\ \A l \in Db!Lock : SameView(t, l)
  BY <1>1 DEF DbInv, Placed, SameView, Has, Entered, Coming, Going,
              Db!Wanted, Db!Top, Db!Alone
<1>4. \A p \in Process, l \in Db!Lock : BarrierInv(p, l)'
  BY <1>1, <1>3, BarrierKept DEF DbInv
<1>5. \A l \in Db!Lock : HandleInv(l)'
  BY <1>1, <1>3, HandleKept DEF DbInv
<1> QED
  BY <1>2, <1>3, <1>4, <1>5 DEF DbInv

LEMMA DbShared ==
    ASSUME Db!DatabaseAssumption, DbInv
    PROVE  Db!DatabaseIsShared
<1>1. CommitsSeen
  BY DEF DbInv
<1>2. ASSUME NEW t \in Thread, NEW u \in Thread, Db!Inside(t), Db!Inside(u),
             t # u
      PROVE  at[t].kind \notin {"init", "restore"}
  <2>1. Has(t, "operation") /\ Has(u, "operation") /\ "operation" \in Db!Lock
    BY <1>2, HasLocks DEF Db!Inside, Db!Lock
  <2> QED
    BY <1>2, <2>1, Exclusion DEF Db!Alone, Db!Exclusive
<1>3. ASSUME NEW p \in Process,
             \A t \in Thread : Home[t] = p => at[t].step = "idle"
      PROVE  /\ barrier[p] = [l \in Db!Lock |-> Db!Down]
             /\ \A l \in Db!Lock : \A h \in files[l] :
                   h.who # p /\ \A t \in Thread : Home[t] = p => h.who # t
  <2>1. ASSUME NEW l \in Db!Lock, NEW t \in Thread, Home[t] = p
        PROVE  ~ Has(t, l) /\ ~ Coming(t, l) /\ ~ Going(t, l)
    <3>1. at[t] = Db!Idle
      BY <1>3, <2>1 DEF DbInv, Placed
    <3> QED
      BY <3>1, IdleView
  <2>2. ASSUME NEW l \in Db!Lock
        PROVE  Owners(p, l) = {} /\ Sharers(p, l) = {} /\ Comers(p, l) = {}
    BY <2>1 DEF Owners, Sharers, Comers
  <2>3. barrier[p] = [l \in Db!Lock |-> Db!Down]
    <3>1. \A l \in Db!Lock : barrier[p][l] = Db!Down
      BY <2>2, NoneEmpty DEF DbInv, BarrierInv, Db!Down, Db!Nobody
    <3>2. barrier[p] \in [Db!Lock -> [shared : Nat, owner : SUBSET Thread,
                                     inside : SUBSET Thread]]
      BY DEF DbInv, DbStores
    <3> QED
      BY <3>1, <3>2
  <2>4. ASSUME NEW l \in Db!Lock, NEW h \in files[l]
        PROVE  h.who # p /\ \A t \in Thread : Home[t] = p => h.who # t
    <3>1. h = Shut(h.who) \/ h = Ajar(h.who)
      <4>1. h \in [who : Process \cup Thread, alone : BOOLEAN]
        BY DEF DbInv, DbStores
      <4> QED
        BY <4>1 DEF Shut, Ajar
    <3>2. HandleInv(l)
      BY DEF DbInv
    <3>3. Shut(p) \notin files[l] /\ Ajar(p) \notin files[l]
      BY <2>2, <3>2 DEF HandleInv
    <3>4. \A t \in Thread : Home[t] = p =>
             Shut(t) \notin files[l] /\ Ajar(t) \notin files[l]
      BY <2>1, <3>2 DEF HandleInv
    <3> QED
      BY <3>1, <3>3, <3>4
  <2> QED
    BY <2>3, <2>4
<1> QED
  BY <1>1, <1>2, <1>3 DEF Db!DatabaseIsShared, CommitsSeen

LEMMA DbTypes ==
    ASSUME Db!DatabaseAssumption, DbInv
    PROVE  Db!TypeOK
<1>1. ASSUME NEW p \in Process, NEW l \in Db!Lock
      PROVE  barrier[p][l] \in [shared : 0..Cardinality(Thread),
                                owner : SUBSET Thread, inside : SUBSET Thread]
  <2>1. Sharers(p, l) \subseteq Thread /\ IsFiniteSet(Thread)
    BY DEF Sharers, Db!DatabaseAssumption, Db!IsFiniteSet, IsFiniteSet
  <2>2. Cardinality(Sharers(p, l)) <= Cardinality(Thread)
    BY <2>1, FS_Subset
  <2>3. Cardinality(Sharers(p, l)) \in Nat /\ Cardinality(Thread) \in Nat
    BY <2>1, FiniteSharers, FS_CardinalityType
  <2>4. barrier[p][l].shared = Cardinality(Sharers(p, l))
    <3>1. BarrierInv(p, l)
      BY DEF DbInv
    <3> QED
      BY <3>1 DEF BarrierInv
  <2>5. barrier[p][l] \in [shared : Nat, owner : SUBSET Thread,
                           inside : SUBSET Thread]
    BY DEF DbInv, DbStores
  <2>6. barrier[p][l].shared \in 0..Cardinality(Thread)
    BY <2>2, <2>3, <2>4
  <2> QED
    BY <2>5, <2>6
<1>2. barrier \in [Process -> [Db!Lock ->
         [shared : 0..Cardinality(Thread), owner : SUBSET Thread,
          inside : SUBSET Thread]]]
  BY <1>1 DEF DbInv, DbStores
<1>3. at \in [Thread ->
         [kind : Db!Kinds \cup {"none"}, held : 0..2, seen : Nat, copy : Nat,
          step : {"idle", "enter", "file", "work", "reading", "preimage",
                  "commit", "leave", "release"}]]
  BY DEF DbInv, DbStores, ThreadRec, Db!DatabaseAssumption
<1>4. /\ files \in [Db!Lock -> SUBSET [who : Process \cup Thread,
                                      alone : BOOLEAN]]
      /\ db \in 1..MaxCommits /\ backup \in 0..MaxCommits
      /\ versions \in 1..MaxCommits /\ databaseFaults \in 0..MaxDatabaseFaults
  BY DEF DbInv, DbStores
<1>5. Db!Cardinality(Thread) = Cardinality(Thread)
  BY DEF Db!Cardinality, Cardinality
<1> QED
  BY <1>2, <1>3, <1>4, <1>5 DEF Db!TypeOK

-----------------------------------------------------------------------------
(* SurfaceEvents: the identities of what users type                         *)

Preparing == {c \in Client : typing[c].step = "prepare"}

SeStores ==
    /\ outbox \in [Texts -> 0 .. MaxTurns] /\ fresh \in 0 .. MaxTurns
    /\ receipt \in [Se!Ids -> Se!Row \cup {NoRow}] /\ past \subseteq Se!Ids
    /\ sent \in [Se!Ids -> 0 .. 1]
    /\ typing \in [Client -> [step : {"idle", "prepare", "receive", "send",
                                      "acknowledge"},
                              text : Texts, dir : Dirs, id : 0 .. MaxTurns]]
    /\ acked \in [Texts -> Nat]
    /\ turns \in 0 .. MaxTurns /\ surfaceFaults \in 0 .. MaxSurfaceFaults

Answered(r) == /\ r.state \in {"received", "handled"} => r.answer = NoAnswer
               /\ r.state = "responded" => r.answer # NoAnswer

\* Every identity was handed out for a turn that is past its preparation.
HandedOut ==
    /\ IsFiniteSet(Preparing) /\ fresh + Cardinality(Preparing) <= turns
    /\ \A t \in Texts : outbox[t] <= fresh
    /\ \A i \in Se!Ids : receipt[i] # NoRow
          => i <= fresh /\ Answered(receipt[i])
    /\ \A i \in Se!Ids : sent[i] # 0 => receipt[i] # NoRow
    /\ \A i \in past : receipt[i] # NoRow

\* A client goes on with an identity that is pending or was recorded before.
Following(c) ==
    LET a == typing[c] IN
    /\ a.step \in {"receive", "send", "acknowledge"} =>
         /\ a.id \in 1 .. fresh
         /\ outbox[a.text] = a.id \/ sent[a.id] # 0
    /\ a.step \in {"send", "acknowledge"} =>
         receipt[a.id] # NoRow /\ receipt[a.id].text = a.text
    /\ a.step = "acknowledge" => sent[a.id] # 0

\* What is recorded and no longer pending was acknowledged.
Settled(t) == /\ IsFiniteSet(Se!Recorded(t) \ {outbox[t]})
              /\ acked[t] = Cardinality(Se!Recorded(t) \ {outbox[t]})

SurfaceInv == /\ SeStores /\ HandedOut /\ \A c \in Client : Following(c)
              /\ \A t \in Texts : Settled(t)

TurnRec == [step : {"idle", "prepare", "receive", "send", "acknowledge"},
            text : Texts, dir : Dirs, id : 0 .. MaxTurns]

LEMMA IdleIsTurn ==
    ASSUME Se!SurfaceAssumption
    PROVE  Se!Idle \in TurnRec /\ Se!Idle.step = "idle"
<1>1. (CHOOSE t \in Texts : TRUE) \in Texts
        /\ (CHOOSE d \in Dirs : TRUE) \in Dirs
  BY DEF Se!SurfaceAssumption
<1> QED
  BY <1>1 DEF Se!Idle, TurnRec, Se!SurfaceAssumption

LEMMA SurfaceInit == ASSUME Se!SurfaceAssumption, Se!Init PROVE SurfaceInv
<1>1. \A c \in Client : typing[c] = Se!Idle /\ Se!Idle.step = "idle"
  BY IdleIsTurn DEF Se!Init
<1>2. Preparing = {}
  BY <1>1 DEF Preparing
<1>3. \A t \in Texts : Se!Recorded(t) \ {outbox[t]} = {}
  BY DEF Se!Init, Se!Recorded
<1>4. SeStores
  BY IdleIsTurn DEF Se!Init, SeStores, Se!SurfaceAssumption, TurnRec
<1>5. HandedOut
  <2>1. IsFiniteSet(Preparing) /\ Cardinality(Preparing) = 0
    BY <1>2, FS_EmptySet
  <2> QED
    BY <2>1 DEF Se!Init, HandedOut, Se!Ids
<1>6. \A t \in Texts : Settled(t)
  <2>1. IsFiniteSet({}) /\ Cardinality({}) = 0
    BY FS_EmptySet
  <2> QED
    BY <1>3, <2>1 DEF Se!Init, Settled
<1>7. \A c \in Client : Following(c)
  BY <1>1 DEF Following
<1> QED
  BY <1>4, <1>5, <1>6, <1>7 DEF SurfaceInv

\* One client goes to another place of its turn, not to its preparation.
LEMMA PreparingMoves ==
    ASSUME SurfaceInv, NEW c \in Client, NEW r \in TurnRec,
           typing' = [typing EXCEPT ![c] = r], r.step # "prepare"
    PROVE  /\ IsFiniteSet(Preparing') /\ Cardinality(Preparing') \in Nat
           /\ Cardinality(Preparing')
                = Cardinality(Preparing)
                     - (IF typing[c].step = "prepare" THEN 1 ELSE 0)
<1>1. typing \in [Client -> TurnRec]
  BY DEF SurfaceInv, SeStores, TurnRec
<1>2. Preparing' = Preparing \ {c}
  BY <1>1 DEF Preparing
<1>3. IsFiniteSet(Preparing) /\ Cardinality(Preparing) \in Nat
  BY FS_CardinalityType DEF SurfaceInv, HandedOut
<1>4. CASE typing[c].step = "prepare"
  <2>1. c \in Preparing
    BY <1>4 DEF Preparing
  <2> QED
    BY <1>2, <1>3, <1>4, <2>1, FS_RemoveElement, FS_CardinalityType
<1>5. CASE typing[c].step # "prepare"
  <2>1. Preparing' = Preparing
    BY <1>2, <1>5 DEF Preparing
  <2> QED
    BY <1>3, <1>5, <2>1
<1> QED
  BY <1>4, <1>5

\* What the other clients follow stays, if nothing is taken from them.
LEMMA OthersFollow ==
    ASSUME SurfaceInv, NEW c \in Client, NEW r \in TurnRec,
           typing' = [typing EXCEPT ![c] = r],
           fresh \in Nat, fresh' \in Nat, fresh <= fresh',
           \A i \in Se!Ids : sent[i] # 0 => sent'[i] # 0,
           \A i \in Se!Ids : receipt[i] # NoRow =>
               receipt'[i] # NoRow /\ receipt'[i].text = receipt[i].text,
           \A d \in Client \ {c} :
               \/ outbox'[typing[d].text] = outbox[typing[d].text]
               \/ outbox[typing[d].text] = 0
               \/ sent'[outbox[typing[d].text]] # 0,
           Following(c)'
    PROVE  \A d \in Client : Following(d)'
<1> SUFFICES ASSUME NEW d \in Client \ {c} PROVE Following(d)'
  OBVIOUS
<1>1. typing'[d] = typing[d] /\ typing[d] \in TurnRec
  BY DEF SurfaceInv, SeStores, TurnRec
<1>2. Following(d) /\ typing[d].text \in Texts
  BY <1>1 DEF SurfaceInv, TurnRec
<1>3. typing[d].id \in 1 .. fresh
        => typing[d].id \in Se!Ids /\ typing[d].id # 0
  BY DEF SurfaceInv, SeStores, Se!Ids
<1>4. typing[d].id \in 1 .. fresh => typing[d].id \in 1 .. fresh'
  BY <1>1 DEF TurnRec
<1> QED
  BY <1>1, <1>2, <1>3, <1>4 DEF Following

LEMMA RecordedKept ==
    ASSUME SurfaceInv, sent' = sent,
           \A i \in Se!Ids : receipt[i] # NoRow =>
               receipt'[i] # NoRow /\ receipt'[i].text = receipt[i].text
    PROVE  \A t : Se!Recorded(t)' = Se!Recorded(t)
BY DEF Se!Recorded, SurfaceInv, HandedOut

\* Rows keep what they bind, the outbox and the records stay.
LEMMA RowsMove ==
    ASSUME Se!SurfaceAssumption, SurfaceInv,
           receipt' \in [Se!Ids -> Se!Row \cup {NoRow}],
           past' \subseteq Se!Ids,
           \A i \in Se!Ids : receipt[i] # NoRow =>
               receipt'[i] # NoRow /\ receipt'[i].text = receipt[i].text,
           \A i \in Se!Ids : receipt'[i] # NoRow
               => i <= fresh /\ Answered(receipt'[i]),
           \A i \in past' : receipt'[i] # NoRow,
           UNCHANGED <<outbox, fresh, sent, acked, turns>>,
           surfaceFaults' \in 0 .. MaxSurfaceFaults,
           NEW c \in Client, NEW r \in TurnRec,
           typing' = [typing EXCEPT ![c] = r], r.step # "prepare",
           Following(c)'
    PROVE  SurfaceInv'
<1>1. SeStores'
  BY DEF SurfaceInv, SeStores, TurnRec
<1>2. HandedOut'
  <2>1. /\ IsFiniteSet(Preparing)' /\ Cardinality(Preparing)' \in Nat
        /\ Cardinality(Preparing)' <= Cardinality(Preparing)
    <3>1. Cardinality(Preparing) \in Nat
      BY FS_CardinalityType DEF SurfaceInv, HandedOut
    <3>2. /\ IsFiniteSet(Preparing') /\ Cardinality(Preparing') \in Nat
          /\ Cardinality(Preparing')
                = Cardinality(Preparing)
                     - (IF typing[c].step = "prepare" THEN 1 ELSE 0)
      BY PreparingMoves
    <3> QED
      BY <3>1, <3>2
  <2>2. IsFiniteSet(Preparing)' /\ fresh' + Cardinality(Preparing)' <= turns'
    <3>1. /\ fresh + Cardinality(Preparing) <= turns
          /\ fresh \in Nat /\ turns \in Nat
          /\ Cardinality(Preparing) \in Nat
      BY FS_CardinalityType DEF SurfaceInv, HandedOut, SeStores
    <3> QED
      BY <2>1, <3>1
  <2> QED
    BY <2>2 DEF SurfaceInv, HandedOut
<1>3. \A d \in Client : Following(d)'
  <2>1. fresh \in Nat /\ fresh' \in Nat /\ fresh <= fresh'
    BY DEF SurfaceInv, SeStores
  <2>2. /\ \A i \in Se!Ids : sent[i] # 0 => sent'[i] # 0
        /\ \A d \in Client \ {c} :
              outbox'[typing[d].text] = outbox[typing[d].text]
    OBVIOUS
  <2> QED
    BY <2>1, <2>2, OthersFollow
<1>4. \A t \in Texts : Settled(t)'
  <2>1. \A t \in Texts : Se!Recorded(t)' = Se!Recorded(t)
    BY RecordedKept
  <2> QED
    BY <2>1 DEF SurfaceInv, Settled
<1> QED
  BY <1>1, <1>2, <1>3, <1>4 DEF SurfaceInv

LEMMA TurnsAreTyped ==
    ASSUME Se!SurfaceAssumption, SurfaceInv, NEW c \in Client
    PROVE  /\ typing \in [Client -> TurnRec] /\ typing[c] \in TurnRec
           /\ fresh \in Nat /\ fresh <= MaxTurns /\ MaxTurns \in Nat
BY DEF SurfaceInv, SeStores, TurnRec, Se!SurfaceAssumption

LEMMA GoesTo ==
    ASSUME Se!SurfaceAssumption, SurfaceInv, NEW c \in Client,
           NEW step \in {"idle", "send", "receive", "acknowledge"},
           Se!GoTo(c, step)
    PROVE  \E r \in TurnRec :
              /\ typing' = [typing EXCEPT ![c] = r] /\ typing'[c] = r
              /\ r.step = step /\ r.id = typing[c].id
              /\ r.text = typing[c].text
<1> DEFINE r == [typing[c] EXCEPT !.step = step]
<1>1. typing \in [Client -> TurnRec] /\ typing[c] \in TurnRec
  BY TurnsAreTyped
<1>2. /\ r \in TurnRec /\ r.step = step /\ r.id = typing[c].id
      /\ r.text = typing[c].text
  BY <1>1 DEF TurnRec
<1>3. typing' = [typing EXCEPT ![c] = r]
  BY <1>1 DEF Se!GoTo
<1> HIDE DEF r
<1> QED
  BY <1>1, <1>2, <1>3

LEMMA SurfaceTypeStep ==
    ASSUME Se!SurfaceAssumption, SurfaceInv, NEW c \in Client,
           NEW text \in Texts,
           NEW dir \in Dirs, Se!Type(c, text, dir)
    PROVE  SurfaceInv'
<1> DEFINE r == [step |-> "prepare", text |-> text, dir |-> dir, id |-> 0]
<1>1. /\ typing' = [typing EXCEPT ![c] = r] /\ turns' = turns + 1
      /\ turns < MaxTurns /\ typing[c].step = "idle"
      /\ UNCHANGED <<outbox, fresh, receipt, past, sent, acked, surfaceFaults>>
  BY DEF Se!Type, Se!At, Se!Local, Se!Server
<1>2. r \in TurnRec /\ r.step = "prepare"
  BY DEF TurnRec, Se!SurfaceAssumption
<1> HIDE DEF r
<1>3. SeStores'
  BY <1>1, <1>2 DEF SurfaceInv, SeStores, TurnRec, Se!SurfaceAssumption
<1>4. HandedOut'
  <2>1. typing \in [Client -> TurnRec]
    BY TurnsAreTyped
  <2>2. Preparing' = Preparing \cup {c} /\ c \notin Preparing
    BY <1>1, <1>2, <2>1 DEF Preparing
  <2>3. IsFiniteSet(Preparing) /\ Cardinality(Preparing) \in Nat
    BY FS_CardinalityType DEF SurfaceInv, HandedOut
  <2>4. IsFiniteSet(Preparing')
        /\ Cardinality(Preparing') = Cardinality(Preparing) + 1
    BY <2>2, <2>3, FS_AddElement
  <2>5. fresh + Cardinality(Preparing) <= turns
        /\ fresh \in Nat /\ turns \in Nat
    BY DEF SurfaceInv, HandedOut, SeStores
  <2>6. IsFiniteSet(Preparing)' /\ fresh' + Cardinality(Preparing)' <= turns'
    BY <1>1, <2>3, <2>4, <2>5
  <2> QED
    BY <1>1, <2>6 DEF SurfaceInv, HandedOut
<1>5. Following(c)'
  <2>1. typing'[c] = r
    BY <1>1, TurnsAreTyped
  <2> QED
    BY <1>2, <2>1 DEF Following
<1>6. \A d \in Client : Following(d)'
  <2>1. fresh \in Nat /\ fresh' \in Nat /\ fresh <= fresh'
    BY <1>1 DEF SurfaceInv, SeStores
  <2>2. /\ \A i \in Se!Ids : sent[i] # 0 => sent'[i] # 0
        /\ \A i \in Se!Ids : receipt[i] # NoRow =>
               receipt'[i] # NoRow /\ receipt'[i].text = receipt[i].text
        /\ \A d \in Client \ {c} :
              outbox'[typing[d].text] = outbox[typing[d].text]
    BY <1>1
  <2> QED
    BY <1>1, <1>2, <1>5, <2>1, <2>2, OthersFollow
<1>7. \A t \in Texts : Settled(t)'
  <2>1. \A t \in Texts : Se!Recorded(t)' = Se!Recorded(t)
    BY <1>1, RecordedKept
  <2> QED
    BY <1>1, <2>1 DEF SurfaceInv, Settled
<1> QED
  BY <1>3, <1>4, <1>6, <1>7 DEF SurfaceInv

\* Under which identity a client goes on.
LEMMA IdentityIsChosen ==
    ASSUME Se!SurfaceAssumption, SurfaceInv, NEW c \in Client, Se!Prepare(c)
    PROVE  \E id \in Se!Ids :
              /\ typing' = [typing EXCEPT ![c] = [typing[c] EXCEPT !.id = id,
                                                     !.step = "receive"]]
              /\ outbox' = [outbox EXCEPT ![typing[c].text] = id]
              /\ \/ outbox[typing[c].text] = id /\ fresh' = fresh
                       /\ id <= fresh
                 \/ /\ outbox[typing[c].text] = 0
                    /\ id = fresh + 1 /\ fresh' = id
<1> DEFINE text == typing[c].text
           id == IF outbox[text] # 0 THEN outbox[text] ELSE fresh + 1
<1>1. /\ typing[c].step = "prepare" /\ outbox' = [outbox EXCEPT ![text] = id]
      /\ fresh' = IF outbox[text] # 0 THEN fresh ELSE id
      /\ typing' = [typing EXCEPT ![c].id = id, ![c].step = "receive"]
  BY DEF Se!Prepare, Se!At
<1>2. typing[c] \in TurnRec /\ fresh \in Nat /\ MaxTurns \in Nat
      /\ typing \in [Client -> TurnRec]
  BY TurnsAreTyped
<1>3. text \in Texts /\ outbox[text] \in 0 .. MaxTurns /\ outbox[text] <= fresh
  BY <1>2 DEF TurnRec, SurfaceInv, SeStores, HandedOut
<1>4. fresh + 1 \in Se!Ids
  <2>1. c \in Preparing /\ IsFiniteSet(Preparing)
    BY <1>1 DEF Preparing, SurfaceInv, HandedOut
  <2>2. Cardinality(Preparing) \in Nat /\ Cardinality(Preparing) # 0
    BY <2>1, FS_CardinalityType, FS_EmptySet
  <2>3. fresh + Cardinality(Preparing) <= turns /\ turns \in 0 .. MaxTurns
    BY DEF SurfaceInv, HandedOut, SeStores
  <2> QED
    BY <1>2, <2>2, <2>3 DEF Se!Ids
<1>5. id \in Se!Ids
  BY <1>2, <1>3, <1>4 DEF Se!Ids
<1>6. typing' = [typing EXCEPT ![c] = [typing[c] EXCEPT !.id = id,
                                               !.step = "receive"]]
  BY <1>1, <1>2
<1>7. \/ outbox[text] = id /\ fresh' = fresh /\ id <= fresh
      \/ outbox[text] = 0 /\ id = fresh + 1 /\ fresh' = id
  BY <1>1, <1>3
<1> HIDE DEF id
<1> QED
  BY <1>1, <1>5, <1>6, <1>7

LEMMA SurfacePrepareStep ==
    ASSUME Se!SurfaceAssumption, SurfaceInv, NEW c \in Client, Se!Prepare(c)
    PROVE  SurfaceInv'
<1> DEFINE text == typing[c].text
<1>1. /\ typing[c].step = "prepare"
      /\ UNCHANGED <<receipt, past, sent, acked, turns, surfaceFaults>>
  BY DEF Se!Prepare, Se!At, Se!Server
<1>2. PICK id \in Se!Ids :
         /\ typing' = [typing EXCEPT ![c] = [typing[c] EXCEPT !.id = id,
                                                !.step = "receive"]]
         /\ outbox' = [outbox EXCEPT ![text] = id]
         /\ \/ outbox[text] = id /\ fresh' = fresh /\ id <= fresh
            \/ outbox[text] = 0 /\ id = fresh + 1 /\ fresh' = id
  BY IdentityIsChosen
<1> DEFINE r == [typing[c] EXCEPT !.id = id, !.step = "receive"]
<1>3. /\ typing[c] \in TurnRec /\ fresh \in Nat /\ MaxTurns \in Nat
      /\ typing \in [Client -> TurnRec] /\ text \in Texts
      /\ outbox \in [Texts -> 0 .. MaxTurns]
      /\ id \in 1 .. MaxTurns /\ fresh <= MaxTurns
  BY TurnsAreTyped DEF TurnRec, SurfaceInv, SeStores, Se!Ids
<1>4. /\ r \in TurnRec /\ r.step = "receive" /\ r.id = id
      /\ r.text = text
  <2>1. id \in 0 .. MaxTurns
    BY <1>3
  <2> QED
    BY <1>3, <2>1 DEF TurnRec
<1> HIDE DEF r, text
<1>5. /\ typing'[c] = r /\ outbox'[text] = id
      /\ \A t \in Texts \ {text} : outbox'[t] = outbox[t]
  BY <1>2, <1>3 DEF r
<1>6. fresh' \in Nat /\ fresh <= fresh' /\ fresh' <= MaxTurns
      /\ id <= fresh' /\ fresh' <= fresh + 1
  BY <1>2, <1>3
<1>7. SeStores'
  <2>1. typing' \in [Client -> TurnRec]
    BY <1>2, <1>3, <1>4 DEF r
  <2>2. outbox' \in [Texts -> 0 .. MaxTurns] /\ fresh' \in 0 .. MaxTurns
    BY <1>2, <1>3, <1>6
  <2> QED
    BY <1>1, <2>1, <2>2 DEF SurfaceInv, SeStores, TurnRec
<1>8. HandedOut'
  <2>1. /\ IsFiniteSet(Preparing)' /\ Cardinality(Preparing)' \in Nat
        /\ Cardinality(Preparing)' = Cardinality(Preparing) - 1
    BY <1>1, <1>2, <1>4, PreparingMoves DEF r
  <2>2. fresh + Cardinality(Preparing) <= turns /\ turns \in Nat
        /\ Cardinality(Preparing) \in Nat
    BY FS_CardinalityType DEF SurfaceInv, HandedOut, SeStores
  <2>3. fresh' + Cardinality(Preparing)' <= turns'
    BY <1>1, <1>3, <1>6, <2>1, <2>2
  <2>4. \A t \in Texts : outbox'[t] <= fresh'
    BY <1>3, <1>5, <1>6 DEF SurfaceInv, HandedOut
  <2>5. \A i \in Se!Ids : receipt'[i] # NoRow
          => i <= fresh' /\ Answered(receipt'[i])
    BY <1>1, <1>3, <1>6 DEF SurfaceInv, HandedOut, Se!Ids
  <2> QED
    BY <1>1, <2>1, <2>3, <2>4, <2>5 DEF SurfaceInv, HandedOut, Answered
<1>9. \A d \in Client : Following(d)'
  <2>1. Following(c)'
    BY <1>3, <1>4, <1>5, <1>6 DEF Following
  <2>2. \A d \in Client \ {c} :
           \/ outbox'[typing[d].text] = outbox[typing[d].text]
           \/ outbox[typing[d].text] = 0
    <3>1. \A d \in Client : typing[d].text \in Texts
      BY <1>3 DEF TurnRec
    <3> QED
      BY <1>2, <1>5, <3>1
  <2>3. typing' = [typing EXCEPT ![c] = r]
    BY <1>2 DEF r
  <2> QED
    BY <1>1, <1>3, <1>4, <1>6, <2>1, <2>2, <2>3, OthersFollow
<1>10. \A t \in Texts : Settled(t)'
  <2>1. \A t \in Texts : Se!Recorded(t)' = Se!Recorded(t)
    BY <1>1, RecordedKept
  <2>2. Se!Recorded(text) \ {id} = Se!Recorded(text) \ {outbox[text]}
    <3>1. CASE outbox[text] = id
      BY <3>1
    <3>2. CASE outbox[text] = 0 /\ id = fresh + 1
      <4>1. \A i \in Se!Recorded(text) : i \in 1 .. MaxTurns /\ i <= fresh
        BY DEF Se!Recorded, SurfaceInv, HandedOut, Se!Ids
      <4> QED
        BY <1>3, <3>2, <4>1
    <3> QED
      BY <1>2, <3>1, <3>2
  <2>3. \A t \in Texts : Se!Recorded(t)' \ {outbox'[t]}
                            = Se!Recorded(t) \ {outbox[t]}
    BY <1>5, <2>1, <2>2
  <2> QED
    BY <1>1, <2>3 DEF SurfaceInv, Settled
<1> QED
  BY <1>7, <1>8, <1>9, <1>10 DEF SurfaceInv

LEMMA SurfaceReceiveStep ==
    ASSUME Se!SurfaceAssumption, SurfaceInv, NEW c \in Client, Se!Receive(c)
    PROVE  SurfaceInv'
<1> DEFINE id == typing[c].id
<1>1. /\ typing[c].step = "receive"
      /\ UNCHANGED <<outbox, fresh, past, sent, acked, turns, surfaceFaults>>
      /\ \/ /\ receipt[id] = NoRow
            /\ receipt' = [receipt EXCEPT ![id] = Se!Receipt(c)]
            /\ Se!GoTo(c, "send")
         \/ /\ receipt[id] # NoRow /\ receipt' = receipt
            /\ \/ Se!GoTo(c, "send") /\ Se!Matches(c)
               \/ Se!GoTo(c, "idle")
  BY DEF Se!Receive, Se!At, Se!Local
<1>2. /\ typing[c] \in TurnRec /\ typing \in [Client -> TurnRec]
      /\ id \in Se!Ids /\ id <= fresh /\ Following(c)
      /\ receipt \in [Se!Ids -> Se!Row \cup {NoRow}]
  <2>1. /\ typing[c] \in TurnRec /\ typing \in [Client -> TurnRec]
        /\ fresh \in Nat /\ fresh <= MaxTurns /\ MaxTurns \in Nat
    BY TurnsAreTyped
  <2>2. Following(c) /\ receipt \in [Se!Ids -> Se!Row \cup {NoRow}]
    BY DEF SurfaceInv, SeStores
  <2>3. id \in 1 .. fresh
    BY <1>1, <2>2 DEF Following
  <2> QED
    BY <2>1, <2>2, <2>3 DEF Se!Ids
<1>3. PICK step \in {"send", "idle"} :
        /\ Se!GoTo(c, step)
        /\ \/ /\ receipt[id] = NoRow
              /\ receipt' = [receipt EXCEPT ![id] = Se!Receipt(c)]
              /\ step = "send"
           \/ /\ receipt[id] # NoRow /\ receipt' = receipt
              /\ step = "send" => receipt[id].text = typing[c].text
  BY <1>1 DEF Se!Matches
<1>4. PICK r \in TurnRec :
        /\ typing' = [typing EXCEPT ![c] = r] /\ typing'[c] = r
        /\ r.step = step /\ r.id = id /\ r.text = typing[c].text
  BY <1>3, GoesTo
<1> HIDE DEF id
<1>5. /\ Se!Receipt(c) \in Se!Row /\ Se!Receipt(c) # NoRow
      /\ Answered(Se!Receipt(c))
      /\ Se!Receipt(c).text = typing[c].text
  BY <1>2 DEF Se!Receipt, Se!Row, TurnRec, Answered, Se!SurfaceAssumption
<1>6. /\ receipt' \in [Se!Ids -> Se!Row \cup {NoRow}]
      /\ \A i \in Se!Ids : receipt[i] # NoRow => receipt'[i] = receipt[i]
      /\ \A i \in Se!Ids : receipt'[i] # receipt[i]
            => i = id /\ receipt'[i] = Se!Receipt(c)
      /\ step = "send"
            => receipt'[id] # NoRow /\ receipt'[id].text = typing[c].text
  BY <1>2, <1>3, <1>5
<1>7. /\ \A i \in Se!Ids : receipt'[i] # NoRow
            => i <= fresh /\ Answered(receipt'[i])
      /\ \A i \in past' : receipt'[i] # NoRow
  BY <1>1, <1>2, <1>5, <1>6 DEF SurfaceInv, HandedOut, SeStores
<1>8. Following(c)'
  BY <1>1, <1>2, <1>3, <1>4, <1>6 DEF Following, id
<1> QED
  BY <1>1, <1>3, <1>4, <1>6, <1>7, <1>8, RowsMove DEF SurfaceInv, SeStores

LEMMA SurfaceFailStep ==
    ASSUME Se!SurfaceAssumption, SurfaceInv, NEW c \in Client, Se!Fail(c)
    PROVE  SurfaceInv'
<1>1. UNCHANGED <<outbox, fresh, receipt, past, sent, acked, turns>>
      /\ Se!GoTo(c, "idle") /\ surfaceFaults' \in 0 .. MaxSurfaceFaults
  BY DEF Se!Fail, Se!Local, Se!Server, SurfaceInv, SeStores,
         Se!SurfaceAssumption
<1>2. PICK r \in TurnRec :
        typing' = [typing EXCEPT ![c] = r] /\ typing'[c] = r /\ r.step = "idle"
  BY <1>1, GoesTo
<1>3. Following(c)'
  BY <1>2 DEF Following
<1>4. /\ receipt' \in [Se!Ids -> Se!Row \cup {NoRow}] /\ past' \subseteq Se!Ids
      /\ \A i \in Se!Ids : receipt'[i] # NoRow
            => i <= fresh /\ Answered(receipt'[i])
      /\ \A i \in past' : receipt'[i] # NoRow
  BY <1>1 DEF SurfaceInv, SeStores, HandedOut
<1> QED
  BY <1>1, <1>2, <1>3, <1>4, RowsMove

LEMMA SurfaceSendStep ==
    ASSUME Se!SurfaceAssumption, SurfaceInv, NEW c \in Client, Se!Send(c)
    PROVE  SurfaceInv'
<1> DEFINE id == typing[c].id
           text == typing[c].text
           expired == receipt[id].state = "expired"
<1>1. /\ typing[c].step = "send"
      /\ UNCHANGED <<outbox, fresh, receipt, past, acked, turns,
                     surfaceFaults>>
      /\ sent' = IF expired \/ sent[id] > 0 THEN sent
                 ELSE [sent EXCEPT ![id] = @ + 1]
      /\ Se!GoTo(c, IF expired THEN "idle" ELSE "acknowledge")
  BY DEF Se!Send, Se!At, Se!Local
<1>2. /\ typing \in [Client -> TurnRec] /\ Following(c)
      /\ sent \in [Se!Ids -> 0 .. 1] /\ fresh \in Nat /\ fresh <= MaxTurns
      /\ MaxTurns \in Nat /\ typing[c] \in TurnRec
  BY TurnsAreTyped DEF SurfaceInv, SeStores
<1>3. /\ id \in 1 .. fresh /\ receipt[id] # NoRow /\ receipt[id].text = text
      /\ outbox[text] = id \/ sent[id] # 0
  BY <1>1, <1>2 DEF Following
<1>4. id \in Se!Ids /\ id # 0 /\ id <= fresh /\ text \in Texts
  BY <1>2, <1>3 DEF Se!Ids, TurnRec
<1>5. PICK step \in {"idle", "acknowledge"} :
         /\ Se!GoTo(c, step)
         /\ \/ sent' = sent /\ (step = "acknowledge" => sent[id] # 0)
            \/ sent[id] = 0 /\ sent' = [sent EXCEPT ![id] = 1]
  <2>1. CASE expired
    BY <1>1, <2>1
  <2>2. CASE ~ expired /\ sent[id] > 0
    <3>1. sent[id] # 0
      BY <1>2, <1>4, <2>2
    <3> QED
      BY <1>1, <2>2, <3>1
  <2>3. CASE ~ expired /\ ~ (sent[id] > 0)
    <3>1. sent[id] \in 0 .. 1
      BY <1>2, <1>4
    <3>2. sent[id] = 0 /\ sent[id] + 1 = 1
      BY <2>3, <3>1
    <3>3. sent' = [sent EXCEPT ![id] = sent[id] + 1]
      BY <1>1, <2>3
    <3>4. sent[id] = 0 /\ sent' = [sent EXCEPT ![id] = 1]
      BY <3>2, <3>3
    <3>5. Se!GoTo(c, "acknowledge")
      BY <1>1, <2>3
    <3> QED
      BY <3>4, <3>5
  <2> QED
    BY <2>1, <2>2, <2>3
<1>6. PICK r \in TurnRec :
        /\ typing' = [typing EXCEPT ![c] = r] /\ typing'[c] = r
        /\ r.step = step /\ r.id = id /\ r.text = text
  BY <1>5, GoesTo
<1> HIDE DEF id, text, expired
<1>7. typing'[c] = r
  BY <1>6
<1>8. /\ sent' \in [Se!Ids -> 0 .. 1]
      /\ \A i \in Se!Ids : sent[i] # 0 => sent'[i] # 0
      /\ \A i \in Se!Ids \ {id} : sent'[i] = sent[i]
      /\ step = "acknowledge" => sent'[id] # 0
      /\ outbox[text] = id \/ sent'[id] # 0
  BY <1>2, <1>3, <1>4, <1>5
<1>9. SeStores'
  <2>1. typing' \in [Client -> TurnRec]
    BY <1>2, <1>6
  <2> QED
    BY <1>1, <1>8, <2>1 DEF SurfaceInv, SeStores, TurnRec
<1>10. HandedOut'
  <2>1. /\ IsFiniteSet(Preparing)'
        /\ Cardinality(Preparing)' = Cardinality(Preparing)
        /\ Cardinality(Preparing) \in Nat
    <3>1. Cardinality(Preparing) \in Nat
      BY FS_CardinalityType DEF SurfaceInv, HandedOut
    <3>2. /\ IsFiniteSet(Preparing')
          /\ Cardinality(Preparing')
                = Cardinality(Preparing)
                     - (IF typing[c].step = "prepare" THEN 1 ELSE 0)
      BY <1>5, <1>6, PreparingMoves
    <3> QED
      BY <1>1, <3>1, <3>2
  <2>2. fresh' + Cardinality(Preparing)' <= turns'
    BY <1>1, <2>1 DEF SurfaceInv, HandedOut
  <2>3. \A i \in Se!Ids : sent'[i] # 0 => receipt'[i] # NoRow
    BY <1>1, <1>3, <1>8 DEF SurfaceInv, HandedOut
  <2> QED
    BY <1>1, <2>1, <2>2, <2>3 DEF SurfaceInv, HandedOut, Answered
<1>11. \A d \in Client : Following(d)'
  <2>1. Following(c)'
    BY <1>1, <1>3, <1>5, <1>6, <1>7, <1>8 DEF Following
  <2>2. /\ \A i \in Se!Ids : receipt[i] # NoRow =>
               receipt'[i] # NoRow /\ receipt'[i].text = receipt[i].text
        /\ \A d \in Client \ {c} :
              outbox'[typing[d].text] = outbox[typing[d].text]
        /\ fresh' \in Nat /\ fresh <= fresh'
    BY <1>1, <1>2
  <2> QED
    BY <1>2, <1>6, <1>8, <2>1, <2>2, OthersFollow
<1>12. \A t \in Texts : Settled(t)'
  <2>1. ASSUME NEW t \in Texts
        PROVE  Se!Recorded(t)' \ {outbox[t]} = Se!Recorded(t) \ {outbox[t]}
    <3>1. \A i \in Se!Ids \ {id} : i \in Se!Recorded(t)'
            <=> i \in Se!Recorded(t)
      BY <1>1, <1>8 DEF Se!Recorded
    <3>2. id \in Se!Recorded(t)' /\ id \notin Se!Recorded(t) => outbox[t] = id
      BY <1>1, <1>3, <1>8 DEF Se!Recorded
    <3>3. id \in Se!Recorded(t) => id \in Se!Recorded(t)'
      BY <1>1, <1>4, <1>8 DEF Se!Recorded
    <3>4. Se!Recorded(t) \subseteq Se!Ids /\ Se!Recorded(t)' \subseteq Se!Ids
      BY DEF Se!Recorded, Se!Ids
    <3> QED
      BY <3>1, <3>2, <3>3, <3>4
  <2> QED
    BY <1>1, <2>1 DEF SurfaceInv, Settled
<1> QED
  BY <1>9, <1>10, <1>11, <1>12 DEF SurfaceInv

LEMMA SurfaceAcknowledgeStep ==
    ASSUME Se!SurfaceAssumption, SurfaceInv, NEW c \in Client,
           Se!Acknowledge(c)
    PROVE  SurfaceInv'
<1> DEFINE id == typing[c].id
           text == typing[c].text
<1>1. /\ typing[c].step = "acknowledge" /\ Se!GoTo(c, "idle")
      /\ UNCHANGED <<fresh, receipt, past, sent, turns, surfaceFaults>>
      /\ \/ /\ outbox[text] = id /\ outbox' = [outbox EXCEPT ![text] = 0]
            /\ acked' = [acked EXCEPT ![text] = @ + 1]
         \/ UNCHANGED <<outbox, acked>>
  BY DEF Se!Acknowledge, Se!At, Se!Server
<1>2. /\ typing \in [Client -> TurnRec] /\ Following(c)
      /\ sent \in [Se!Ids -> 0 .. 1] /\ fresh \in Nat /\ fresh <= MaxTurns
      /\ MaxTurns \in Nat /\ typing[c] \in TurnRec
      /\ outbox \in [Texts -> 0 .. MaxTurns] /\ acked \in [Texts -> Nat]
  BY TurnsAreTyped DEF SurfaceInv, SeStores
<1>3. /\ id \in 1 .. fresh /\ receipt[id] # NoRow /\ receipt[id].text = text
      /\ sent[id] # 0
  BY <1>1, <1>2 DEF Following
<1>4. id \in Se!Ids /\ id # 0 /\ id <= fresh /\ text \in Texts
  BY <1>2, <1>3 DEF Se!Ids, TurnRec
<1>5. PICK r \in TurnRec :
        typing' = [typing EXCEPT ![c] = r] /\ typing'[c] = r /\ r.step = "idle"
  BY <1>1, GoesTo
<1>6. typing'[c] = r
  BY <1>5
<1>7. CASE UNCHANGED <<outbox, acked>>
  <2>1. Following(c)'
    BY <1>5, <1>6 DEF Following
  <2>2. /\ receipt' \in [Se!Ids -> Se!Row \cup {NoRow}]
        /\ past' \subseteq Se!Ids
        /\ surfaceFaults' \in 0 .. MaxSurfaceFaults
        /\ \A i \in Se!Ids : receipt'[i] # NoRow
              => i <= fresh /\ Answered(receipt'[i])
        /\ \A i \in past' : receipt'[i] # NoRow
    BY <1>1 DEF SurfaceInv, SeStores, HandedOut
  <2>3. \A i \in Se!Ids : receipt[i] # NoRow =>
               receipt'[i] # NoRow /\ receipt'[i].text = receipt[i].text
    BY <1>1
  <2> QED
    BY <1>1, <1>5, <1>7, <2>1, <2>2, <2>3, RowsMove
<1>8. CASE /\ outbox[text] = id /\ outbox' = [outbox EXCEPT ![text] = 0]
           /\ acked' = [acked EXCEPT ![text] = @ + 1]
  <2> HIDE DEF id, text
  <2>1. /\ outbox'[text] = 0 /\ acked'[text] = acked[text] + 1
        /\ \A t \in Texts \ {text} :
              outbox'[t] = outbox[t] /\ acked'[t] = acked[t]
    BY <1>2, <1>4, <1>8
  <2>2. SeStores'
    <3>1. typing' \in [Client -> TurnRec]
      BY <1>2, <1>5
    <3>2. outbox' \in [Texts -> 0 .. MaxTurns] /\ acked' \in [Texts -> Nat]
      BY <1>2, <1>4, <1>8
    <3> QED
      BY <1>1, <3>1, <3>2 DEF SurfaceInv, SeStores, TurnRec
  <2>3. HandedOut'
    <3>1. /\ IsFiniteSet(Preparing)'
          /\ Cardinality(Preparing)' = Cardinality(Preparing)
      <4>1. Cardinality(Preparing) \in Nat
        BY FS_CardinalityType DEF SurfaceInv, HandedOut
      <4>2. /\ IsFiniteSet(Preparing')
            /\ Cardinality(Preparing')
                  = Cardinality(Preparing)
                       - (IF typing[c].step = "prepare" THEN 1 ELSE 0)
        BY <1>5, PreparingMoves
      <4> QED
        BY <1>1, <4>1, <4>2
    <3>2. fresh' + Cardinality(Preparing)' <= turns'
      BY <1>1, <3>1 DEF SurfaceInv, HandedOut
    <3>3. \A t \in Texts : outbox'[t] <= fresh'
      BY <1>1, <1>2, <2>1 DEF SurfaceInv, HandedOut
    <3> QED
      BY <1>1, <3>1, <3>2, <3>3 DEF SurfaceInv, HandedOut, Answered
  <2>4. \A d \in Client : Following(d)'
    <3>1. Following(c)'
      BY <1>5, <1>6 DEF Following
    <3>2. \A d \in Client : typing[d].text \in Texts
      BY <1>2 DEF TurnRec
    <3>3. \A d \in Client \ {c} :
             \/ outbox'[typing[d].text] = outbox[typing[d].text]
             \/ sent'[outbox[typing[d].text]] # 0
      BY <1>1, <1>3, <1>8, <2>1, <3>2
    <3>4. /\ \A i \in Se!Ids : sent[i] # 0 => sent'[i] # 0
          /\ \A i \in Se!Ids : receipt[i] # NoRow =>
                 receipt'[i] # NoRow /\ receipt'[i].text = receipt[i].text
          /\ fresh' \in Nat /\ fresh <= fresh'
      BY <1>1, <1>2
    <3> QED
      BY <1>2, <1>5, <3>1, <3>3, <3>4, OthersFollow
  <2>5. \A t \in Texts : Settled(t)'
    <3>1. \A t \in Texts : Se!Recorded(t)' = Se!Recorded(t)
      BY <1>1, RecordedKept
    <3>2. \A t \in Texts \ {text} : Settled(t)'
      BY <2>1, <3>1 DEF SurfaceInv, Settled
    <3>3. id \in Se!Recorded(text) /\ 0 \notin Se!Recorded(text)
      BY <1>3, <1>4 DEF Se!Recorded, Se!Ids
    <3>4. /\ IsFiniteSet(Se!Recorded(text) \ {id})
          /\ acked[text] = Cardinality(Se!Recorded(text) \ {id})
      BY <1>4, <1>8 DEF SurfaceInv, Settled
    <3>5. Se!Recorded(text) = (Se!Recorded(text) \ {id}) \cup {id}
      BY <3>3
    <3>6. /\ IsFiniteSet(Se!Recorded(text))
          /\ Cardinality(Se!Recorded(text))
                = Cardinality(Se!Recorded(text) \ {id}) + 1
      BY <3>4, <3>5, FS_AddElement
    <3>7. Se!Recorded(text) \ {0} = Se!Recorded(text)
      BY <3>3
    <3>8. ASSUME NEW u \in Texts, u = text PROVE Settled(u)'
      <4>1. Se!Recorded(u)' \ {outbox'[u]} = Se!Recorded(u)
        BY <2>1, <3>1, <3>7, <3>8
      <4>2. acked'[u] = Cardinality(Se!Recorded(u))
        BY <2>1, <3>4, <3>6, <3>8
      <4> QED
        BY <3>6, <3>8, <4>1, <4>2 DEF Settled
    <3> QED
      BY <3>2, <3>8
  <2> QED
    BY <2>2, <2>3, <2>4, <2>5 DEF SurfaceInv
<1> QED
  BY <1>1, <1>7, <1>8

\* A step of the receipts: each stays for the text it binds.
RowsStay ==
    /\ past' \subseteq Se!Ids /\ receipt' \in [Se!Ids -> Se!Row \cup {NoRow}]
    /\ \A i \in past' : receipt[i] # NoRow
    /\ \A i \in Se!Ids : /\ receipt[i] = NoRow => receipt'[i] = NoRow
                         /\ receipt[i] # NoRow =>
                               /\ receipt'[i] \in Se!Row
                               /\ receipt'[i].text = receipt[i].text
                               /\ Answered(receipt'[i])

LEMMA RowsChange ==
    ASSUME Se!SurfaceAssumption, SurfaceInv,
           \/ \E id \in Se!Ids : Se!Handle(id) \/ Se!Age(id)
           \/ \E id \in Se!Ids, answer \in Replies : Se!Respond(id, answer)
           \/ Se!ExpireDue
    PROVE  RowsStay
<1>1. /\ receipt \in [Se!Ids -> Se!Row \cup {NoRow}] /\ past \subseteq Se!Ids
      /\ \A i \in Se!Ids : receipt[i] # NoRow
            => receipt[i] \in Se!Row /\ Answered(receipt[i])
      /\ \A i \in past : receipt[i] # NoRow
  BY DEF SurfaceInv, SeStores, HandedOut
<1>2. ASSUME NEW id \in Se!Ids, Se!Handle(id) PROVE RowsStay
  <2>1. /\ receipt' = [receipt EXCEPT ![id].state = "handled"] /\ past' = past
        /\ receipt[id] # NoRow /\ receipt[id].state = "received"
    BY <1>2 DEF Se!Handle, Se!Local
  <2>2. /\ receipt'[id] \in Se!Row /\ receipt'[id].text = receipt[id].text
        /\ receipt'[id].state = "handled"
        /\ receipt'[id].answer = receipt[id].answer
    BY <1>1, <2>1 DEF Se!Row
  <2>3. Answered(receipt'[id])
    BY <1>1, <2>1, <2>2 DEF Answered
  <2>4. \A i \in Se!Ids \ {id} : receipt'[i] = receipt[i]
    BY <1>1, <2>1
  <2>5. receipt' \in [Se!Ids -> Se!Row \cup {NoRow}]
    BY <1>1, <2>1, <2>2, <2>4
  <2> QED
    BY <1>1, <2>1, <2>2, <2>3, <2>4, <2>5 DEF RowsStay
<1>3. ASSUME NEW id \in Se!Ids, Se!Age(id) PROVE RowsStay
  BY <1>1, <1>3 DEF Se!Age, Se!Local, RowsStay
<1>4. ASSUME NEW id \in Se!Ids, NEW answer \in Replies, Se!Respond(id, answer)
      PROVE  RowsStay
  <2>1. /\ receipt' = [receipt EXCEPT ![id].state = "responded",
                                      ![id].answer = answer]
        /\ past' = past /\ receipt[id] # NoRow
    BY <1>4 DEF Se!Respond, Se!Local
  <2>2. /\ receipt'[id] \in Se!Row /\ receipt'[id].text = receipt[id].text
        /\ receipt'[id].state = "responded" /\ receipt'[id].answer = answer
    BY <1>1, <2>1 DEF Se!Row
  <2>3. Answered(receipt'[id])
    BY <2>2 DEF Answered, Se!SurfaceAssumption
  <2>4. \A i \in Se!Ids \ {id} : receipt'[i] = receipt[i]
    BY <1>1, <2>1
  <2>5. receipt' \in [Se!Ids -> Se!Row \cup {NoRow}]
    BY <1>1, <2>1, <2>2, <2>4
  <2> QED
    BY <1>1, <2>1, <2>2, <2>3, <2>4, <2>5 DEF RowsStay
<1>5. ASSUME Se!ExpireDue PROVE RowsStay
  <2>1. /\ past' = past
        /\ receipt' = [i \in Se!Ids |-> IF i \in Se!Due
                            THEN [receipt[i] EXCEPT !.state = "expired"]
                            ELSE receipt[i]]
    BY <1>5 DEF Se!ExpireDue, Se!Local
  <2>2. ASSUME NEW i \in Se!Ids
        PROVE  /\ receipt[i] = NoRow => receipt'[i] = NoRow
               /\ receipt[i] # NoRow => /\ receipt'[i] \in Se!Row
                                        /\ receipt'[i].text = receipt[i].text
                                        /\ Answered(receipt'[i])
    <3>1. CASE i \in Se!Due
      <4>1. receipt[i] # NoRow
              /\ receipt'[i] = [receipt[i] EXCEPT !.state = "expired"]
        BY <1>1, <2>1, <3>1 DEF Se!Due
      <4>2. /\ receipt'[i] \in Se!Row /\ receipt'[i].text = receipt[i].text
            /\ receipt'[i].state = "expired"
        BY <1>1, <4>1 DEF Se!Row
      <4> QED
        BY <4>1, <4>2 DEF Answered
    <3>2. CASE i \notin Se!Due
      BY <1>1, <2>1, <3>2
    <3> QED
      BY <3>1, <3>2
  <2>3. receipt' \in [Se!Ids -> Se!Row \cup {NoRow}]
    <3>1. \A i \in Se!Ids : receipt'[i] \in Se!Row \cup {NoRow}
      BY <2>2
    <3> QED
      BY <2>1, <3>1
  <2> QED
    BY <1>1, <2>1, <2>2, <2>3 DEF RowsStay
<1> QED
  BY <1>2, <1>3, <1>4, <1>5

LEMMA SurfaceReceiptsStep ==
    ASSUME Se!SurfaceAssumption, SurfaceInv,
           \/ \E id \in Se!Ids : Se!Handle(id) \/ Se!Age(id)
           \/ \E id \in Se!Ids, answer \in Replies : Se!Respond(id, answer)
           \/ Se!ExpireDue
    PROVE  SurfaceInv'
<1>1. UNCHANGED <<outbox, fresh, sent, typing, acked, turns, surfaceFaults>>
  BY DEF Se!Handle, Se!Age, Se!Respond, Se!ExpireDue, Se!Local
<1>2. RowsStay
  BY RowsChange
<1>3. \A i \in Se!Ids : receipt[i] # NoRow <=> receipt'[i] # NoRow
  BY <1>2 DEF RowsStay, Se!SurfaceAssumption
<1>4. \A i \in Se!Ids : receipt[i] # NoRow
        => receipt'[i].text = receipt[i].text
  BY <1>2 DEF RowsStay
<1>5. SeStores'
  BY <1>1, <1>2 DEF SurfaceInv, SeStores, RowsStay
<1>6. HandedOut'
  <2>1. Preparing' = Preparing
    BY <1>1 DEF Preparing
  <2>2. \A i \in Se!Ids : receipt'[i] # NoRow
          => i <= fresh' /\ Answered(receipt'[i])
    BY <1>1, <1>2, <1>3 DEF SurfaceInv, HandedOut, RowsStay
  <2>3. \A i \in past' : receipt'[i] # NoRow
    BY <1>2, <1>3 DEF RowsStay
  <2>4. IsFiniteSet(Preparing)' /\ fresh' + Cardinality(Preparing)' <= turns'
    BY <1>1, <2>1 DEF SurfaceInv, HandedOut
  <2> QED
    BY <1>1, <1>3, <2>2, <2>3, <2>4 DEF SurfaceInv, HandedOut, Answered
<1>7. ASSUME NEW c \in Client PROVE Following(c)'
  <2>1. typing[c].id \in 1 .. fresh => typing[c].id \in Se!Ids
    <3>1. fresh \in Nat /\ fresh <= MaxTurns /\ MaxTurns \in Nat
      BY TurnsAreTyped
    <3> QED
      BY <3>1 DEF Se!Ids
  <2>2. Following(c)
    BY DEF SurfaceInv
  <2> QED
    BY <1>1, <1>3, <1>4, <2>1, <2>2 DEF Following
<1>8. \A t \in Texts : Settled(t)'
  <2>1. \A t \in Texts : Se!Recorded(t)' = Se!Recorded(t)
    BY <1>1, <1>3, <1>4, RecordedKept
  <2> QED
    BY <1>1, <2>1 DEF SurfaceInv, Settled
<1> QED
  BY <1>5, <1>6, <1>7, <1>8 DEF SurfaceInv

LEMMA SurfaceSteps ==
    ASSUME Se!SurfaceAssumption, SurfaceInv, Se!Next
    PROVE  SurfaceInv'
<1>1. ASSUME NEW c \in Client,
             Se!Prepare(c) \/ Se!Receive(c) \/ Se!Send(c)
                 \/ Se!Acknowledge(c) \/ Se!Fail(c)
      PROVE  SurfaceInv'
  BY <1>1, SurfacePrepareStep, SurfaceReceiveStep, SurfaceSendStep,
     SurfaceAcknowledgeStep, SurfaceFailStep
<1> QED
  BY <1>1, SurfaceTypeStep, SurfaceReceiptsStep DEF Se!Next

LEMMA SurfaceRests ==
    ASSUME SurfaceInv, UNCHANGED surfaceVars
    PROVE  SurfaceInv'
<1>1. UNCHANGED <<outbox, fresh, receipt, past, sent, typing, acked, turns,
                  surfaceFaults>>
  BY DEF surfaceVars
<1>2. SeStores' /\ HandedOut'
  BY <1>1 DEF SurfaceInv, SeStores, HandedOut, Preparing, Answered
<1>3. \A c \in Client : Following(c)'
  BY <1>1 DEF SurfaceInv, Following
<1>4. \A t \in Texts : Settled(t)'
  BY <1>1 DEF SurfaceInv, Settled, Se!Recorded
<1> QED
  BY <1>2, <1>3, <1>4 DEF SurfaceInv

LEMMA SurfaceOnce ==
    ASSUME Se!SurfaceAssumption, SurfaceInv
    PROVE  Se!RecordedOnce
<1>1. \A i \in Se!Ids : sent[i] <= 1
  BY DEF SurfaceInv, SeStores
<1>2. ASSUME NEW t \in Texts
      PROVE  /\ acked[t] <= Cardinality(Se!Recorded(t))
             /\ Cardinality(Se!Recorded(t)) <= acked[t] + 1
  <2>1. /\ IsFiniteSet(Se!Recorded(t) \ {outbox[t]})
        /\ acked[t] = Cardinality(Se!Recorded(t) \ {outbox[t]})
        /\ acked[t] \in Nat
    BY DEF SurfaceInv, Settled, SeStores
  <2>2. CASE outbox[t] \in Se!Recorded(t)
    <3>1. Se!Recorded(t) = (Se!Recorded(t) \ {outbox[t]}) \cup {outbox[t]}
      BY <2>2
    <3>2. Cardinality(Se!Recorded(t)) = acked[t] + 1
      BY <2>1, <3>1, FS_AddElement
    <3> QED
      BY <2>1, <3>2
  <2>3. CASE outbox[t] \notin Se!Recorded(t)
    <3>1. Se!Recorded(t) \ {outbox[t]} = Se!Recorded(t)
      BY <2>3
    <3>2. acked[t] = Cardinality(Se!Recorded(t))
      BY <2>1, <3>1
    <3> QED
      BY <2>1, <3>2
  <2> QED
    BY <2>2, <2>3
<1>3. \A t : Se!Cardinality(Se!Recorded(t)) = Cardinality(Se!Recorded(t))
  BY DEF Se!Cardinality, Cardinality
<1> QED
  BY <1>1, <1>2, <1>3 DEF Se!RecordedOnce

LEMMA SurfaceTypes ==
    ASSUME Se!SurfaceAssumption, SurfaceInv
    PROVE  Se!TypeOK
<1>1. ASSUME NEW t \in Texts PROVE acked[t] \in 0 .. MaxTurns
  <2>1. /\ acked[t] = Cardinality(Se!Recorded(t) \ {outbox[t]})
        /\ acked[t] \in Nat /\ MaxTurns \in Nat
    BY DEF SurfaceInv, Settled, SeStores, Se!SurfaceAssumption
  <2>2. /\ Se!Recorded(t) \ {outbox[t]} \subseteq 1 .. MaxTurns
        /\ IsFiniteSet(1 .. MaxTurns) /\ Cardinality(1 .. MaxTurns) = MaxTurns
    <3>1. Se!Recorded(t) \ {outbox[t]} \subseteq 1 .. MaxTurns
      BY DEF Se!Recorded, Se!Ids
    <3>2. /\ IsFiniteSet(1 .. MaxTurns)
          /\ Cardinality(1 .. MaxTurns)
                = IF 1 > MaxTurns THEN 0 ELSE MaxTurns - 1 + 1
      BY <2>1, FS_Interval
    <3> QED
      BY <2>1, <3>1, <3>2
  <2>3. Cardinality(Se!Recorded(t) \ {outbox[t]}) <= MaxTurns
    BY <2>2, FS_Subset
  <2> QED
    BY <2>1, <2>3
<1>2. acked \in [Texts -> 0 .. MaxTurns]
  BY <1>1 DEF SurfaceInv, SeStores
<1>3. sent \in [Se!Ids -> 0 .. MaxTurns]
  <2>1. \A i \in Se!Ids : sent[i] \in 0 .. MaxTurns
    <3>1. sent \in [Se!Ids -> 0 .. 1] /\ MaxTurns \in Nat
      BY DEF SurfaceInv, SeStores, Se!SurfaceAssumption
    <3>2. \A i \in Se!Ids : MaxTurns >= 1
      BY <3>1 DEF Se!Ids
    <3> QED
      BY <3>1, <3>2
  <2> QED
    BY <2>1 DEF SurfaceInv, SeStores
<1>4. \A i \in Se!Ids : receipt[i] # NoRow => Answered(receipt[i])
  BY DEF SurfaceInv, HandedOut
<1> QED
  BY <1>2, <1>3, <1>4 DEF SurfaceInv, SeStores, Se!TypeOK, Answered

-----------------------------------------------------------------------------
(* TaskChooser: what the user confirmed, and who carries it                 *)

InputRec == [word : Ch!Words \cup {"none"}, prompt : {0, Ch!Stale} \cup Ch!Id,
             new : BOOLEAN]
DraftRec == [step : Ch!Steps, prompt : {0} \cup Ch!Id, work : {0} \cup Ch!Id,
             first : BOOLEAN, found : 0..MaxProjects, chosen : 0..2,
             left : 0..2, ask : {0} \cup Ch!Request, made : BOOLEAN,
             late : BOOLEAN]
SayRec == [at : {"free", "peek", "apply", "work", "deliver", "serve"},
           s : Session \cup {"none"}, input : InputRec, context : BOOLEAN,
           token : {0} \cup Ch!Id, step : Ch!Steps, ask : {0} \cup Ch!Request]
PendingRec == [ask : {0} \cup Ch!Request, flying : BOOLEAN]

ChooserStores ==
    /\ config \in Trusted /\ chats \subseteq Session
    /\ draft \in [Session -> DraftRec] /\ failed \in [Session -> InputRec]
    /\ pending \in [Session -> PendingRec] /\ turn \in [Turn -> SayRec]
    /\ requests \in 0..MaxRequests /\ chooserFaults \in 0..MaxChooserFaults
    /\ \A t \in Turn : turn[t].at # "free" => turn[t].s \in Session

WorkSteps == {"projects", "path", "branch", "branch_name", "confirm"}

\* A draft shows its preview while the user is asked to confirm it, and works
\* only where nothing else can change what it shows.
SoundDraft(d) ==
    /\ d.step = "none" => d = Ch!NoDraft
    /\ d.step = "confirm" => d.ask # 0
    /\ d.made => d.ask # 0
    /\ d.work # 0 => d.step \in WorkSteps

\* The request a draft shows is nobody else's.
AskIsUnsent(s) ==
    draft[s].ask # 0 =>
        /\ draft[s].ask <= requests /\ draft[s].ask \notin created
        /\ draft[s].made => draft[s].ask \in confirmed
        /\ \A r \in Session : r # s => draft[r].ask # draft[s].ask
        /\ \A r \in Session : pending[r].ask # draft[s].ask

\* A call outside the lock knows the request of the draft it was started from.
AskAtWork(t) ==
    turn[t].at = "work" =>
        /\ turn[t].token # 0
        /\ draft[turn[t].s].work = turn[t].token
              => draft[turn[t].s].ask = turn[t].ask

CarriesAsk(t) == turn[t].at \in {"deliver", "serve"} /\ turn[t].ask # 0

\* A request on its way to the Task service is that of one turn.
AloneWithAsk(t) ==
    /\ turn[t].at = "serve" => turn[t].ask # 0
    /\ turn[t].at \in {"peek", "apply"} => turn[t].ask = 0
    /\ CarriesAsk(t) =>
        /\ turn[t].ask <= requests /\ turn[t].ask \in confirmed \ created
        /\ \A r \in Session : draft[r].ask # turn[t].ask
        /\ \A u \in Turn : u # t /\ CarriesAsk(u) => turn[u].ask # turn[t].ask
        /\ \A r \in Session : pending[r].ask = turn[t].ask
              => turn[t].at = "serve" /\ r = turn[t].s /\ pending[r].flying

AskWaits(s) ==
    /\ pending[s].ask = 0 => ~ pending[s].flying
    /\ pending[s].ask # 0 =>
        /\ pending[s].ask <= requests
        /\ pending[s].ask \in confirmed \ created
        /\ \A r \in Session : r # s => pending[r].ask # pending[s].ask

ChooserInv ==
    /\ ChooserStores
    /\ \A s \in Session : SoundDraft(draft[s]) /\ AskIsUnsent(s) /\ AskWaits(s)
    /\ \A t \in Turn : AskAtWork(t) /\ AloneWithAsk(t)
    /\ handed \subseteq confirmed \cap checked
    /\ created \subseteq 1..requests

LEMMA LeastOf ==
    ASSUME NEW S \in SUBSET Nat, S # {}
    PROVE  \E i \in S : \A j \in S : i <= j
<1>1. PICK i \in S : \A j \in S : ~ (<<j, i>> \in OpToRel(<, Nat))
  BY NatLessThanWellFounded, WFMin
<1>2. OpToRel(<, Nat) = {pair \in Nat \X Nat : pair[1] < pair[2]}
  BY DEF OpToRel
<1>3. ASSUME NEW j \in S PROVE i <= j
  <2>1. <<j, i>> \in Nat \X Nat /\ <<j, i>>[1] = j /\ <<j, i>>[2] = i
    OBVIOUS
  <2>2. ~ (j < i)
    BY <1>1, <1>2, <2>1
  <2> QED
    BY <2>2
<1> QED
  BY <1>3

LEMMA ImageIsSmall ==
    ASSUME NEW S, IsFiniteSet(S), NEW f, f \in [S -> {f[s] : s \in S}]
    PROVE  /\ IsFiniteSet({f[s] : s \in S})
           /\ Cardinality({f[s] : s \in S}) \in Nat
           /\ Cardinality({f[s] : s \in S}) <= Cardinality(S)
<1> DEFINE T == {f[s] : s \in S}
<1>1. f \in Surjection(S, T)
  BY DEF Surjection
<1> HIDE DEF T
<1> QED
  BY <1>1, FS_Surjection, FS_CardinalityType DEF T

LEMMA UnionIsSmall ==
    ASSUME NEW S, IsFiniteSet(S), NEW T, IsFiniteSet(T)
    PROVE  /\ IsFiniteSet(S \cup T)
           /\ Cardinality(S \cup T) \in Nat
           /\ Cardinality(S \cup T) <= Cardinality(S) + Cardinality(T)
<1>1. IsFiniteSet(S \cap T) /\ Cardinality(S \cap T) \in Nat
  BY FS_Subset, FS_CardinalityType
<1>2. IsFiniteSet(S \cup T)
        /\ Cardinality(S \cup T)
             = Cardinality(S) + Cardinality(T) - Cardinality(S \cap T)
  BY FS_Union
<1>3. Cardinality(S) \in Nat /\ Cardinality(T) \in Nat
        /\ Cardinality(S \cup T) \in Nat
  BY <1>2, FS_CardinalityType
<1> QED
  BY <1>1, <1>2, <1>3

\* There are more identifiers than can be held.
LEMMA FreshIsFree ==
    ASSUME Ch!ChooserAssumption
    PROVE  Ch!FreshId \in Ch!Id /\ Ch!FreshId \notin Ch!Held
<1> DEFINE A == {[r \in Session |-> draft[r].prompt][s] : s \in Session}
           B == {[r \in Session |-> draft[r].work][s] : s \in Session}
           C == {[r \in Session |-> failed[r].prompt][s] : s \in Session}
           D == {[u \in Turn |-> turn[u].input.prompt][t] : t \in Turn}
           E == {[u \in Turn |-> turn[u].token][t] : t \in Turn}
           n == Cardinality(Session)
           m == Cardinality(Turn)
<1>1. IsFiniteSet(Session) /\ IsFiniteSet(Turn)
  BY DEF Ch!ChooserAssumption, Ch!IsFiniteSet, IsFiniteSet
<1>2. n \in Nat /\ m \in Nat
  BY <1>1, FS_CardinalityType
<1>3. IsFiniteSet(A) /\ Cardinality(A) \in Nat /\ Cardinality(A) <= n
  BY <1>1, ImageIsSmall
<1>4. IsFiniteSet(B) /\ Cardinality(B) \in Nat /\ Cardinality(B) <= n
  BY <1>1, ImageIsSmall
<1>5. IsFiniteSet(C) /\ Cardinality(C) \in Nat /\ Cardinality(C) <= n
  BY <1>1, ImageIsSmall
<1>6. IsFiniteSet(D) /\ Cardinality(D) \in Nat /\ Cardinality(D) <= m
  BY <1>1, ImageIsSmall
<1>7. IsFiniteSet(E) /\ Cardinality(E) \in Nat /\ Cardinality(E) <= m
  BY <1>1, ImageIsSmall
<1>8. Ch!Held \subseteq ((A \cup B) \cup C) \cup (D \cup E)
  <2>1. ASSUME NEW s \in Session
        PROVE  draft[s].prompt \in A /\ draft[s].work \in B
                 /\ failed[s].prompt \in C
    OBVIOUS
  <2>2. ASSUME NEW t \in Turn
        PROVE  turn[t].input.prompt \in D /\ turn[t].token \in E
    OBVIOUS
  <2> HIDE DEF A, B, C, D, E
  <2> DEFINE P(r) == {draft[r].prompt, draft[r].work, failed[r].prompt}
             Q(t) == {turn[t].input.prompt, turn[t].token}
             U == UNION {P(s) : s \in Session}
             V == UNION {Q(t) : t \in Turn}
  <2>3. \A s \in Session : P(s) \subseteq (A \cup B) \cup C
    BY <2>1
  <2>4. \A t \in Turn : Q(t) \subseteq D \cup E
    BY <2>2
  <2>5. Ch!Held = U \cup V
    BY DEF Ch!Held
  <2> HIDE DEF P, Q
  <2>6. U \subseteq (A \cup B) \cup C
    BY <2>3
  <2>7. V \subseteq D \cup E
    BY <2>4
  <2> HIDE DEF U, V
  <2> QED
    BY <2>5, <2>6, <2>7
<1> HIDE DEF A, B, C, D, E, n, m
<1>9. IsFiniteSet(A \cup B) /\ Cardinality(A \cup B) \in Nat
        /\ Cardinality(A \cup B) <= 2 * n
  <2>1. /\ IsFiniteSet(A \cup B) /\ Cardinality(A \cup B) \in Nat
        /\ Cardinality(A \cup B) <= Cardinality(A) + Cardinality(B)
    BY <1>3, <1>4, UnionIsSmall
  <2> QED
    BY <1>2, <1>3, <1>4, <2>1
<1>10. IsFiniteSet((A \cup B) \cup C) /\ Cardinality((A \cup B) \cup C) \in Nat
         /\ Cardinality((A \cup B) \cup C) <= 3 * n
  <2>1. /\ IsFiniteSet((A \cup B) \cup C)
        /\ Cardinality((A \cup B) \cup C) \in Nat
        /\ Cardinality((A \cup B) \cup C)
             <= Cardinality(A \cup B) + Cardinality(C)
    BY <1>5, <1>9, UnionIsSmall
  <2> QED
    BY <1>2, <1>5, <1>9, <2>1
<1>11. IsFiniteSet(D \cup E) /\ Cardinality(D \cup E) \in Nat
         /\ Cardinality(D \cup E) <= 2 * m
  <2>1. /\ IsFiniteSet(D \cup E) /\ Cardinality(D \cup E) \in Nat
        /\ Cardinality(D \cup E) <= Cardinality(D) + Cardinality(E)
    BY <1>6, <1>7, UnionIsSmall
  <2> QED
    BY <1>2, <1>6, <1>7, <2>1
<1> DEFINE H == ((A \cup B) \cup C) \cup (D \cup E)
<1>12. IsFiniteSet(H) /\ Cardinality(H) \in Nat
         /\ Cardinality(H) <= 3 * n + 2 * m
  <2>1. IsFiniteSet(H) /\ Cardinality(H) \in Nat
          /\ Cardinality(H) <= Cardinality((A \cup B) \cup C)
                               + Cardinality(D \cup E)
    BY <1>10, <1>11, UnionIsSmall
  <2> QED
    BY <1>2, <1>10, <1>11, <2>1
<1>13. IsFiniteSet(Ch!Id) /\ Cardinality(Ch!Id) = 3 * n + 2 * m + 1
  <2>1. Ch!Id = 1 .. (3 * n + 2 * m + 1)
    <3>1. Ch!Cardinality(Session) = n /\ Ch!Cardinality(Turn) = m
      BY DEF Ch!Cardinality, Cardinality, n, m
    <3> QED
      BY <3>1 DEF Ch!Id
  <2>2. 3 * n + 2 * m + 1 \in Int /\ 3 * n + 2 * m + 1 >= 1
    BY <1>2
  <2> HIDE DEF H
  <2> QED
    BY <1>2, <2>1, <2>2, FS_Interval
<1>14. Ch!Id \ Ch!Held # {}
  <2>1. SUFFICES ASSUME Ch!Id \subseteq H PROVE FALSE
    BY <1>8
  <2> HIDE DEF H
  <2>2. Cardinality(Ch!Id) <= Cardinality(H)
    BY <1>12, <2>1, FS_Subset
  <2> QED
    BY <1>2, <1>12, <1>13, <2>2
<1>15. Ch!Id \ Ch!Held \in SUBSET Nat
  BY DEF Ch!Id
<1>16. \E i \in Ch!Id \ Ch!Held : \A j \in Ch!Id \ Ch!Held : i <= j
  BY <1>14, <1>15, LeastOf
<1> QED
  BY <1>16 DEF Ch!FreshId

\* A turn that brings no request along: it ended, or goes on with the draft.
CalmTurn(w, s) ==
    \/ w.at \in {"free", "peek", "apply", "deliver"} /\ w.ask = 0
         /\ (w.at # "free" => w.s \in Session)
    \/ w.at = "work" /\ w.s = s /\ w.token # 0

\* One section about the draft of session s, which becomes e.
DraftMoves(s, e) ==
    /\ draft' = [draft EXCEPT ![s] = e] /\ chats' \subseteq Session
    /\ SoundDraft(e)
    /\ requests' \in 0..MaxRequests
    /\ \/ requests' = requests /\ e.ask \in {0, draft[s].ask}
       \/ requests' = requests + 1 /\ e.ask = requests + 1
    /\ confirmed \subseteq confirmed'
    /\ e.made => e.ask \in confirmed'
    /\ turn' \in [Turn -> SayRec]
    /\ \A u \in Turn : turn'[u] = turn[u] \/ CalmTurn(turn'[u], s)
    /\ \A u \in Turn :
         turn'[u].at = "work" /\ turn'[u].s = s /\ turn'[u].token = e.work
            => turn'[u].ask = e.ask
    /\ UNCHANGED <<config, pending, created>>

LEMMA DraftMovesStep ==
    ASSUME ChooserInv, NEW s \in Session, NEW e \in DraftRec, DraftMoves(s, e),
           failed' \in [Session -> InputRec],
           chooserFaults' \in 0..MaxChooserFaults,
           handed' \subseteq confirmed' \cap checked'
    PROVE  ChooserInv'
<1>1. ChooserStores'
  BY DEF ChooserInv, ChooserStores, DraftMoves, CalmTurn
<1>2. draft \in [Session -> DraftRec] /\ turn \in [Turn -> SayRec]
        /\ pending \in [Session -> PendingRec] /\ requests \in Nat
  BY DEF ChooserInv, ChooserStores
<1>3. draft'[s] = e /\ \A r \in Session \ {s} : draft'[r] = draft[r]
  BY <1>2 DEF DraftMoves
<1>4. requests <= requests' /\ requests' \in Nat
  BY <1>2 DEF DraftMoves
<1>5. \A r \in Session : SoundDraft(draft[r])'
  BY <1>3 DEF DraftMoves, SoundDraft, ChooserInv
<1>6. \A r \in Session : AskWaits(r)'
  BY <1>2, <1>4 DEF DraftMoves, AskWaits, ChooserInv, PendingRec, Ch!Request
<1>7. ASSUME NEW r \in Session PROVE AskIsUnsent(r)'
  <2>1. CASE r = s /\ requests' = requests + 1 /\ e.ask = requests + 1
    <3>1. \A q \in Session : /\ draft[q].ask \in Nat /\ pending[q].ask \in Nat
                             /\ draft[q].ask <= requests
                             /\ pending[q].ask <= requests
      BY <1>2
      DEF ChooserInv, AskIsUnsent, AskWaits, DraftRec, PendingRec, Ch!Request
    <3>2. created' = created /\ \A q \in created : q <= requests
      BY <1>2 DEF ChooserInv, DraftMoves
    <3> QED
      BY <1>2, <1>3, <2>1, <3>1, <3>2 DEF AskIsUnsent, DraftMoves
  <2>2. CASE r = s /\ requests' = requests /\ e.ask \in {0, draft[s].ask}
    BY <1>2, <1>3, <2>2 DEF ChooserInv, AskIsUnsent, DraftMoves
  <2>3. CASE r # s /\ requests' = requests + 1 /\ e.ask = requests + 1
    <3>1. draft[r].ask \in Nat
      BY <1>2 DEF DraftRec, Ch!Request
    <3> QED
      BY <1>2, <1>3, <2>3, <3>1 DEF ChooserInv, AskIsUnsent, DraftMoves
  <2>4. CASE r # s /\ requests' = requests /\ e.ask \in {0, draft[s].ask}
    BY <1>2, <1>3, <2>4 DEF ChooserInv, AskIsUnsent, DraftMoves
  <2> QED
    BY <2>1, <2>2, <2>3, <2>4 DEF DraftMoves
<1>8. ASSUME NEW u \in Turn PROVE AskAtWork(u)'
  <2>1. CASE turn'[u] = turn[u]
    <3>1. turn[u].at = "work" => turn[u].s \in Session
      BY DEF ChooserInv, ChooserStores
    <3> QED
      BY <1>3, <2>1, <3>1 DEF ChooserInv, AskAtWork, DraftMoves
  <2>2. CASE CalmTurn(turn'[u], s)
    BY <1>3, <2>2 DEF CalmTurn, AskAtWork, DraftMoves
  <2> QED
    BY <2>1, <2>2 DEF DraftMoves
<1>9. ASSUME NEW u \in Turn PROVE AloneWithAsk(u)'
  <2>1. CASE CalmTurn(turn'[u], s)
    BY <2>1 DEF CalmTurn, AloneWithAsk, CarriesAsk
  <2>2. CASE turn'[u] = turn[u]
    <3>1. CarriesAsk(u)' <=> CarriesAsk(u)
      BY <2>2 DEF CarriesAsk
    <3>2. \A v \in Turn : CarriesAsk(v)' => CarriesAsk(v) /\ turn'[v] = turn[v]
      BY DEF CarriesAsk, CalmTurn, DraftMoves
    <3>3. ASSUME CarriesAsk(u)
          PROVE  \A r \in Session : draft'[r].ask # turn[u].ask
      <4>1. turn[u].ask \in Nat /\ turn[u].ask # 0 /\ turn[u].ask <= requests
              /\ draft[s].ask # turn[u].ask
              /\ \A r \in Session : draft[r].ask # turn[u].ask
        BY <1>2, <3>3
        DEF CarriesAsk, ChooserInv, AloneWithAsk, SayRec, Ch!Request
      <4>2. e.ask # turn[u].ask
        BY <1>2, <4>1 DEF DraftMoves
      <4> QED
        BY <1>3, <4>1, <4>2
    <3>4. ASSUME CarriesAsk(u) PROVE turn[u].ask <= requests'
      <4>1. turn[u].ask \in Nat /\ turn[u].ask <= requests
        BY <1>2, <3>4 DEF ChooserInv, AloneWithAsk, SayRec, Ch!Request
      <4> QED
        BY <1>2, <1>4, <4>1
    <3> QED
      BY <2>2, <3>1, <3>2, <3>3, <3>4 DEF ChooserInv, AloneWithAsk, DraftMoves
  <2> QED
    BY <2>1, <2>2 DEF DraftMoves
<1>10. created' \subseteq 1..requests'
  BY <1>2, <1>4 DEF ChooserInv, DraftMoves
<1> QED
  BY <1>1, <1>5, <1>6, <1>7, <1>8, <1>9, <1>10 DEF ChooserInv

LEMMA AnsweredIsCalm ==
    ASSUME ChooserInv, NEW t \in Turn, turn[t].s \in Session, Ch!Answered(t)
    PROVE  /\ turn' \in [Turn -> SayRec]
           /\ turn'[t].at \in {"free", "deliver"} /\ turn'[t].ask = 0
           /\ turn'[t].at # "free" => turn'[t].s \in Session
           /\ \A u \in Turn \ {t} : turn'[u] = turn[u]
<1>1. turn \in [Turn -> SayRec]
  BY DEF ChooserInv, ChooserStores
<1>2. Ch!NoInput \in InputRec
  BY DEF Ch!NoInput, InputRec
<1>3. Ch!Free \in SayRec
  BY <1>2 DEF Ch!Free, SayRec, Ch!Steps
<1>4. [Ch!Free EXCEPT !.at = "deliver", !.s = turn[t].s] \in SayRec
  BY <1>2 DEF Ch!Free, SayRec, Ch!Steps
<1>5. PICK w \in SayRec :
        /\ turn' = [turn EXCEPT ![t] = w]
        /\ w.at \in {"free", "deliver"} /\ w.ask = 0
        /\ w.at # "free" => w.s \in Session
  <2>1. CASE turn[t].context
    BY <1>1, <1>4, <2>1 DEF Ch!Answered, Ch!Free
  <2>2. CASE ~ turn[t].context
    BY <1>1, <1>3, <2>2 DEF Ch!Answered, Ch!Free
  <2> QED
    BY <2>1, <2>2
<1> QED
  BY <1>1, <1>5

LEMMA ShownSection ==
    ASSUME ChooserInv, NEW t \in Turn, NEW s \in Session, turn[t].s = s,
           NEW e \in DraftRec, SoundDraft(e), e.work = 0,
           e.ask \in {0, draft[s].ask}, e.made => e.ask \in confirmed,
           Ch!Store(s, e), Ch!Answered(t),
           UNCHANGED <<requests, confirmed, pending, created, config>>
    PROVE  DraftMoves(s, e)
<1>1. /\ turn' \in [Turn -> SayRec]
      /\ turn'[t].at \in {"free", "deliver"} /\ turn'[t].ask = 0
      /\ turn'[t].at # "free" => turn'[t].s \in Session
      /\ \A u \in Turn \ {t} : turn'[u] = turn[u]
  BY AnsweredIsCalm
<1>2. \A u \in Turn : turn[u].at = "work" => turn[u].token # 0
  BY DEF ChooserInv, AskAtWork
<1>3. requests' \in 0..MaxRequests /\ chats' \subseteq Session
  BY DEF ChooserInv, ChooserStores, Ch!Store
<1>4. \A u \in Turn : turn'[u] = turn[u] \/ CalmTurn(turn'[u], s)
  BY <1>1 DEF CalmTurn
<1>5. \A u \in Turn : turn'[u].at = "work" => turn'[u].token # 0
  BY <1>1, <1>2
<1> QED
  BY <1>1, <1>3, <1>4, <1>5 DEF DraftMoves, Ch!Store

LEMMA NoDraftIsSound ==
    ASSUME Ch!ChooserAssumption
    PROVE  Ch!NoDraft \in DraftRec /\ SoundDraft(Ch!NoDraft)
BY DEF Ch!ChooserAssumption, Ch!NoDraft, DraftRec, SoundDraft, Ch!Steps,
       Ch!ChoiceSteps

LEMMA LeftSection ==
    ASSUME Ch!ChooserAssumption, ChooserInv, NEW t \in Turn,
           NEW s \in Session, turn[t].s = s, Ch!EnterChat(s), Ch!Answered(t),
           UNCHANGED <<requests, confirmed, pending, created, config>>
    PROVE  Ch!NoDraft \in DraftRec /\ DraftMoves(s, Ch!NoDraft)
<1>1. /\ turn' \in [Turn -> SayRec]
      /\ turn'[t].at \in {"free", "deliver"} /\ turn'[t].ask = 0
      /\ turn'[t].at # "free" => turn'[t].s \in Session
      /\ \A u \in Turn \ {t} : turn'[u] = turn[u]
  BY AnsweredIsCalm
<1>2. \A u \in Turn : turn[u].at = "work" => turn[u].token # 0
  BY DEF ChooserInv, AskAtWork
<1>3. requests' \in 0..MaxRequests /\ chats' \subseteq Session
  BY DEF ChooserInv, ChooserStores, Ch!EnterChat
<1>4. \A u \in Turn : turn'[u] = turn[u] \/ CalmTurn(turn'[u], s)
  BY <1>1 DEF CalmTurn
<1>5. \A u \in Turn : turn'[u].at = "work" => turn'[u].token # 0
  BY <1>1, <1>2
<1>6. Ch!NoDraft \in DraftRec /\ SoundDraft(Ch!NoDraft) /\ Ch!NoDraft.work = 0
        /\ Ch!NoDraft.ask = 0 /\ ~ Ch!NoDraft.made
  BY NoDraftIsSound, Ch!ChooserAssumption DEF Ch!NoDraft
<1> QED
  BY <1>1, <1>3, <1>4, <1>5, <1>6 DEF DraftMoves, Ch!EnterChat

\* The draft may stay as it is while a turn goes on.
LEMMA KeptSection ==
    ASSUME ChooserInv, NEW s \in Session,
           draft' = draft, chats' \subseteq Session,
           turn' \in [Turn -> SayRec],
           \A u \in Turn : \/ turn'[u] = turn[u]
                           \/ CalmTurn(turn'[u], s) /\ turn'[u].at # "work",
           UNCHANGED <<requests, confirmed, pending, created, config>>
    PROVE  draft[s] \in DraftRec /\ DraftMoves(s, draft[s])
<1>1. /\ draft \in [Session -> DraftRec] /\ SoundDraft(draft[s])
      /\ requests' \in 0..MaxRequests
  BY DEF ChooserInv, ChooserStores
<1>2. draft[s].made => draft[s].ask \in confirmed
  BY DEF ChooserInv, AskIsUnsent, SoundDraft
<1>3. \A u \in Turn : turn'[u].at = "work" /\ turn'[u].s = s
                         /\ turn'[u].token = draft[s].work
                            => turn'[u].ask = draft[s].ask
  BY DEF ChooserInv, AskAtWork
<1> QED
  BY <1>1, <1>2, <1>3 DEF DraftMoves

LEMMA IgnoredSection ==
    ASSUME ChooserInv, NEW t \in Turn, NEW s \in Session, turn[t].s = s,
           Ch!Keep, Ch!Answered(t),
           UNCHANGED <<requests, confirmed, pending, created, config>>
    PROVE  draft[s] \in DraftRec /\ DraftMoves(s, draft[s])
<1>1. /\ turn' \in [Turn -> SayRec]
      /\ turn'[t].at \in {"free", "deliver"} /\ turn'[t].ask = 0
      /\ turn'[t].at # "free" => turn'[t].s \in Session
      /\ \A u \in Turn \ {t} : turn'[u] = turn[u]
  BY AnsweredIsCalm
<1>2. \A u \in Turn : \/ turn'[u] = turn[u]
                      \/ CalmTurn(turn'[u], s) /\ turn'[u].at # "work"
  BY <1>1 DEF CalmTurn
<1>3. draft' = draft /\ chats' \subseteq Session
  BY DEF Ch!Keep, ChooserInv, ChooserStores
<1> QED
  BY <1>1, <1>2, <1>3, KeptSection

\* What a turn calls outside the lock is bound to an identifier of its own.
LEMMA WorkingSection ==
    ASSUME Ch!ChooserAssumption, ChooserInv, NEW t \in Turn, NEW s \in Session,
           turn[t].s = s, NEW e \in DraftRec, SoundDraft(e),
           e.work = Ch!FreshId,
           e.ask \in {0, draft[s].ask}, confirmed \subseteq confirmed',
           e.made => e.ask \in confirmed',
           Ch!Store(s, e), Ch!Working(t, e),
           UNCHANGED <<requests, pending, created, config>>
    PROVE  DraftMoves(s, e)
<1>1. Ch!FreshId \in Ch!Id /\ Ch!FreshId \notin Ch!Held /\ Ch!FreshId # 0
  BY FreshIsFree DEF Ch!Id
<1>2. turn \in [Turn -> SayRec] /\ Ch!NoInput \in InputRec
  BY DEF ChooserInv, ChooserStores, Ch!NoInput, InputRec
<1>3. PICK w \in SayRec : /\ turn' = [turn EXCEPT ![t] = w] /\ w.at = "work"
                          /\ w.s = s /\ w.token = e.work /\ w.ask = e.ask
  <2> DEFINE w == [turn[t] EXCEPT !.at = "work", !.token = e.work,
                                  !.step = e.step, !.ask = e.ask,
                                  !.input = Ch!NoInput]
  <2>1. turn' = [turn EXCEPT ![t] = w]
    BY <1>2 DEF Ch!Working
  <2>2. w \in SayRec /\ w.at = "work" /\ w.s = s /\ w.token = e.work
          /\ w.ask = e.ask
    BY <1>2 DEF SayRec, DraftRec
  <2> QED
    BY <2>1, <2>2
<1>4. \A u \in Turn : turn[u].token # Ch!FreshId
  <2>1. ASSUME NEW u \in Turn PROVE turn[u].token \in Ch!Held
    <3>1. turn[u].token \in {turn[u].input.prompt, turn[u].token}
      OBVIOUS
    <3> QED
      BY <3>1 DEF Ch!Held
  <2> QED
    BY <1>1, <2>1
<1>5. turn'[t] = w /\ \A u \in Turn \ {t} : turn'[u] = turn[u]
  BY <1>2, <1>3
<1>6. requests' \in 0..MaxRequests /\ chats' \subseteq Session
  BY DEF ChooserInv, ChooserStores, Ch!Store
<1>7. \A u \in Turn : turn'[u] = turn[u] \/ CalmTurn(turn'[u], s)
  BY <1>1, <1>3, <1>5 DEF CalmTurn
<1>8. turn' \in [Turn -> SayRec]
  BY <1>2, <1>3
<1>9. \A u \in Turn : turn'[u].token = e.work => turn'[u].ask = e.ask
  BY <1>3, <1>4, <1>5
<1> QED
  BY <1>6, <1>7, <1>8, <1>9 DEF DraftMoves, Ch!Store

LEMMA RefreshIs ==
    ASSUME Ch!ChooserAssumption, NEW d \in DraftRec
    PROVE  /\ Ch!Refresh(d) \in DraftRec
           /\ Ch!Refresh(d).step = d.step /\ Ch!Refresh(d).work = d.work
           /\ Ch!Refresh(d).ask = d.ask /\ Ch!Refresh(d).made = d.made
           /\ Ch!Refresh(d).chosen = d.chosen
<1>1. Ch!FreshId \in Ch!Id
  BY FreshIsFree
<1>2. PICK p \in {0} \cup Ch!Id :
        Ch!Refresh(d) = [d EXCEPT !.prompt = p, !.late = FALSE]
  BY <1>1 DEF Ch!Refresh
<1> QED
  BY <1>2 DEF DraftRec

LEMMA MoveIs ==
    ASSUME Ch!ChooserAssumption, NEW d \in DraftRec, NEW step \in Ch!Steps
    PROVE  /\ Ch!Move(d, step) \in DraftRec
           /\ Ch!Move(d, step).step = step /\ Ch!Move(d, step).work = d.work
           /\ Ch!Move(d, step).ask = d.ask /\ Ch!Move(d, step).made = d.made
           /\ Ch!Move(d, step).chosen = d.chosen
<1>1. /\ [d EXCEPT !.step = step] \in DraftRec
      /\ [d EXCEPT !.step = step].step = step
      /\ [d EXCEPT !.step = step].work = d.work
      /\ [d EXCEPT !.step = step].ask = d.ask
      /\ [d EXCEPT !.step = step].made = d.made
      /\ [d EXCEPT !.step = step].chosen = d.chosen
  BY DEF DraftRec
<1> QED
  BY <1>1, RefreshIs DEF Ch!Move

LEMMA ResetIs ==
    ASSUME NEW d \in DraftRec, NEW n \in 0..MaxProjects
    PROVE  /\ Ch!Reset(d, n) \in DraftRec
           /\ Ch!Reset(d, n).step = "projects" /\ Ch!Reset(d, n).work = 0
           /\ Ch!Reset(d, n).ask = 0 /\ ~ Ch!Reset(d, n).made
<1>1. PICK x \in Ch!Steps, l \in 0..2, k \in {0} \cup Ch!Request,
            v \in BOOLEAN, w \in {0} \cup Ch!Id :
        x = "projects" /\ l = 0 /\ k = 0 /\ v = FALSE /\ w = 0
  <2> /\ "projects" \in Ch!Steps /\ 0 \in 0..2 /\ 0 \in {0} \cup Ch!Request
      /\ FALSE \in BOOLEAN /\ 0 \in {0} \cup Ch!Id
    BY DEF Ch!Steps, Ch!ChoiceSteps
  <2> WITNESS "projects" \in Ch!Steps, 0 \in 0..2, 0 \in {0} \cup Ch!Request,
              FALSE \in BOOLEAN, 0 \in {0} \cup Ch!Id
  <2> QED
    OBVIOUS
<1>2. Ch!Reset(d, n) = [d EXCEPT !.step = x, !.found = n, !.chosen = l,
                                 !.left = l, !.ask = k, !.made = v, !.work = w]
  BY <1>1 DEF Ch!Reset
<1>3. /\ Ch!Reset(d, n) \in DraftRec /\ Ch!Reset(d, n).step = x
      /\ Ch!Reset(d, n).ask = k /\ Ch!Reset(d, n).made = v
      /\ Ch!Reset(d, n).work = w
  BY <1>2 DEF DraftRec
<1> QED
  BY <1>1, <1>3

\* A section that moves or keeps one draft and nothing that left the chooser.
Answering(s) == /\ \E e \in DraftRec : DraftMoves(s, e)
                /\ UNCHANGED <<checked, handed>>

\* What an outcome leaves behind: a draft that shows nothing new.
Shows(s, d) == /\ d.ask \in {0, draft[s].ask}
               /\ d.made => d.ask \in confirmed /\ d.ask # 0

LEMMA DraftIs ==
    ASSUME ChooserInv, NEW s \in Session
    PROVE  draft[s] \in DraftRec /\ SoundDraft(draft[s]) /\ Shows(s, draft[s])
BY DEF ChooserInv, ChooserStores, SoundDraft, AskIsUnsent, Shows

LEMMA ShownDone ==
    ASSUME ChooserInv, NEW t \in Turn, NEW s \in Session, turn[t].s = s,
           NEW e \in DraftRec, e.step # "none",
           e.step = "confirm" => e.ask # 0,
           e.work = 0, Shows(s, e), Ch!Shown(t, s, e), config' = config
    PROVE  Answering(s)
<1>1. SoundDraft(e)
  BY DEF SoundDraft, Shows
<1>2. /\ Ch!Store(s, e) /\ Ch!Answered(t)
      /\ UNCHANGED <<requests, confirmed, pending, created, checked, handed>>
  BY DEF Ch!Shown, Ch!NoRequest, Ch!history
<1>3. DraftMoves(s, e)
  BY <1>1, <1>2, ShownSection DEF Shows
<1> QED
  BY <1>2, <1>3 DEF Answering

LEMMA LeftDone ==
    ASSUME Ch!ChooserAssumption, ChooserInv, NEW t \in Turn, NEW s \in Session,
           turn[t].s = s, Ch!Left(t, s), config' = config
    PROVE  Answering(s)
<1>1. /\ Ch!EnterChat(s) /\ Ch!Answered(t)
      /\ UNCHANGED <<requests, confirmed, pending, created, checked, handed>>
  BY DEF Ch!Left, Ch!NoRequest, Ch!history
<1>2. Ch!NoDraft \in DraftRec /\ DraftMoves(s, Ch!NoDraft)
  BY <1>1, LeftSection
<1> QED
  BY <1>1, <1>2 DEF Answering

LEMMA IgnoredDone ==
    ASSUME ChooserInv, NEW t \in Turn, NEW s \in Session,
           turn[t].s = s, Ch!Ignored(t), config' = config
    PROVE  Answering(s)
<1>1. /\ Ch!Keep /\ Ch!Answered(t)
      /\ UNCHANGED <<requests, confirmed, pending, created, checked, handed>>
  BY DEF Ch!Ignored, Ch!NoRequest, Ch!history
<1>2. draft[s] \in DraftRec /\ DraftMoves(s, draft[s])
  BY <1>1, IgnoredSection
<1> QED
  BY <1>1, <1>2 DEF Answering

LEMMA StartWorkDone ==
    ASSUME Ch!ChooserAssumption, ChooserInv, NEW t \in Turn, NEW s \in Session,
           turn[t].s = s, NEW d \in DraftRec, d.step \in WorkSteps,
           d.step = "confirm" => d.ask # 0, Shows(s, d),
           Ch!StartWork(t, s, d), config' = config
    PROVE  Answering(s)
<1> DEFINE e == [d EXCEPT !.work = Ch!FreshId]
<1>1. e \in DraftRec /\ e.work = Ch!FreshId /\ e.step = d.step /\ e.ask = d.ask
        /\ e.made = d.made
  BY FreshIsFree DEF DraftRec
<1>2. /\ Ch!Store(s, e) /\ Ch!Working(t, e)
      /\ UNCHANGED <<requests, confirmed, pending, created, checked, handed>>
  BY DEF Ch!StartWork, Ch!NoRequest, Ch!history
<1> HIDE DEF e
<1>3. SoundDraft(e)
  BY <1>1 DEF SoundDraft, Shows, WorkSteps
<1>4. DraftMoves(s, e)
  BY <1>1, <1>2, <1>3, WorkingSection DEF Shows
<1> QED
  BY <1>1, <1>2, <1>4 DEF Answering

LEMMA DiscoverDone ==
    ASSUME Ch!ChooserAssumption, ChooserInv, NEW t \in Turn, NEW s \in Session,
           turn[t].s = s, NEW d \in DraftRec, Ch!Discover(t, s, d),
           config' = config
    PROVE  Answering(s)
<1> DEFINE a == Ch!Reset(d, 0)
           e == [a EXCEPT !.prompt = 0, !.late = FALSE]
<1>1. 0 \in 0..MaxProjects
  BY DEF Ch!ChooserAssumption
<1>2. a \in DraftRec /\ a.step = "projects" /\ a.ask = 0 /\ ~ a.made
  BY <1>1, ResetIs
<1>3. Ch!StartWork(t, s, e)
  BY DEF Ch!Discover
<1> HIDE DEF a
<1>4. e \in DraftRec /\ e.step = "projects" /\ e.ask = 0 /\ ~ e.made
  BY <1>2 DEF DraftRec
<1> HIDE DEF e
<1> QED
  BY <1>3, <1>4, StartWorkDone DEF Shows, WorkSteps

LEMMA PreviewDone ==
    ASSUME Ch!ChooserAssumption, ChooserInv, NEW t \in Turn, NEW s \in Session,
           turn[t].s = s, NEW d \in DraftRec, d.work = 0, Ch!Preview(t, s, d),
           config' = config
    PROVE  Answering(s)
<1> DEFINE a == [d EXCEPT !.ask = requests + 1, !.made = FALSE]
           e == Ch!Move(a, "confirm")
<1>1. /\ turn'[t].at \in {"free", "deliver"} /\ turn'[t].ask = 0
      /\ turn' \in [Turn -> SayRec]
      /\ turn'[t].at # "free" => turn'[t].s \in Session
      /\ \A u \in Turn \ {t} : turn'[u] = turn[u]
  BY AnsweredIsCalm DEF Ch!Preview
<1>2. requests + 1 \in Ch!Request /\ requests' = requests + 1
        /\ requests' \in 0..MaxRequests /\ requests + 1 # 0
  BY DEF Ch!Preview, ChooserInv, ChooserStores, Ch!Request,
         Ch!ChooserAssumption
<1>3. a \in DraftRec /\ a.work = 0 /\ a.ask = requests + 1 /\ ~ a.made
  BY <1>2 DEF DraftRec
<1>4. /\ Ch!Store(s, e)
      /\ UNCHANGED <<confirmed, pending, created, checked, handed>>
  BY DEF Ch!Preview, Ch!history
<1> HIDE DEF a
<1>5. /\ e \in DraftRec /\ e.step = "confirm" /\ e.work = 0
      /\ e.ask = requests + 1 /\ ~ e.made
  BY <1>3, MoveIs DEF Ch!Steps, Ch!ChoiceSteps
<1> HIDE DEF e
<1>6. SoundDraft(e)
  BY <1>2, <1>5 DEF SoundDraft
<1>7. \A u \in Turn : turn'[u].at = "work" => turn'[u].token # 0
  BY <1>1 DEF ChooserInv, AskAtWork
<1>8. \A u \in Turn : turn'[u] = turn[u] \/ CalmTurn(turn'[u], s)
  BY <1>1 DEF CalmTurn
<1>9. chats' \subseteq Session
  BY <1>4 DEF Ch!Store, ChooserInv, ChooserStores
<1>10. DraftMoves(s, e)
  BY <1>1, <1>2, <1>4, <1>5, <1>6, <1>7, <1>8, <1>9 DEF DraftMoves, Ch!Store
<1> QED
  BY <1>4, <1>5, <1>10 DEF Answering

LEMMA ContentDone ==
    ASSUME Ch!ChooserAssumption, ChooserInv, NEW t \in Turn, NEW s \in Session,
           turn[t].s = s, NEW d \in DraftRec, d.work = 0, Shows(s, d),
           Ch!Content(t, s, d), config' = config
    PROVE  Answering(s)
<1>1. CASE d.first
  BY <1>1, PreviewDone DEF Ch!Content
<1>2. CASE ~ d.first
  <2>1. Ch!Shown(t, s, Ch!Move(d, "content"))
    BY <1>2 DEF Ch!Content
  <2>2. /\ Ch!Move(d, "content") \in DraftRec /\ Ch!Move(d, "content").work = 0
        /\ Ch!Move(d, "content").step = "content"
        /\ Shows(s, Ch!Move(d, "content"))
    BY MoveIs DEF Ch!Steps, Shows
  <2> QED
    BY <2>1, <2>2, ShownDone
<1> QED
  BY <1>1, <1>2

LEMMA RefreshDone ==
    ASSUME Ch!ChooserAssumption, ChooserInv, NEW t \in Turn, NEW s \in Session,
           turn[t].s = s, NEW d \in DraftRec, d.step # "none",
           d.step = "confirm" => d.ask # 0, d.work = 0, Shows(s, d),
           Ch!Shown(t, s, Ch!Refresh(d)), config' = config
    PROVE  Answering(s)
BY RefreshIs, ShownDone DEF Shows

LEMMA MoveDone ==
    ASSUME Ch!ChooserAssumption, ChooserInv, NEW t \in Turn, NEW s \in Session,
           turn[t].s = s, NEW d \in DraftRec, d.work = 0, Shows(s, d),
           NEW step \in Ch!Steps \ {"none", "confirm"},
           Ch!Shown(t, s, Ch!Move(d, step)), config' = config
    PROVE  Answering(s)
BY MoveIs, ShownDone DEF Shows

LEMMA ResetMoveDone ==
    ASSUME Ch!ChooserAssumption, ChooserInv, NEW t \in Turn, NEW s \in Session,
           turn[t].s = s, NEW d \in DraftRec, NEW n \in 0..MaxProjects,
           NEW step \in Ch!Steps \ {"none", "confirm"},
           Ch!Shown(t, s, Ch!Move(Ch!Reset(d, n), step)), config' = config
    PROVE  Answering(s)
BY ResetIs, MoveDone DEF Shows

LEMMA ModeDone ==
    ASSUME Ch!ChooserAssumption, ChooserInv, NEW t \in Turn, NEW s \in Session,
           turn[t].s = s, NEW d, d = draft[s], config' = config,
           NEW word, d.step = "mode", Ch!Mode(t, s, d, word)
    PROVE  Answering(s)
<1>1. d \in DraftRec /\ Shows(s, d) /\ d.work = 0
  BY DraftIs DEF SoundDraft, WorkSteps
<1>2. CASE word = "chat"
  BY <1>2, LeftDone DEF Ch!Mode
<1>3. CASE word = "task" /\ turn[t].context
  BY <1>1, <1>3, DiscoverDone DEF Ch!Mode
<1>4. CASE word = "task" /\ ~ turn[t].context
  <2>1. Ch!Shown(t, s, Ch!Move(Ch!Reset(d, 0), "flow"))
    BY <1>4 DEF Ch!Mode
  <2>2. 0 \in 0..MaxProjects /\ "flow" \in Ch!Steps \ {"none", "confirm"}
    BY DEF Ch!ChooserAssumption, Ch!Steps, Ch!ChoiceSteps
  <2> QED
    BY <1>1, <2>1, <2>2, ResetMoveDone
<1>5. CASE word \notin {"chat", "task"}
  <2>1. Ch!Shown(t, s, Ch!Refresh(d))
    BY <1>5 DEF Ch!Mode
  <2> QED
    BY <1>1, <2>1, RefreshDone
<1> QED
  BY <1>2, <1>3, <1>4, <1>5

LEMMA ProjectsDone ==
    ASSUME Ch!ChooserAssumption, ChooserInv, NEW t \in Turn, NEW s \in Session,
           turn[t].s = s, NEW d, d = draft[s], config' = config,
           NEW word, Ch!Projects(t, s, d, word)
    PROVE  Answering(s)
<1>1. d \in DraftRec /\ d.found \in 0..MaxProjects /\ 0 \in 0..MaxProjects
  BY DraftIs DEF DraftRec, Ch!ChooserAssumption
<1>2. "path" \in Ch!Steps \ {"none", "confirm"}
        /\ "flow" \in Ch!Steps \ {"none", "confirm"}
  BY DEF Ch!Steps, Ch!ChoiceSteps
<1>3. ASSUME NEW k \in 0..2,
             Ch!Shown(t, s, Ch!Move([Ch!Reset(d, 0) EXCEPT !.chosen = k],
                                    "flow"))
      PROVE  Answering(s)
  <2> DEFINE r == Ch!Reset(d, 0)
             e == [r EXCEPT !.chosen = k]
  <2>1. r \in DraftRec /\ r.work = 0 /\ r.ask = 0 /\ ~ r.made
    BY <1>1, ResetIs
  <2> HIDE DEF r
  <2>2. e \in DraftRec /\ e.work = 0 /\ e.ask = 0 /\ ~ e.made
    BY <2>1 DEF DraftRec
  <2>3. Ch!Shown(t, s, Ch!Move(e, "flow"))
    BY <1>3 DEF r
  <2> HIDE DEF e
  <2> QED
    BY <1>2, <2>2, <2>3, MoveDone DEF Shows
<1>4. \/ Ch!Ignored(t) \/ Ch!Left(t, s)
      \/ Ch!Discover(t, s, d)
      \/ Ch!Shown(t, s, Ch!Move(Ch!Reset(d, d.found), "path"))
      \/ Ch!Shown(t, s, Ch!Move([Ch!Reset(d, 0) EXCEPT !.chosen = 1], "flow"))
      \/ Ch!Shown(t, s, Ch!Move([Ch!Reset(d, 0) EXCEPT !.chosen = 2], "flow"))
  BY Zenon DEF Ch!Projects
<1>5. CASE Ch!Shown(t, s, Ch!Move(Ch!Reset(d, d.found), "path"))
  BY <1>1, <1>2, <1>5, ResetMoveDone
<1> QED
  BY <1>1, <1>3, <1>4, <1>5, LeftDone, IgnoredDone, DiscoverDone

LEMMA PathDone ==
    ASSUME Ch!ChooserAssumption, ChooserInv, NEW t \in Turn, NEW s \in Session,
           turn[t].s = s, NEW d, d = draft[s], config' = config,
           d.step = "path", Ch!Path(t, s, d)
    PROVE  Answering(s)
<1>1. d \in DraftRec /\ Shows(s, d)
  BY DraftIs
<1>2. CASE Ch!Ignored(t)
  BY <1>2, IgnoredDone
<1>3. CASE Ch!StartWork(t, s, Ch!Refresh(d))
  BY <1>1, <1>3, RefreshIs, StartWorkDone DEF Shows, WorkSteps
<1> QED
  BY <1>2, <1>3 DEF Ch!Path

LEMMA BindDone ==
    ASSUME Ch!ChooserAssumption, ChooserInv, NEW t \in Turn, NEW s \in Session,
           turn[t].s = s, NEW d, d = draft[s], config' = config,
           d.step \in {"branch", "branch_name"}, Ch!Bind(t, s, d)
    PROVE  Answering(s)
<1> DEFINE e == [d EXCEPT !.prompt = 0, !.late = FALSE]
<1>1. d \in DraftRec /\ Shows(s, d)
  BY DraftIs
<1>2. CASE Ch!Ignored(t)
  BY <1>2, IgnoredDone
<1>3. CASE Ch!StartWork(t, s, e)
  <2>1. e \in DraftRec /\ e.step = d.step /\ e.ask = d.ask /\ e.made = d.made
    BY <1>1 DEF DraftRec
  <2> HIDE DEF e
  <2> QED
    BY <1>1, <1>3, <2>1, StartWorkDone DEF Shows, WorkSteps
<1> QED
  BY <1>2, <1>3 DEF Ch!Bind

LEMMA BranchDone ==
    ASSUME Ch!ChooserAssumption, ChooserInv, NEW t \in Turn, NEW s \in Session,
           turn[t].s = s, NEW d, d = draft[s], config' = config,
           NEW word, d.step = "branch", Ch!Branch(t, s, d, word)
    PROVE  Answering(s)
<1>1. d \in DraftRec /\ Shows(s, d)
  BY DraftIs
<1>2. \/ Ch!Ignored(t) \/ Ch!Bind(t, s, d)
      \/ d.work = 0 /\ Ch!Shown(t, s, Ch!Move(d, "branch_name"))
      \/ d.work = 0 /\ Ch!Shown(t, s, Ch!Refresh(d))
  BY <1>1 DEF Ch!Branch
<1>3. "branch_name" \in Ch!Steps \ {"none", "confirm"}
  BY DEF Ch!Steps
<1> QED
  BY <1>1, <1>2, <1>3, IgnoredDone, BindDone, MoveDone, RefreshDone

LEMMA MergeDone ==
    ASSUME Ch!ChooserAssumption, ChooserInv, NEW t \in Turn, NEW s \in Session,
           turn[t].s = s, NEW d, d = draft[s], config' = config,
           NEW word, d.step = "merge", Ch!Merge(t, s, d, word)
    PROVE  Answering(s)
<1> DEFINE e == [d EXCEPT !.left = d.chosen]
<1>1. d \in DraftRec /\ Shows(s, d) /\ d.work = 0
  BY DraftIs DEF SoundDraft, WorkSteps
<1>2. \/ Ch!Shown(t, s, Ch!Move(e, "order"))
      \/ Ch!Content(t, s, d)
      \/ Ch!Shown(t, s, Ch!Refresh(d))
  BY DEF Ch!Merge
<1>3. CASE Ch!Shown(t, s, Ch!Move(e, "order"))
  <2>1. e \in DraftRec /\ e.work = 0 /\ Shows(s, e)
    BY <1>1 DEF DraftRec, Shows
  <2>2. "order" \in Ch!Steps \ {"none", "confirm"}
    BY DEF Ch!Steps, Ch!ChoiceSteps
  <2> HIDE DEF e
  <2> QED
    BY <1>3, <2>1, <2>2, MoveDone
<1> QED
  BY <1>1, <1>2, <1>3, ContentDone, RefreshDone

LEMMA OrderDone ==
    ASSUME Ch!ChooserAssumption, ChooserInv, NEW t \in Turn, NEW s \in Session,
           turn[t].s = s, NEW d, d = draft[s], config' = config,
           NEW word, d.step = "order", Ch!Order(t, s, d, word)
    PROVE  Answering(s)
<1> DEFINE e(k) == [d EXCEPT !.left = k]
<1>1. d \in DraftRec /\ Shows(s, d) /\ d.work = 0
  BY DraftIs DEF SoundDraft, WorkSteps
<1>2. \A k \in 0..2 : /\ e(k) \in DraftRec /\ e(k).work = 0
                       /\ Shows(s, e(k)) /\ e(k).step = "order"
  BY <1>1 DEF DraftRec, Shows
<1>3. d.left \in 0..2
  BY <1>1 DEF DraftRec
<1>4. \/ d.left > 1 /\ Ch!Shown(t, s, Ch!Refresh(e(d.left - 1)))
      \/ Ch!Content(t, s, e(0))
      \/ Ch!Ignored(t)
  BY <1>1, <1>3 DEF Ch!Order, DraftRec
<1>5. CASE d.left > 1 /\ Ch!Shown(t, s, Ch!Refresh(e(d.left - 1)))
  <2>1. PICK k \in 0..2 : k = d.left - 1
    BY <1>3, <1>5
  <2>2. Ch!Shown(t, s, Ch!Refresh(e(k)))
    BY <1>5, <2>1
  <2> HIDE DEF e
  <2> QED
    BY <1>2, <2>2, RefreshDone
<1>6. CASE Ch!Content(t, s, e(0))
  <2>1. 0 \in 0..2
    OBVIOUS
  <2> HIDE DEF e
  <2> QED
    BY <1>2, <1>6, <2>1, ContentDone
<1> QED
  BY <1>4, <1>5, <1>6, IgnoredDone

\* The other outcome: a confirmed request leaves the conversation.
Finishing(t, s) == draft[s].step = "confirm" /\ Ch!Finish(t, s, draft[s])

LEMMA ValidateDone ==
    ASSUME Ch!ChooserAssumption, ChooserInv, NEW t \in Turn, NEW s \in Session,
           turn[t].s = s, NEW d, d = draft[s], config' = config,
           d.step = "confirm", Ch!Validate(t, s, d)
    PROVE  Answering(s)
<1> DEFINE e == [d EXCEPT !.made = TRUE, !.work = Ch!FreshId]
<1>1. d \in DraftRec /\ d.ask # 0
  BY DraftIs DEF SoundDraft
<1>2. /\ e \in DraftRec /\ e.step = "confirm" /\ e.ask = d.ask
      /\ e.work = Ch!FreshId
  BY <1>1, FreshIsFree DEF DraftRec
<1>3. /\ Ch!Store(s, e) /\ Ch!Working(t, e)
      /\ confirmed' = confirmed \cup {d.ask}
      /\ UNCHANGED <<pending, requests, created, checked, handed>>
  BY DEF Ch!Validate
<1> HIDE DEF e
<1>4. SoundDraft(e)
  BY <1>1, <1>2 DEF SoundDraft, WorkSteps
<1>5. DraftMoves(s, e)
  BY <1>2, <1>3, <1>4, WorkingSection
<1> QED
  BY <1>2, <1>3, <1>5 DEF Answering

LEMMA ConfirmDone ==
    ASSUME Ch!ChooserAssumption, ChooserInv, NEW t \in Turn, NEW s \in Session,
           turn[t].s = s, NEW d, d = draft[s], config' = config,
           NEW word, d.step = "confirm", Ch!Confirm(t, s, d, word)
    PROVE  Answering(s) \/ Finishing(t, s)
<1>1. d \in DraftRec /\ Shows(s, d) /\ d.ask # 0
  BY DraftIs DEF SoundDraft
<1>2. \/ Ch!Left(t, s) \/ Ch!Ignored(t)
      \/ d.work = 0 /\ Ch!Shown(t, s, Ch!Refresh(d))
      \/ Ch!Finish(t, s, d)
      \/ Ch!Validate(t, s, d)
      \/ Ch!Shown(t, s, Ch!Refresh(Ch!Reset(d, 0)))
  BY <1>1 DEF Ch!Confirm
<1>3. CASE Ch!Shown(t, s, Ch!Refresh(Ch!Reset(d, 0)))
  <2>1. 0 \in 0..MaxProjects
    BY DEF Ch!ChooserAssumption
  <2>2. /\ Ch!Reset(d, 0) \in DraftRec /\ Ch!Reset(d, 0).step = "projects"
        /\ Ch!Reset(d, 0).work = 0 /\ Shows(s, Ch!Reset(d, 0))
    BY <1>1, <2>1, ResetIs DEF Shows
  <2> QED
    BY <1>3, <2>2, RefreshDone
<1>4. CASE d.work = 0 /\ Ch!Shown(t, s, Ch!Refresh(d))
  BY <1>1, <1>4, RefreshDone
<1>5. CASE Ch!Finish(t, s, d)
  BY <1>5 DEF Finishing
<1> QED
  BY <1>2, <1>3, <1>4, <1>5, LeftDone, IgnoredDone, ValidateDone

LEMMA StepDone ==
    ASSUME Ch!ChooserAssumption, ChooserInv, NEW t \in Turn, NEW s \in Session,
           turn[t].s = s, NEW d, d = draft[s], config' = config,
           NEW word, d.step # "none", Ch!Step(t, s, d, word)
    PROVE  Answering(s) \/ Finishing(t, s)
<1>1. d \in DraftRec /\ Shows(s, d) /\ d.step \in Ch!Steps /\ SoundDraft(d)
  BY DraftIs DEF DraftRec
<1>2. CASE d.step = "mode"
  BY <1>2, ModeDone DEF Ch!Step
<1>3. CASE d.step = "projects"
  BY <1>3, ProjectsDone DEF Ch!Step
<1>4. CASE d.step = "path"
  BY <1>4, PathDone DEF Ch!Step
<1>5. CASE d.step = "remote"
  <2>1. d.work = 0
    BY <1>1, <1>5 DEF SoundDraft, WorkSteps
  <2>2. Ch!Shown(t, s, Ch!Move(d, "branch")) \/ Ch!Shown(t, s, Ch!Refresh(d))
    BY <1>5 DEF Ch!Step
  <2>3. "branch" \in Ch!Steps \ {"none", "confirm"}
    BY DEF Ch!Steps, Ch!ChoiceSteps
  <2> QED
    BY <1>1, <1>5, <2>1, <2>2, <2>3, MoveDone, RefreshDone
<1>6. CASE d.step = "branch"
  BY <1>6, BranchDone DEF Ch!Step
<1>7. CASE d.step = "branch_name"
  <2>1. Ch!Ignored(t) \/ Ch!Bind(t, s, d)
    BY <1>7 DEF Ch!Step
  <2> QED
    BY <1>7, <2>1, IgnoredDone, BindDone
<1>8. CASE d.step = "flow"
  <2> DEFINE e == [d EXCEPT !.ask = 0, !.made = FALSE]
  <2>1. d.work = 0
    BY <1>1, <1>8 DEF SoundDraft, WorkSteps
  <2>2. Ch!Shown(t, s, Ch!Move(e, "merge")) \/ Ch!Shown(t, s, Ch!Refresh(d))
    BY <1>8 DEF Ch!Step
  <2>3. "merge" \in Ch!Steps \ {"none", "confirm"}
    BY DEF Ch!Steps, Ch!ChoiceSteps
  <2>4. e \in DraftRec /\ e.work = 0 /\ Shows(s, e)
    <3>1. 0 \in {0} \cup Ch!Request
      OBVIOUS
    <3>2. e \in DraftRec /\ e.work = d.work /\ e.ask = 0 /\ ~ e.made
      BY <1>1, <3>1 DEF DraftRec
    <3> QED
      BY <2>1, <3>2 DEF Shows
  <2> HIDE DEF e
  <2> QED
    BY <1>1, <1>8, <2>1, <2>2, <2>3, <2>4, MoveDone, RefreshDone
<1>9. CASE d.step = "merge"
  BY <1>9, MergeDone DEF Ch!Step
<1>10. CASE d.step = "order"
  BY <1>10, OrderDone DEF Ch!Step
<1>11. CASE d.step = "content"
  <2>1. d.work = 0 /\ Ch!Preview(t, s, d)
    BY <1>1, <1>11 DEF SoundDraft, WorkSteps, Ch!Step
  <2> QED
    BY <1>1, <2>1, PreviewDone
<1>12. CASE d.step = "confirm"
  BY <1>12, ConfirmDone DEF Ch!Step
<1> QED
  BY <1>1, <1>2, <1>3, <1>4, <1>5, <1>6, <1>7, <1>8, <1>9, <1>10, <1>11,
     <1>12 DEF Ch!Steps, Ch!ChoiceSteps

LEMMA NewDraftIs ==
    ASSUME Ch!ChooserAssumption, NEW first \in BOOLEAN
    PROVE  /\ Ch!NewDraft(first) \in DraftRec
           /\ Ch!NewDraft(first).step \in {"mode", "flow"}
           /\ Ch!NewDraft(first).work = 0 /\ Ch!NewDraft(first).ask = 0
           /\ ~ Ch!NewDraft(first).made
<1> DEFINE step == IF first THEN "mode" ELSE "flow"
           e == [Ch!NoDraft EXCEPT !.step = step, !.first = first]
<1>1. step \in Ch!Steps /\ step \in {"mode", "flow"}
  BY DEF Ch!Steps, Ch!ChoiceSteps
<1>2. Ch!NewDraft(first) = Ch!Refresh(e)
  BY DEF Ch!NewDraft
<1>3. Ch!NoDraft \in DraftRec /\ Ch!NoDraft.work = 0 /\ Ch!NoDraft.ask = 0
        /\ ~ Ch!NoDraft.made
  BY NoDraftIsSound DEF Ch!NoDraft
<1> HIDE DEF step
<1>4. /\ e \in DraftRec /\ e.step = step /\ e.work = 0 /\ e.ask = 0
      /\ ~ e.made
  BY <1>1, <1>3 DEF DraftRec
<1> HIDE DEF e
<1> QED
  BY <1>1, <1>2, <1>4, RefreshIs

LEMMA NewDraftDone ==
    ASSUME Ch!ChooserAssumption, ChooserInv, NEW t \in Turn, NEW s \in Session,
           turn[t].s = s, config' = config, NEW first \in BOOLEAN,
           Ch!Discover(t, s, Ch!NewDraft(first))
               \/ Ch!Shown(t, s, Ch!NewDraft(first))
    PROVE  Answering(s)
<1>1. /\ Ch!NewDraft(first) \in DraftRec
      /\ Ch!NewDraft(first).step # "none"
      /\ Ch!NewDraft(first).step # "confirm"
      /\ Ch!NewDraft(first).work = 0 /\ Shows(s, Ch!NewDraft(first))
  BY NewDraftIs DEF Shows
<1> QED
  BY <1>1, DiscoverDone, ShownDone

LEMMA HandleTextDone ==
    ASSUME Ch!ChooserAssumption, ChooserInv, NEW t \in Turn, NEW s \in Session,
           turn[t].s = s, NEW input, config' = config,
           Ch!HandleText(t, s, input)
    PROVE  Answering(s) \/ Finishing(t, s)
<1> DEFINE old == draft[s]
           d == IF input.new \/ old.late THEN Ch!NoDraft ELSE old
<1>1. \/ Ch!Discover(t, s, Ch!NewDraft(FALSE))
            \/ Ch!Shown(t, s, Ch!NewDraft(FALSE))
      \/ Ch!Left(t, s) \/ Ch!Ignored(t) \/ Ch!Shown(t, s, Ch!NewDraft(TRUE))
      \/ d # Ch!NoDraft /\ Ch!Step(t, s, d, input.word)
  BY DEF Ch!HandleText
<1>2. CASE d # Ch!NoDraft /\ Ch!Step(t, s, d, input.word)
  <2>1. d = draft[s] /\ d.step # "none"
    BY <1>2, DraftIs DEF SoundDraft
  <2> QED
    BY <1>2, <2>1, StepDone
<1> QED
  BY <1>1, <1>2, NewDraftDone, LeftDone, IgnoredDone

LEMMA HandleSubmissionDone ==
    ASSUME Ch!ChooserAssumption, ChooserInv, NEW t \in Turn, NEW s \in Session,
           turn[t].s = s, NEW input, Ch!Structured(input), config' = config,
           Ch!HandleSubmission(t, s, input)
    PROVE  Answering(s) \/ Finishing(t, s)
<1>1. CASE input.new
  <2>1. /\ Ch!Store(s, Ch!NoDraft) /\ Ch!Answered(t)
        /\ UNCHANGED <<requests, confirmed, pending, created, checked, handed>>
    BY <1>1 DEF Ch!HandleSubmission, Ch!Store, Ch!NoRequest, Ch!history
  <2>2. Ch!NoDraft \in DraftRec /\ SoundDraft(Ch!NoDraft)
          /\ Ch!NoDraft.work = 0
          /\ Ch!NoDraft.ask = 0 /\ ~ Ch!NoDraft.made
    BY NoDraftIsSound DEF Ch!NoDraft
  <2>3. DraftMoves(s, Ch!NoDraft)
    BY <2>1, <2>2, ShownSection
  <2> QED
    BY <2>1, <2>2, <2>3 DEF Answering
<1>2. CASE ~ input.new /\ draft[s].prompt = input.prompt /\ ~ draft[s].late
  <2>1. Ch!Step(t, s, draft[s], input.word)
    BY <1>2 DEF Ch!HandleSubmission
  <2>2. draft[s].step # "none"
    BY <1>2, DraftIs DEF SoundDraft, Ch!NoDraft, Ch!Structured
  <2> QED
    BY <2>1, <2>2, StepDone
<1>3. CASE ~ input.new /\ ~ (draft[s].prompt = input.prompt /\ ~ draft[s].late)
  <2>1. Ch!Ignored(t)
    BY <1>3 DEF Ch!HandleSubmission
  <2> QED
    BY <2>1, IgnoredDone
<1> QED
  BY <1>1, <1>2, <1>3

LEMMA HandleDone ==
    ASSUME Ch!ChooserAssumption, ChooserInv, NEW t \in Turn, NEW s \in Session,
           turn[t].s = s, NEW input, config' = config, Ch!Handle(t, s, input)
    PROVE  Answering(s) \/ Finishing(t, s)
BY HandleTextDone, HandleSubmissionDone DEF Ch!Handle

LEMMA NoInputIs == Ch!NoInput \in InputRec
BY DEF Ch!NoInput, InputRec

LEMMA FreeIs == Ch!Free \in SayRec /\ Ch!Free.at = "free" /\ Ch!Free.ask = 0
BY NoInputIs DEF Ch!Free, SayRec, Ch!Steps

\* A request leaves the draft for the turn and, without callbacks, for its
\* place among the pending Tasks.
LEMMA ChooserFinishStep ==
    ASSUME Ch!ChooserAssumption, ChooserInv, NEW t \in Turn, NEW s \in Session,
           turn[t].s = s, Finishing(t, s), config' = config,
           failed' \in [Session -> InputRec], chooserFaults' = chooserFaults
    PROVE  ChooserInv'
<1> DEFINE ask == draft[s].ask
<1>1. /\ draft \in [Session -> DraftRec] /\ turn \in [Turn -> SayRec]
      /\ pending \in [Session -> PendingRec] /\ requests \in Nat
  BY DEF ChooserInv, ChooserStores
<1>2. /\ ask # 0 /\ ask <= requests /\ ask \notin created /\ ask \in Ch!Request
      /\ \A r \in Session \ {s} : draft[r].ask # ask
      /\ \A r \in Session : pending[r].ask # ask
  BY <1>1 DEF Finishing, ChooserInv, SoundDraft, AskIsUnsent, DraftRec
<1>3. /\ draft' = [draft EXCEPT ![s] = Ch!NoDraft] /\ chats' = chats \cup {s}
      /\ confirmed' = confirmed \cup {ask}
      /\ UNCHANGED <<requests, checked, handed, created>>
  BY DEF Finishing, Ch!Finish, Ch!EnterChat
<1>4. Ch!NoDraft \in DraftRec /\ SoundDraft(Ch!NoDraft) /\ Ch!NoDraft.ask = 0
        /\ Ch!NoDraft.work = 0
  BY NoDraftIsSound DEF Ch!NoDraft
<1>5. PICK w \in SayRec :
        /\ turn' = [turn EXCEPT ![t] = w] /\ w.ask = ask /\ w.s = s
        /\ \/ w.at = "deliver" /\ pending' = pending
           \/ /\ w.at = "serve"
              /\ pending'
                    = [pending EXCEPT ![s] = [ask |-> ask, flying |-> TRUE]]
  <2> DEFINE v(place) == [turn[t] EXCEPT !.at = place, !.ask = ask]
  <2>1. \A place \in {"deliver", "serve"} :
          /\ v(place) \in SayRec /\ v(place).at = place
          /\ v(place).ask = ask /\ v(place).s = s
    BY <1>1, <1>2 DEF SayRec
  <2>2. \/ turn' = [turn EXCEPT ![t] = v("deliver")] /\ pending' = pending
        \/ /\ turn' = [turn EXCEPT ![t] = v("serve")]
           /\ pending' = [pending EXCEPT ![s] = [ask |-> ask, flying |-> TRUE]]
    BY <1>1 DEF Finishing, Ch!Finish, Ch!Accept
  <2> HIDE DEF v, ask
  <2> QED
    BY <2>1, <2>2
<1> HIDE DEF ask
<1>6. /\ turn'[t] = w /\ \A u \in Turn \ {t} : turn'[u] = turn[u]
      /\ draft'[s] = Ch!NoDraft
            /\ \A r \in Session \ {s} : draft'[r] = draft[r]
  BY <1>1, <1>3, <1>5
<1>7. [ask |-> ask, flying |-> TRUE] \in PendingRec
  BY <1>2 DEF PendingRec
<1>8. /\ \A r \in Session \ {s} : pending'[r] = pending[r]
      /\ \/ w.at = "deliver" /\ pending'[s] = pending[s]
         \/ w.at = "serve" /\ pending'[s].ask = ask /\ pending'[s].flying
      /\ pending' \in [Session -> PendingRec]
  <2>1. CASE w.at = "deliver" /\ pending' = pending
    BY <1>1, <2>1
  <2>2. CASE /\ w.at = "serve"
             /\ pending'
                   = [pending EXCEPT ![s] = [ask |-> ask, flying |-> TRUE]]
    BY <1>1, <1>7, <2>2
  <2> QED
    BY <1>5, <2>1, <2>2
<1>9. ChooserStores'
  <2>1. /\ draft' \in [Session -> DraftRec] /\ turn' \in [Turn -> SayRec]
        /\ chats' \subseteq Session
    BY <1>1, <1>3, <1>4, <1>5 DEF ChooserInv, ChooserStores
  <2> QED
    BY <1>3, <1>5, <1>6, <1>8, <2>1 DEF ChooserInv, ChooserStores
<1>10. ASSUME NEW r \in Session PROVE SoundDraft(draft[r])'
  <2>1. CASE r = s
    BY <1>4, <1>6, <2>1 DEF SoundDraft
  <2>2. CASE r # s
    BY <1>6, <2>2 DEF ChooserInv, SoundDraft
  <2> QED
    BY <2>1, <2>2
<1>11. ASSUME NEW r \in Session PROVE AskIsUnsent(r)'
  <2>1. CASE r = s
    BY <1>4, <1>6, <2>1 DEF AskIsUnsent
  <2>2. CASE r # s
    BY <1>2, <1>3, <1>4, <1>6, <1>8, <2>2 DEF ChooserInv, AskIsUnsent
  <2> QED
    BY <2>1, <2>2
<1>12. ASSUME NEW r \in Session PROVE AskWaits(r)'
  BY <1>2, <1>3, <1>8 DEF ChooserInv, AskWaits
<1>13. ASSUME NEW u \in Turn PROVE AskAtWork(u)'
  <2>1. CASE u = t
    BY <1>5, <1>6, <2>1 DEF AskAtWork
  <2>2. CASE u # t
    <3>1. turn[u].at = "work" => turn[u].s \in Session /\ turn[u].token # 0
      BY DEF ChooserInv, ChooserStores, AskAtWork
    <3> QED
      BY <1>4, <1>6, <2>2, <3>1 DEF ChooserInv, AskAtWork
  <2> QED
    BY <2>1, <2>2
<1>14. ASSUME NEW u \in Turn, u # t
       PROVE  /\ turn'[u] = turn[u] /\ (CarriesAsk(u)' <=> CarriesAsk(u))
              /\ CarriesAsk(u) => turn[u].ask # ask
  BY <1>6, <1>14 DEF CarriesAsk, ChooserInv, AloneWithAsk, ask
<1>15. ASSUME NEW u \in Turn PROVE AloneWithAsk(u)'
  <2>1. CASE u = t
    <3>1. /\ ask <= requests' /\ ask \in confirmed' \ created'
          /\ \A r \in Session : draft'[r].ask # ask
      BY <1>2, <1>3, <1>4, <1>6
    <3>2. ASSUME NEW v \in Turn, v # t, CarriesAsk(v)' PROVE turn'[v].ask # ask
      BY <1>14, <3>2
    <3>3. ASSUME NEW r \in Session, pending'[r].ask = ask
          PROVE  w.at = "serve" /\ r = s /\ pending'[r].flying
      BY <1>2, <1>8, <3>3
    <3> QED
      BY <1>2, <1>5, <1>6, <2>1, <3>1, <3>2, <3>3 DEF AloneWithAsk
  <2>2. CASE u # t
    <3>1. CASE CarriesAsk(u)
      <4>1. /\ turn[u].ask <= requests /\ turn[u].ask \in confirmed \ created
            /\ turn[u].ask # 0
            /\ \A r \in Session : draft[r].ask # turn[u].ask
            /\ \A v \in Turn : v # u /\ CarriesAsk(v)
                  => turn[v].ask # turn[u].ask
            /\ \A r \in Session : pending[r].ask = turn[u].ask
                 => turn[u].at = "serve" /\ r = turn[u].s /\ pending[r].flying
        BY <3>1 DEF ChooserInv, AloneWithAsk, CarriesAsk
      <4>2. turn[u].ask # ask /\ turn'[u] = turn[u]
        BY <1>14, <2>2, <3>1
      <4>3. \A v \in Turn : v # u /\ CarriesAsk(v)'
              => turn'[v].ask # turn[u].ask
        <5>1. ASSUME NEW v \in Turn, v # u, CarriesAsk(v)', v = t
              PROVE  turn'[v].ask # turn[u].ask
          BY <1>5, <1>6, <4>2, <5>1
        <5>2. ASSUME NEW v \in Turn, v # u, CarriesAsk(v)', v # t
              PROVE  turn'[v].ask # turn[u].ask
          BY <1>14, <4>1, <5>2
        <5> QED
          BY <5>1, <5>2
      <4>4. \A r \in Session : draft'[r].ask # turn[u].ask
        BY <1>4, <1>6, <4>1
      <4>5. \A r \in Session : pending'[r].ask = turn[u].ask
              => turn[u].at = "serve" /\ r = turn[u].s /\ pending'[r].flying
        BY <1>8, <4>1, <4>2
      <4> QED
        BY <1>3, <3>1, <4>1, <4>2, <4>3, <4>4, <4>5
        DEF AloneWithAsk, CarriesAsk
    <3>2. CASE ~ CarriesAsk(u)
      BY <1>14, <2>2, <3>2 DEF ChooserInv, AloneWithAsk
    <3> QED
      BY <3>1, <3>2
  <2> QED
    BY <2>1, <2>2
<1>16. handed' \subseteq confirmed' \cap checked'
         /\ created' \subseteq 1..requests'
  BY <1>3 DEF ChooserInv
<1> QED
  BY <1>9, <1>10, <1>11, <1>12, <1>13, <1>15, <1>16 DEF ChooserInv

LEMMA ChooserApplyStep ==
    ASSUME Ch!ChooserAssumption, ChooserInv, NEW t \in Turn, Ch!Apply(t)
    PROVE  ChooserInv'
<1> DEFINE s == turn[t].s
           input == turn[t].input
<1>1. s \in Session /\ config' = config /\ input \in InputRec
  BY DEF Ch!Apply, ChooserInv, ChooserStores, SayRec
<1>2. failed' \in [Session -> InputRec]
  BY <1>1, NoInputIs DEF Ch!Apply, ChooserInv, ChooserStores
<1>3. CASE Ch!Handle(t, s, input) /\ UNCHANGED chooserFaults
  <2>1. Answering(s) \/ Finishing(t, s)
    BY <1>1, <1>3, HandleDone
  <2>2. CASE Finishing(t, s)
    BY <1>1, <1>2, <1>3, <2>2, ChooserFinishStep
  <2>3. CASE Answering(s)
    <3>1. PICK e \in DraftRec : DraftMoves(s, e)
      BY <2>3 DEF Answering
    <3>2. handed' \subseteq confirmed' \cap checked'
            /\ chooserFaults' \in 0..MaxChooserFaults
      BY <1>3, <2>3, <3>1 DEF Answering, DraftMoves, ChooserInv, ChooserStores
    <3> QED
      BY <1>1, <1>2, <3>1, <3>2, DraftMovesStep
  <2> QED
    BY <2>1, <2>2, <2>3
<1>4. CASE /\ Ch!Fault /\ Ch!End(t) /\ Ch!Keep /\ Ch!NoRequest
  <2>1. /\ draft' = draft /\ chats' = chats
        /\ turn' = [turn EXCEPT ![t] = Ch!Free]
        /\ UNCHANGED <<requests, confirmed, pending, created, checked, handed>>
    BY <1>4 DEF Ch!Keep, Ch!NoRequest, Ch!End, Ch!history
  <2>2. /\ turn' \in [Turn -> SayRec] /\ chats' \subseteq Session
        /\ \A u \in Turn : \/ turn'[u] = turn[u]
                           \/ CalmTurn(turn'[u], s) /\ turn'[u].at # "work"
    BY <2>1, FreeIs DEF ChooserInv, ChooserStores, CalmTurn
  <2>3. draft[s] \in DraftRec /\ DraftMoves(s, draft[s])
    BY <1>1, <2>1, <2>2, KeptSection
  <2>4. chooserFaults' \in 0..MaxChooserFaults
          /\ handed' \subseteq confirmed' \cap checked'
    BY <1>4, <2>1 DEF Ch!Fault, ChooserInv, ChooserStores, Ch!ChooserAssumption
  <2> QED
    BY <1>1, <1>2, <2>3, <2>4, DraftMovesStep
<1> QED
  BY <1>3, <1>4 DEF Ch!Apply

LEMMA ChooserKeptStep ==
    ASSUME ChooserInv, NEW s \in Session,
           draft' = draft, chats' \subseteq Session,
           turn' \in [Turn -> SayRec],
           \A u \in Turn : \/ turn'[u] = turn[u]
                           \/ CalmTurn(turn'[u], s) /\ turn'[u].at # "work",
           failed' \in [Session -> InputRec],
           chooserFaults' \in 0..MaxChooserFaults,
           UNCHANGED <<config, pending, requests, Ch!history>>
    PROVE  ChooserInv'
<1>1. UNCHANGED <<requests, confirmed, pending, created, config>>
  BY DEF Ch!history
<1>2. draft[s] \in DraftRec /\ DraftMoves(s, draft[s])
  BY <1>1, KeptSection
<1>3. handed' \subseteq confirmed' \cap checked'
  BY DEF ChooserInv, Ch!history
<1> QED
  BY <1>2, <1>3, DraftMovesStep

LEMMA FaultIs ==
    ASSUME Ch!ChooserAssumption, ChooserInv,
           UNCHANGED chooserFaults \/ Ch!Fault
    PROVE  chooserFaults' \in 0..MaxChooserFaults
BY DEF Ch!ChooserAssumption, ChooserInv, ChooserStores, Ch!Fault

LEMMA ChooserPeekStep ==
    ASSUME Ch!ChooserAssumption, ChooserInv, NEW t \in Turn, Ch!Peek(t)
    PROVE  ChooserInv'
<1> DEFINE s == turn[t].s
           input == turn[t].input
<1>1. /\ turn \in [Turn -> SayRec] /\ s \in Session /\ input \in InputRec
      /\ turn[t].ask = 0 /\ chats \subseteq Session
      /\ failed \in [Session -> InputRec]
  BY DEF Ch!Peek, ChooserInv, ChooserStores, SayRec, AloneWithAsk
<1>2. /\ UNCHANGED <<config, draft, chats, pending, requests, Ch!history>>
      /\ UNCHANGED chooserFaults \/ Ch!Fault
  BY DEF Ch!Peek
<1>3. failed' \in [Session -> InputRec]
  BY <1>1, NoInputIs DEF Ch!Peek
<1>4. PICK w \in SayRec : turn' = [turn EXCEPT ![t] = w] /\ CalmTurn(w, s)
        /\ w.at # "work"
  <2> DEFINE w(c) == [turn[t] EXCEPT !.at = "apply", !.context = c]
  <2>1. \A c \in BOOLEAN : /\ w(c) \in SayRec /\ w(c).at = "apply"
                           /\ w(c).ask = 0 /\ w(c).s = s
    BY <1>1 DEF SayRec
  <2>2. \/ turn' = [turn EXCEPT ![t] = Ch!Free]
        \/ \E c \in BOOLEAN : turn' = [turn EXCEPT ![t] = w(c)]
    <3>1. CASE Ch!End(t)
      BY <3>1 DEF Ch!End
    <3>2. CASE ~ Ch!End(t)
      <4>1. turn' = [turn EXCEPT ![t] =
                          w(Ch!NeedsContext(input, draft[s])
                              /\ config = "context")]
        BY <1>1, <3>2 DEF Ch!Peek
      <4>2. (Ch!NeedsContext(input, draft[s]) /\ config = "context")
              \in BOOLEAN
        OBVIOUS
      <4> HIDE DEF w
      <4> QED
        BY <4>1, <4>2
    <3> QED
      BY <3>1, <3>2
  <2> HIDE DEF w
  <2> QED
    BY <1>1, <2>1, <2>2, FreeIs DEF CalmTurn
<1>5. /\ turn' \in [Turn -> SayRec]
      /\ \A u \in Turn : \/ turn'[u] = turn[u]
                         \/ CalmTurn(turn'[u], s) /\ turn'[u].at # "work"
  BY <1>1, <1>4
<1> QED
  BY <1>1, <1>2, <1>3, <1>5, FaultIs, ChooserKeptStep

\* A request goes to the Task service: from its turn or from its place.
LEMMA ServeStarts ==
    ASSUME ChooserInv, NEW t \in Turn, NEW s \in Session, NEW w \in SayRec,
           w.at = "serve", w.s = s, w.ask # 0, w.ask <= requests,
           w.ask \in confirmed \ created,
           \A r \in Session : draft[r].ask # w.ask,
           \A r \in Session : r # s => pending[r].ask # w.ask,
           \A u \in Turn : u # t /\ CarriesAsk(u) => turn[u].ask # w.ask,
           turn' = [turn EXCEPT ![t] = w],
           pending' = [pending EXCEPT ![s] = [ask |-> w.ask, flying |-> TRUE]],
           failed' \in [Session -> InputRec],
           chooserFaults' \in 0..MaxChooserFaults,
           UNCHANGED <<config, draft, chats, requests, confirmed, checked,
                       handed, created>>
    PROVE  ChooserInv'
<1>1. /\ turn \in [Turn -> SayRec] /\ pending \in [Session -> PendingRec]
      /\ draft \in [Session -> DraftRec]
  BY DEF ChooserInv, ChooserStores
<1>2. [ask |-> w.ask, flying |-> TRUE] \in PendingRec
  BY DEF SayRec, PendingRec
<1>3. /\ pending' \in [Session -> PendingRec]
      /\ pending'[s].ask = w.ask /\ pending'[s].flying
      /\ \A r \in Session \ {s} : pending'[r] = pending[r]
      /\ turn' \in [Turn -> SayRec] /\ turn'[t] = w
      /\ \A u \in Turn \ {t} : turn'[u] = turn[u]
  BY <1>1, <1>2
<1>4. ChooserStores'
  BY <1>3 DEF ChooserInv, ChooserStores
<1>5. \A r \in Session : SoundDraft(draft[r])'
  BY DEF ChooserInv, SoundDraft
<1>6. \A r \in Session : AskIsUnsent(r)'
  BY <1>3 DEF ChooserInv, AskIsUnsent
<1>7. \A r \in Session : AskWaits(r)'
  BY <1>3 DEF ChooserInv, AskWaits
<1>8. \A u \in Turn : AskAtWork(u)'
  BY <1>3 DEF ChooserInv, AskAtWork
<1>9. ASSUME NEW u \in Turn, u # t
      PROVE  turn'[u] = turn[u] /\ (CarriesAsk(u)' <=> CarriesAsk(u))
  BY <1>3, <1>9 DEF CarriesAsk
<1>10. ASSUME NEW u \in Turn PROVE AloneWithAsk(u)'
  <2>1. CASE u = t
    <3>1. ASSUME NEW v \in Turn, v # t, CarriesAsk(v)'
      PROVE turn'[v].ask # w.ask
      BY <1>9, <3>1
    <3>2. ASSUME NEW r \in Session, pending'[r].ask = w.ask
          PROVE  r = s /\ pending'[r].flying
      BY <1>3, <3>2
    <3> QED
      BY <1>3, <2>1, <3>1, <3>2 DEF AloneWithAsk
  <2>2. CASE u # t /\ ~ CarriesAsk(u)
    BY <1>9, <2>2 DEF ChooserInv, AloneWithAsk
  <2>3. CASE u # t /\ CarriesAsk(u)
    <3>1. /\ turn[u].ask <= requests /\ turn[u].ask \in confirmed \ created
          /\ turn[u].ask # 0 /\ turn[u].ask # w.ask
          /\ \A r \in Session : draft[r].ask # turn[u].ask
          /\ \A v \in Turn : v # u /\ CarriesAsk(v)
                => turn[v].ask # turn[u].ask
          /\ \A r \in Session : pending[r].ask = turn[u].ask
               => turn[u].at = "serve" /\ r = turn[u].s /\ pending[r].flying
      BY <2>3 DEF ChooserInv, AloneWithAsk, CarriesAsk
    <3>2. \A r \in Session : pending'[r].ask = turn[u].ask
              => turn[u].at = "serve" /\ r = turn[u].s /\ pending'[r].flying
      BY <1>3, <3>1
    <3>3. ASSUME NEW v \in Turn, v # u, CarriesAsk(v)'
          PROVE  turn'[v].ask # turn[u].ask
      <4>1. CASE v = t
        BY <1>3, <3>1, <4>1
      <4>2. CASE v # t
        BY <1>9, <3>1, <3>3, <4>2
      <4> QED
        BY <4>1, <4>2
    <3> QED
      BY <1>9, <2>3, <3>1, <3>2, <3>3 DEF AloneWithAsk, CarriesAsk
  <2> QED
    BY <2>1, <2>2, <2>3
<1>11. handed' \subseteq confirmed' \cap checked'
         /\ created' \subseteq 1..requests'
  BY DEF ChooserInv
<1> QED
  BY <1>4, <1>5, <1>6, <1>7, <1>8, <1>10, <1>11 DEF ChooserInv

LEMMA ChooserDeliverStep ==
    ASSUME Ch!ChooserAssumption, ChooserInv, NEW t \in Turn, Ch!Deliver(t)
    PROVE  ChooserInv'
<1> DEFINE s == turn[t].s
           w == [turn[t] EXCEPT !.at = "serve"]
<1>1. /\ turn \in [Turn -> SayRec] /\ s \in Session /\ turn[t].at = "deliver"
      /\ chooserFaults' \in 0..MaxChooserFaults
      /\ UNCHANGED <<config, draft, chats, requests, Ch!history,
                     chooserFaults>>
  BY DEF Ch!Deliver, ChooserInv, ChooserStores
<1>2. failed' \in [Session -> InputRec]
  BY NoInputIs DEF Ch!Deliver, ChooserInv, ChooserStores
<1>3. CASE turn[t].ask # 0
  <2>1. w \in SayRec /\ w.at = "serve" /\ w.s = s /\ w.ask = turn[t].ask
    BY <1>1 DEF SayRec
  <2>2. /\ turn' = [turn EXCEPT ![t] = w]
        /\ pending' = [pending EXCEPT ![s] = [ask |-> w.ask, flying |-> TRUE]]
    BY <1>1, <1>3, <2>1 DEF Ch!Deliver
  <2>3. CarriesAsk(t) /\ AloneWithAsk(t)
    BY <1>1, <1>3 DEF CarriesAsk, ChooserInv
  <2> HIDE DEF w
  <2>4. /\ w.ask # 0 /\ w.ask <= requests /\ w.ask \in confirmed \ created
        /\ \A r \in Session : draft[r].ask # w.ask
        /\ \A r \in Session : r # s => pending[r].ask # w.ask
        /\ \A u \in Turn : u # t /\ CarriesAsk(u) => turn[u].ask # w.ask
    BY <1>1, <1>3, <2>1, <2>3 DEF AloneWithAsk
  <2>5. UNCHANGED <<config, draft, chats, requests, confirmed, checked, handed,
                    created>>
    BY <1>1 DEF Ch!history
  <2> QED
    BY <1>1, <1>2, <2>1, <2>2, <2>4, <2>5, ServeStarts
<1>4. CASE turn[t].ask = 0
  <2>1. turn' = [turn EXCEPT ![t] = Ch!Free] /\ pending' = pending
    BY <1>4 DEF Ch!Deliver, Ch!End
  <2>2. /\ turn' \in [Turn -> SayRec] /\ chats' \subseteq Session
        /\ \A u \in Turn : \/ turn'[u] = turn[u]
                           \/ CalmTurn(turn'[u], s) /\ turn'[u].at # "work"
    BY <1>1, <2>1, FreeIs DEF ChooserInv, ChooserStores, CalmTurn
  <2> QED
    BY <1>1, <1>2, <2>1, <2>2, ChooserKeptStep
<1> QED
  BY <1>3, <1>4

LEMMA NoPendingIs ==
    /\ Ch!NoPending \in PendingRec /\ Ch!NoPending.ask = 0
    /\ ~ Ch!NoPending.flying
    /\ \A p \in PendingRec : p.ask = 0 /\ ~ p.flying => p = Ch!NoPending
BY DEF Ch!NoPending, PendingRec

\* The Task service answered, or failed.
LEMMA ChooserServeStep ==
    ASSUME Ch!ChooserAssumption, ChooserInv, NEW t \in Turn, Ch!Serve(t)
    PROVE  ChooserInv'
<1> DEFINE s == turn[t].s
           ask == turn[t].ask
<1>1. /\ turn \in [Turn -> SayRec] /\ pending \in [Session -> PendingRec]
      /\ s \in Session /\ turn[t].at = "serve"
      /\ chooserFaults' \in 0..MaxChooserFaults
      /\ UNCHANGED <<config, draft, chats, failed, requests, confirmed,
                     checked, handed>>
      /\ turn' = [turn EXCEPT ![t] = Ch!Free]
  BY FaultIs DEF Ch!Serve, Ch!End, ChooserInv, ChooserStores
<1>2. /\ ask # 0 /\ ask <= requests /\ ask \in 1..requests
      /\ \A r \in Session : draft[r].ask # ask
      /\ \A u \in Turn : u # t /\ CarriesAsk(u) => turn[u].ask # ask
      /\ \A r \in Session : pending[r].ask = ask => r = s
  BY <1>1
  DEF ChooserInv, ChooserStores, AloneWithAsk, CarriesAsk, SayRec, Ch!Request
<1>3. /\ turn' \in [Turn -> SayRec] /\ turn'[t] = Ch!Free
      /\ \A u \in Turn \ {t} : turn'[u] = turn[u]
  BY <1>1, FreeIs
<1>4. \/ /\ created' = created \cup {ask}
         /\ pending' = IF pending[s].ask = ask
                         THEN [pending EXCEPT ![s] = Ch!NoPending] ELSE pending
      \/ /\ created' = created
         /\ pending' = IF pending[s].ask = ask
                         THEN [pending EXCEPT ![s].flying = FALSE] ELSE pending
  BY DEF Ch!Serve
<1> HIDE DEF ask
<1>5. /\ pending' \in [Session -> PendingRec]
      /\ \/ /\ created' = created \cup {ask}
            /\ \A r \in Session :
                 \/ pending'[r] = pending[r] /\ pending[r].ask # ask
                 \/ pending'[r] = Ch!NoPending
         \/ /\ created' = created
            /\ \A r \in Session :
                 \/ pending'[r] = pending[r]
                 \/ /\ pending'[r].ask = pending[r].ask /\ pending[r].ask = ask
                    /\ ~ pending'[r].flying
  <2>1. CASE pending[s].ask # ask
    <3>1. pending' = pending /\ \A r \in Session : pending[r].ask # ask
      BY <1>2, <1>4, <2>1
    <3> QED
      BY <1>1, <1>4, <3>1
  <2>2. CASE /\ pending[s].ask = ask /\ created' = created \cup {ask}
             /\ pending' = [pending EXCEPT ![s] = Ch!NoPending]
    <3>1. /\ pending'[s] = Ch!NoPending /\ pending' \in [Session -> PendingRec]
          /\ \A r \in Session \ {s} : pending'[r] = pending[r]
      BY <1>1, <2>2, NoPendingIs
    <3> QED
      BY <1>2, <2>2, <3>1
  <2>3. CASE /\ pending[s].ask = ask /\ created' = created
             /\ pending' = [pending EXCEPT ![s].flying = FALSE]
    <3> DEFINE p == [pending[s] EXCEPT !.flying = FALSE]
    <3>1. p \in PendingRec /\ p.ask = pending[s].ask /\ ~ p.flying
      BY <1>1 DEF PendingRec
    <3>2. pending' = [pending EXCEPT ![s] = p]
      BY <2>3
    <3> HIDE DEF p
    <3>3. /\ pending'[s] = p /\ pending' \in [Session -> PendingRec]
          /\ \A r \in Session \ {s} : pending'[r] = pending[r]
      BY <1>1, <3>1, <3>2
    <3> QED
      BY <1>2, <2>3, <3>1, <3>3
  <2> QED
    BY <1>4, <2>1, <2>2, <2>3
<1>6. \A r \in Session : pending'[r].ask \in {0, pending[r].ask}
  BY <1>5, NoPendingIs
<1>7. created \subseteq created' /\ \A x \in created' : x \in created
        \/ x = ask
  BY <1>5
<1>8. ChooserStores'
  BY <1>1, <1>3, <1>5, FreeIs DEF ChooserInv, ChooserStores
<1>9. \A r \in Session : SoundDraft(draft[r])'
  BY <1>1 DEF ChooserInv, SoundDraft
<1>10. ASSUME NEW r \in Session PROVE AskIsUnsent(r)'
  BY <1>1, <1>2, <1>6, <1>7 DEF ChooserInv, AskIsUnsent
<1>11. ASSUME NEW r \in Session PROVE AskWaits(r)'
  <2>1. CASE pending'[r] = Ch!NoPending
    BY <2>1, NoPendingIs DEF AskWaits
  <2>2. CASE pending'[r].ask = pending[r].ask /\ created' = created
               /\ (pending'[r] = pending[r] \/ ~ pending'[r].flying)
    BY <1>1, <1>6, <2>2 DEF ChooserInv, AskWaits
  <2>3. CASE pending'[r] = pending[r] /\ pending[r].ask # ask
    BY <1>1, <1>6, <1>7, <2>3 DEF ChooserInv, AskWaits
  <2> QED
    BY <1>5, <2>1, <2>2, <2>3
<1>12. \A u \in Turn : AskAtWork(u)'
  BY <1>1, <1>3, FreeIs DEF ChooserInv, AskAtWork
<1>13. ASSUME NEW u \in Turn, u # t
       PROVE  turn'[u] = turn[u] /\ (CarriesAsk(u)' <=> CarriesAsk(u))
  BY <1>3, <1>13 DEF CarriesAsk
<1>14. ASSUME NEW u \in Turn PROVE AloneWithAsk(u)'
  <2>1. CASE u = t
    BY <1>3, <2>1, FreeIs DEF AloneWithAsk, CarriesAsk
  <2>2. CASE u # t /\ ~ CarriesAsk(u)
    BY <1>13, <2>2 DEF ChooserInv, AloneWithAsk
  <2>3. CASE u # t /\ CarriesAsk(u)
    <3>1. /\ turn[u].ask <= requests /\ turn[u].ask \in confirmed \ created
          /\ turn[u].ask # 0
          /\ \A r \in Session : draft[r].ask # turn[u].ask
          /\ \A v \in Turn : v # u /\ CarriesAsk(v)
                => turn[v].ask # turn[u].ask
          /\ \A r \in Session : pending[r].ask = turn[u].ask
               => turn[u].at = "serve" /\ r = turn[u].s /\ pending[r].flying
      BY <2>3 DEF ChooserInv, AloneWithAsk, CarriesAsk
    <3>2. turn[u].ask # ask
      BY <1>2, <2>3
    <3>3. ASSUME NEW r \in Session, pending'[r].ask = turn[u].ask
          PROVE  turn[u].at = "serve" /\ r = turn[u].s /\ pending'[r].flying
      <4>1. pending[r].ask = turn[u].ask
        BY <1>6, <3>1, <3>3
      <4>2. pending'[r] = pending[r]
        BY <1>5, <3>1, <3>2, <3>3, <4>1, NoPendingIs
      <4> QED
        BY <3>1, <4>1, <4>2
    <3>4. ASSUME NEW v \in Turn, v # u, CarriesAsk(v)'
          PROVE  turn'[v].ask # turn[u].ask
      <4>1. v # t
        BY <1>3, <3>4, FreeIs DEF CarriesAsk
      <4> QED
        BY <1>13, <3>1, <3>4, <4>1
    <3>5. turn[u].ask \notin created'
      BY <1>7, <3>1, <3>2
    <3> QED
      BY <1>1, <1>13, <2>3, <3>1, <3>3, <3>4, <3>5 DEF AloneWithAsk, CarriesAsk
  <2> QED
    BY <2>1, <2>2, <2>3
<1>15. handed' \subseteq confirmed' \cap checked'
         /\ created' \subseteq 1..requests'
  BY <1>1, <1>2, <1>7 DEF ChooserInv
<1> QED
  BY <1>8, <1>9, <1>10, <1>11, <1>12, <1>14, <1>15 DEF ChooserInv

LEMMA InputIs ==
    ASSUME ChooserInv, NEW s \in Session
    PROVE  Ch!Input(s) \subseteq InputRec
<1>1. draft[s].prompt \in {0, Ch!Stale} \cup Ch!Id
  BY DEF ChooserInv, ChooserStores, DraftRec
<1>2. Ch!Choices(draft[s]) \subseteq Ch!Words
  BY DEF Ch!Choices, Ch!Words
<1> QED
  BY <1>1, <1>2 DEF Ch!Input, InputRec, Ch!Words

LEMMA OnwardIs ==
    ASSUME ChooserInv, NEW t \in Turn, NEW s \in Session,
           NEW input \in InputRec, turn[t] = Ch!Free, Ch!Onward(t, s, input)
    PROVE  /\ turn' \in [Turn -> SayRec]
           /\ \A u \in Turn : \/ turn'[u] = turn[u]
                              \/ CalmTurn(turn'[u], s) /\ turn'[u].at # "work"
<1> DEFINE w == [Ch!Free EXCEPT !.at = "peek", !.s = s, !.input = input]
<1>1. turn \in [Turn -> SayRec]
  BY DEF ChooserInv, ChooserStores
<1>2. turn' = [turn EXCEPT ![t] = w]
  BY <1>1 DEF Ch!Onward
<1>3. w \in SayRec /\ w.at = "peek" /\ w.ask = 0 /\ w.s = s
  BY FreeIs DEF SayRec
<1> HIDE DEF w
<1> QED
  BY <1>1, <1>2, <1>3 DEF CalmTurn

LEMMA ChooserResumeStep ==
    ASSUME ChooserInv, NEW t \in Turn, NEW s \in Session, turn[t] = Ch!Free,
           pending[s] # Ch!NoPending, Ch!Resume(t, s),
           failed' \in [Session -> InputRec],
           chooserFaults' \in 0..MaxChooserFaults,
           UNCHANGED <<config, draft, chats, requests, confirmed, checked,
                       handed, created>>
    PROVE  ChooserInv'
<1> DEFINE w == [Ch!Free EXCEPT !.at = "serve", !.s = s,
                 !.ask = pending[s].ask]
<1>1. /\ turn \in [Turn -> SayRec] /\ pending \in [Session -> PendingRec]
      /\ ~ pending[s].flying
  BY DEF ChooserInv, ChooserStores, Ch!Resume
<1>2. w \in SayRec /\ w.at = "serve" /\ w.s = s /\ w.ask = pending[s].ask
  <2>1. pending[s].ask \in {0} \cup Ch!Request
    BY <1>1 DEF PendingRec
  <2> QED
    BY <2>1, FreeIs DEF SayRec
<1>3. turn' = [turn EXCEPT ![t] = w]
  BY <1>1 DEF Ch!Resume
<1> HIDE DEF w
<1>4. pending' = [pending EXCEPT ![s] = [ask |-> w.ask, flying |-> TRUE]]
  <2>1. [pending[s] EXCEPT !.flying = TRUE] = [ask |-> w.ask, flying |-> TRUE]
    <3> DEFINE p == [pending[s] EXCEPT !.flying = TRUE]
               q == [ask |-> w.ask, flying |-> TRUE]
    <3>1. p \in PendingRec /\ p.ask = w.ask /\ p.flying = TRUE
      BY <1>1, <1>2 DEF PendingRec
    <3>2. q \in PendingRec /\ q.ask = w.ask /\ q.flying = TRUE
      BY <1>1, <1>2 DEF PendingRec
    <3>3. \A x, y \in PendingRec : x.ask = y.ask /\ x.flying = y.flying
            => x = y
      BY DEF PendingRec
    <3> HIDE DEF p, q
    <3>4. p = q
      BY <3>1, <3>2, <3>3
    <3> QED
      BY <3>4 DEF p, q
  <2>2. pending' = [pending EXCEPT ![s] = [pending[s] EXCEPT !.flying = TRUE]]
    BY DEF Ch!Resume
  <2> QED
    BY <2>1, <2>2
<1>5. /\ w.ask # 0 /\ w.ask <= requests /\ w.ask \in confirmed \ created
      /\ \A r \in Session : r # s => pending[r].ask # w.ask
  BY <1>1, <1>2, NoPendingIs DEF ChooserInv, AskWaits
<1>6. \A r \in Session : draft[r].ask # w.ask
  BY <1>2, <1>5 DEF ChooserInv, AskIsUnsent
<1>7. \A u \in Turn : u # t /\ CarriesAsk(u) => turn[u].ask # w.ask
  BY <1>1, <1>2 DEF ChooserInv, AloneWithAsk
<1> QED
  BY <1>2, <1>3, <1>4, <1>5, <1>6, <1>7, ServeStarts

LEMMA ChooserCancelStep ==
    ASSUME ChooserInv, NEW s \in Session, ~ pending[s].flying,
           pending' = [pending EXCEPT ![s] = Ch!NoPending],
           failed' \in [Session -> InputRec],
           chooserFaults' \in 0..MaxChooserFaults,
           UNCHANGED <<config, draft, chats, turn, requests, Ch!history>>
    PROVE  ChooserInv'
<1>1. /\ pending \in [Session -> PendingRec]
      /\ UNCHANGED <<confirmed, checked, handed, created>>
  BY DEF ChooserInv, ChooserStores, Ch!history
<1>2. /\ pending' \in [Session -> PendingRec] /\ pending'[s] = Ch!NoPending
      /\ \A r \in Session \ {s} : pending'[r] = pending[r]
  BY <1>1, NoPendingIs
<1>3. ChooserStores'
  BY <1>2 DEF ChooserInv, ChooserStores
<1>4. \A r \in Session : SoundDraft(draft[r])'
  BY DEF ChooserInv, SoundDraft
<1>5. \A r \in Session : AskIsUnsent(r)'
  BY <1>1, <1>2, NoPendingIs DEF ChooserInv, AskIsUnsent
<1>6. ASSUME NEW r \in Session PROVE AskWaits(r)'
  BY <1>1, <1>2, NoPendingIs DEF ChooserInv, AskWaits
<1>7. \A u \in Turn : AskAtWork(u)'
  BY DEF ChooserInv, AskAtWork
<1>8. ASSUME NEW u \in Turn PROVE AloneWithAsk(u)'
  <2>1. ASSUME NEW r \in Session, turn[u].ask # 0,
           pending'[r].ask = turn[u].ask
        PROVE  pending'[r] = pending[r]
    BY <1>2, <2>1, NoPendingIs
  <2>2. CASE CarriesAsk(u)
    BY <1>1, <2>1, <2>2 DEF ChooserInv, AloneWithAsk, CarriesAsk
  <2>3. CASE ~ CarriesAsk(u)
    BY <2>3 DEF ChooserInv, AloneWithAsk, CarriesAsk
  <2> QED
    BY <2>2, <2>3
<1>9. handed' \subseteq confirmed' \cap checked'
        /\ created' \subseteq 1..requests'
  BY <1>1 DEF ChooserInv
<1> QED
  BY <1>3, <1>4, <1>5, <1>6, <1>7, <1>8, <1>9 DEF ChooserInv

LEMMA ChooserStartStep ==
    ASSUME Ch!ChooserAssumption, ChooserInv, NEW t \in Turn, NEW s \in Session,
           Ch!Start(t, s)
    PROVE  ChooserInv'
<1>1. PICK input \in InputRec : Ch!Admit(t, s, input)
  BY InputIs DEF Ch!Start
<1>2. /\ turn[t] = Ch!Free /\ chooserFaults' \in 0..MaxChooserFaults
      /\ UNCHANGED <<config, requests, confirmed, checked, handed, created>>
      /\ failed \in [Session -> InputRec] /\ chats \subseteq Session
      /\ turn \in [Turn -> SayRec] /\ failed[s] \in InputRec
  BY FaultIs DEF Ch!Start, ChooserInv, ChooserStores
<1>3. ASSUME NEW i \in InputRec, Ch!Onward(t, s, i), Ch!Keep,
           UNCHANGED pending,
             failed' \in [Session -> InputRec]
      PROVE  ChooserInv'
  <2>1. /\ turn' \in [Turn -> SayRec]
        /\ \A u \in Turn : \/ turn'[u] = turn[u]
                           \/ CalmTurn(turn'[u], s) /\ turn'[u].at # "work"
    BY <1>2, <1>3, OnwardIs
  <2>2. /\ draft' = draft /\ chats' \subseteq Session
        /\ UNCHANGED <<config, pending, requests, Ch!history>>
    BY <1>2, <1>3 DEF Ch!Keep, Ch!history
  <2> QED
    BY <1>2, <1>3, <2>1, <2>2, ChooserKeptStep
<1>4. ASSUME UNCHANGED <<turn, pending, failed>>, Ch!Keep
      PROVE  ChooserInv'
  <2>1. /\ draft' = draft /\ chats' \subseteq Session
        /\ turn' \in [Turn -> SayRec] /\ failed' \in [Session -> InputRec]
        /\ \A u \in Turn : turn'[u] = turn[u]
        /\ UNCHANGED <<config, pending, requests, Ch!history>>
    BY <1>2, <1>4 DEF Ch!Keep, Ch!history
  <2> QED
    BY <1>2, <2>1, ChooserKeptStep
<1>5. CASE /\ Ch!Structured(input) \/ input.new
           /\ failed' = IF input.new THEN [failed EXCEPT ![s] = Ch!NoInput]
                        ELSE failed
           /\ Ch!Onward(t, s, input) /\ Ch!Keep /\ UNCHANGED pending
  <2>1. failed' \in [Session -> InputRec]
    BY <1>2, <1>5, NoInputIs
  <2> QED
    BY <1>3, <1>5, <2>1
<1>6. CASE /\ pending[s] # Ch!NoPending
           /\ Ch!PendingTurn(t, s, input.word) /\ Ch!Keep /\ UNCHANGED failed
  <2>1. failed' \in [Session -> InputRec] /\ draft' = draft /\ chats' = chats
          /\ UNCHANGED Ch!history
    BY <1>2, <1>6 DEF Ch!Keep, Ch!history
  <2>2. CASE Ch!Resume(t, s)
    BY <1>2, <1>6, <2>1, <2>2, ChooserResumeStep
  <2>3. CASE /\ ~ pending[s].flying /\ UNCHANGED turn
             /\ pending' = [pending EXCEPT ![s] = Ch!NoPending]
    BY <1>2, <2>1, <2>3, ChooserCancelStep
  <2>4. CASE UNCHANGED <<turn, pending>>
    BY <1>4, <1>6, <2>4
  <2> QED
    BY <1>6, <2>2, <2>3, <2>4 DEF Ch!PendingTurn
<1>7. CASE Ch!Onward(t, s, input) /\ Ch!Keep /\ UNCHANGED <<failed, pending>>
  BY <1>2, <1>3, <1>7
<1>8. CASE /\ failed' = [failed EXCEPT ![s] = Ch!NoInput]
           /\ Ch!EnterChat(s) /\ UNCHANGED <<turn, pending>>
  <2>1. Ch!NoDraft \in DraftRec /\ SoundDraft(Ch!NoDraft)
          /\ Ch!NoDraft.work = 0
          /\ Ch!NoDraft.ask = 0 /\ ~ Ch!NoDraft.made
    BY NoDraftIsSound DEF Ch!NoDraft
  <2>2. failed' \in [Session -> InputRec]
    BY <1>2, <1>8, NoInputIs
  <2>3. \A u \in Turn : turn'[u].at = "work" => turn'[u].token # 0
    BY <1>8 DEF ChooserInv, AskAtWork
  <2>4. requests' \in 0..MaxRequests /\ turn' \in [Turn -> SayRec]
    BY <1>2, <1>8 DEF ChooserInv, ChooserStores
  <2>5. DraftMoves(s, Ch!NoDraft)
    BY <1>2, <1>8, <2>1, <2>3, <2>4 DEF DraftMoves, Ch!EnterChat
  <2>6. handed' \subseteq confirmed' \cap checked'
    BY <1>2 DEF ChooserInv
  <2> QED
    BY <1>2, <2>1, <2>2, <2>5, <2>6, DraftMovesStep
<1>9. CASE /\ failed' = [failed EXCEPT ![s] = Ch!NoInput]
           /\ Ch!Onward(t, s, failed[s]) /\ Ch!Keep /\ UNCHANGED pending
  <2>1. failed' \in [Session -> InputRec]
    BY <1>2, <1>9, NoInputIs
  <2> QED
    BY <1>2, <1>3, <1>9, <2>1
<1>10. CASE Ch!Keep /\ UNCHANGED <<turn, failed, pending>>
  BY <1>4, <1>10
<1> QED
  BY <1>1, <1>5, <1>6, <1>7, <1>8, <1>9, <1>10 DEF Ch!Admit

\* A call outside the lock answers: it finds its draft as it left it, or keeps
\* what it brings to itself.
LEMMA ChooserWorkStep ==
    ASSUME Ch!ChooserAssumption, ChooserInv, NEW t \in Turn, Ch!Work(t)
    PROVE  ChooserInv'
<1> DEFINE s == turn[t].s
           w == turn[t]
           d == draft[s]
<1>1. /\ s \in Session /\ Ch!Answered(t) /\ turn[t].at = "work"
      /\ UNCHANGED <<config, pending, requests, confirmed, created>>
      /\ failed' \in [Session -> InputRec]
  BY DEF Ch!Work, Ch!plugin, ChooserInv, ChooserStores
<1>2. d \in DraftRec /\ SoundDraft(d) /\ Shows(s, d)
  BY <1>1, DraftIs
<1>3. ASSUME NEW e \in DraftRec, DraftMoves(s, e),
           UNCHANGED chooserFaults \/ Ch!Fault,
             handed' \subseteq confirmed' \cap checked'
      PROVE  ChooserInv'
  BY <1>1, <1>3, FaultIs, DraftMovesStep
<1>4. ASSUME NEW e \in DraftRec, e.step # "none",
             e.step = "confirm" => e.ask # 0, e.work = 0, Shows(s, e),
             Ch!Store(s, e), UNCHANGED chooserFaults \/ Ch!Fault,
             handed' \subseteq confirmed' \cap checked'
      PROVE  ChooserInv'
  <2>1. SoundDraft(e)
    BY <1>4 DEF SoundDraft, Shows
  <2>2. DraftMoves(s, e)
    BY <1>1, <1>4, <2>1, ShownSection DEF Shows
  <2> QED
    BY <1>3, <1>4, <2>2
<1>5. ASSUME NEW e \in DraftRec, e.step # "none",
             e.step = "confirm" => e.ask # 0, e.work = 0, Shows(s, e),
             Ch!Store(s, Ch!Refresh(e)), UNCHANGED chooserFaults \/ Ch!Fault,
             handed' \subseteq confirmed' \cap checked'
      PROVE  ChooserInv'
  <2>1. /\ Ch!Refresh(e) \in DraftRec /\ Ch!Refresh(e).step = e.step
        /\ Ch!Refresh(e).work = 0 /\ Ch!Refresh(e).ask = e.ask
        /\ Shows(s, Ch!Refresh(e))
    BY <1>5, RefreshIs DEF Shows
  <2> QED
    BY <1>4, <1>5, <2>1
<1>6. ASSUME NEW n \in 0..MaxProjects, Ch!Store(s, Ch!Refresh(Ch!Reset(d, n))),
             UNCHANGED chooserFaults \/ Ch!Fault,
             handed' \subseteq confirmed' \cap checked'
      PROVE  ChooserInv'
  <2>1. /\ Ch!Reset(d, n) \in DraftRec /\ Ch!Reset(d, n).step = "projects"
        /\ Ch!Reset(d, n).work = 0 /\ Shows(s, Ch!Reset(d, n))
    BY <1>2, ResetIs DEF Shows
  <2> QED
    BY <1>5, <1>6, <2>1
<1> DEFINE f == [d EXCEPT !.work = 0]
<1>7. f \in DraftRec /\ f.step = d.step /\ f.work = 0 /\ f.ask = d.ask
        /\ f.made = d.made /\ Shows(s, f)
  BY <1>2 DEF DraftRec, Shows
<1>8. ASSUME NEW step \in Ch!Steps \ {"none", "confirm"},
           Ch!Store(s, Ch!Move(f, step)),
             UNCHANGED chooserFaults \/ Ch!Fault,
             handed' \subseteq confirmed' \cap checked'
      PROVE  ChooserInv'
  <2> HIDE DEF f
  <2>1. /\ Ch!Move(f, step) \in DraftRec /\ Ch!Move(f, step).step = step
        /\ Ch!Move(f, step).work = 0 /\ Shows(s, Ch!Move(f, step))
    BY <1>7, MoveIs DEF Shows
  <2> QED
    BY <1>4, <1>8, <2>1
<1>9. CASE ~ Ch!Matching(d, w)
  <2>1. Ch!Keep /\ UNCHANGED <<checked, handed, chooserFaults>>
    BY <1>9 DEF Ch!Work
  <2>2. draft[s] \in DraftRec /\ DraftMoves(s, draft[s])
    BY <1>1, <2>1, IgnoredSection
  <2>3. handed' \subseteq confirmed' \cap checked'
    BY <1>1, <2>1 DEF ChooserInv
  <2> QED
    BY <1>3, <2>1, <2>2, <2>3
<1>10. CASE Ch!Matching(d, w)
  <2>1. d.step = w.step /\ d.work # 0 /\ d.work = w.token /\ d.ask = w.ask
    BY <1>1, <1>10 DEF Ch!Matching, ChooserInv, AskAtWork
  <2>2. d.step # "none" /\ (d.step = "confirm" => d.ask # 0)
    BY <1>2, <2>1 DEF SoundDraft, Ch!NoDraft
  <2>3. 0 \in 0..MaxProjects /\ "remote" \in Ch!Steps \ {"none", "confirm"}
          /\ "projects" \in Ch!Steps \ {"none", "confirm"}
    BY DEF Ch!Steps, Ch!ChoiceSteps, Ch!ChooserAssumption
  <2>4. ASSUME UNCHANGED <<checked, handed>>
        PROVE  handed' \subseteq confirmed' \cap checked'
    BY <1>1, <2>4 DEF ChooserInv
  <2>5. CASE Ch!Found(s, d) /\ UNCHANGED <<checked, handed, chooserFaults>>
    BY <1>6, <2>4, <2>5 DEF Ch!Found
  <2>6. CASE Ch!Probed(s, d) /\ UNCHANGED <<checked, handed>>
    <3>1. \/ Ch!Store(s, Ch!Move(f, "remote")) /\ UNCHANGED chooserFaults
          \/ Ch!Store(s, Ch!Refresh(f)) /\ Ch!Fault
      BY <2>6 DEF Ch!Probed
    <3> HIDE DEF f, d, s
    <3> QED
      BY <1>5, <1>7, <1>8, <2>2, <2>3, <2>4, <2>6, <3>1
  <2>7. CASE Ch!Bound(s, d) /\ UNCHANGED <<checked, handed>>
    <3>1. \/ d.found < MaxProjects
                /\ Ch!Store(s, Ch!Refresh(Ch!Reset(d, d.found + 1)))
            /\ UNCHANGED chooserFaults
          \/ Ch!Store(s, Ch!Move(f, "projects")) /\ UNCHANGED chooserFaults
          \/ Ch!Store(s, Ch!Refresh(f)) /\ Ch!Fault
      BY <2>7 DEF Ch!Bound
    <3>2. d.found < MaxProjects => d.found + 1 \in 0..MaxProjects
      BY <1>2 DEF DraftRec, Ch!ChooserAssumption
    <3> HIDE DEF f, d, s
    <3> QED
      BY <1>5, <1>6, <1>7, <1>8, <2>2, <2>3, <2>4, <2>7, <3>1, <3>2
  <2>8. CASE Ch!Validated(w, s, d)
    <3>1. CASE /\ Ch!Store(s, f) /\ UNCHANGED chooserFaults
               /\ checked' = checked \cup {w.ask}
               /\ handed' = IF d.made THEN handed \cup {d.ask} ELSE handed
      <4>1. handed' \subseteq confirmed' \cap checked'
        BY <1>1, <1>2, <2>1, <3>1 DEF ChooserInv, Shows
      <4> HIDE DEF f, d, s
      <4> QED
        BY <1>4, <1>7, <2>2, <3>1, <4>1
    <3>2. CASE /\ Ch!Store(s, Ch!Refresh(Ch!Reset(d, 0))) /\ Ch!Fault
               /\ UNCHANGED <<checked, handed>>
      BY <1>6, <2>3, <2>4, <3>2
    <3> QED
      BY <2>8, <3>1, <3>2 DEF Ch!Validated
  <2> QED
    BY <1>10, <2>5, <2>6, <2>7, <2>8 DEF Ch!Work
<1> QED
  BY <1>9, <1>10

LEMMA ChooserTimePassesStep ==
    ASSUME Ch!ChooserAssumption, ChooserInv, NEW s \in Session,
           Ch!TimePasses(s)
    PROVE  ChooserInv'
<1> DEFINE d == draft[s]
           e == [d EXCEPT !.late = TRUE]
<1>1. d \in DraftRec /\ SoundDraft(d) /\ Shows(s, d) /\ d # Ch!NoDraft
  BY DraftIs DEF Ch!TimePasses
<1>2. /\ e \in DraftRec /\ e.step = d.step /\ e.work = d.work
      /\ e.ask = d.ask /\ e.made = d.made
  BY <1>1 DEF DraftRec
<1>3. /\ draft' = [draft EXCEPT ![s] = e]
      /\ UNCHANGED <<config, chats, failed, pending, turn, requests, confirmed,
                     checked, handed, created>>
      /\ Ch!Fault
  BY DEF Ch!TimePasses, Ch!plugin, Ch!history, ChooserInv, ChooserStores
<1> HIDE DEF e
<1>4. SoundDraft(e)
  BY <1>1, <1>2 DEF SoundDraft
<1>5. \A u \in Turn : turn'[u].at = "work" /\ turn'[u].s = s
                         /\ turn'[u].token = e.work => turn'[u].ask = e.ask
  BY <1>2, <1>3 DEF ChooserInv, AskAtWork
<1>6. DraftMoves(s, e)
  BY <1>1, <1>2, <1>3, <1>4, <1>5
     DEF DraftMoves, Shows, ChooserInv, ChooserStores
<1>7. /\ failed' \in [Session -> InputRec]
      /\ handed' \subseteq confirmed' \cap checked'
  BY <1>3 DEF ChooserInv, ChooserStores
<1> QED
  BY <1>2, <1>3, <1>6, <1>7, FaultIs, DraftMovesStep

\* Nothing in memory holds a request.
LEMMA ChooserEmptyStep ==
    ASSUME Ch!ChooserAssumption,
           config \in Trusted, chats = {},
           draft = [s \in Session |-> Ch!NoDraft],
           failed = [s \in Session |-> Ch!NoInput],
           pending = [s \in Session |-> Ch!NoPending],
           turn = [t \in Turn |-> Ch!Free], requests \in 0..MaxRequests,
           chooserFaults \in 0..MaxChooserFaults,
           handed \subseteq confirmed \cap checked,
           created \subseteq 1..requests
    PROVE  ChooserInv
<1>1. /\ \A s \in Session : draft[s] = Ch!NoDraft /\ pending[s] = Ch!NoPending
      /\ \A t \in Turn : turn[t] = Ch!Free
      /\ Ch!NoDraft \in DraftRec /\ SoundDraft(Ch!NoDraft)
      /\ Ch!NoDraft.ask = 0
  BY NoDraftIsSound DEF Ch!NoDraft
<1>2. ChooserStores
  BY <1>1, NoInputIs, NoPendingIs, FreeIs DEF ChooserStores
<1>3. \A s \in Session : SoundDraft(draft[s]) /\ AskIsUnsent(s) /\ AskWaits(s)
  BY <1>1, NoPendingIs DEF AskIsUnsent, AskWaits
<1>4. \A t \in Turn : AskAtWork(t) /\ AloneWithAsk(t)
  BY <1>1, FreeIs DEF AskAtWork, AloneWithAsk, CarriesAsk
<1> QED
  BY <1>2, <1>3, <1>4 DEF ChooserInv

LEMMA ChooserInit ==
    ASSUME Ch!ChooserAssumption, Ch!Init
    PROVE  ChooserInv
BY ChooserEmptyStep DEF Ch!Init, Ch!ChooserAssumption

LEMMA ChooserRestartStep ==
    ASSUME Ch!ChooserAssumption, ChooserInv, Ch!Restart
    PROVE  ChooserInv'
<1>1. /\ config' \in Trusted /\ requests' \in 0..MaxRequests
      /\ chooserFaults' \in 0..MaxChooserFaults
      /\ handed' \subseteq confirmed' \cap checked'
      /\ created' \subseteq 1..requests'
  BY FaultIs DEF Ch!Restart, ChooserInv, ChooserStores
<1>2. /\ \A s \in Session : draft'[s] = Ch!NoDraft
            /\ pending'[s] = Ch!NoPending
      /\ \A t \in Turn : turn'[t] = Ch!Free
      /\ Ch!NoDraft \in DraftRec /\ SoundDraft(Ch!NoDraft)
      /\ Ch!NoDraft.ask = 0
  BY NoDraftIsSound DEF Ch!Restart, Ch!NoDraft
<1>3. ChooserStores'
  BY <1>1, <1>2, NoInputIs, NoPendingIs, FreeIs DEF ChooserStores, Ch!Restart
<1>4. \A s \in Session : SoundDraft(draft[s])' /\ AskIsUnsent(s)'
        /\ AskWaits(s)'
  BY <1>2, NoPendingIs DEF AskIsUnsent, AskWaits, SoundDraft
<1>5. \A t \in Turn : AskAtWork(t)' /\ AloneWithAsk(t)'
  BY <1>2, FreeIs DEF AskAtWork, AloneWithAsk, CarriesAsk
<1> QED
  BY <1>1, <1>3, <1>4, <1>5 DEF ChooserInv

LEMMA ChooserSteps ==
    ASSUME Ch!ChooserAssumption, ChooserInv, Ch!Next
    PROVE  ChooserInv'
BY ChooserStartStep, ChooserPeekStep, ChooserApplyStep, ChooserWorkStep,
   ChooserDeliverStep, ChooserServeStep, ChooserTimePassesStep,
   ChooserRestartStep DEF Ch!Next

LEMMA ChooserRests ==
    ASSUME ChooserInv, UNCHANGED chooserVars
    PROVE  ChooserInv'
<1>1. UNCHANGED <<config, draft, chats, failed, pending, turn, requests,
                  confirmed, checked, handed, created, chooserFaults>>
  BY DEF chooserVars
<1>2. ChooserStores'
  BY <1>1 DEF ChooserInv, ChooserStores
<1>3. \A s \in Session : SoundDraft(draft[s])' /\ AskIsUnsent(s)'
        /\ AskWaits(s)'
  BY <1>1 DEF ChooserInv, SoundDraft, AskIsUnsent, AskWaits
<1>4. \A t \in Turn : AskAtWork(t)' /\ AloneWithAsk(t)'
  BY <1>1 DEF ChooserInv, AskAtWork, AloneWithAsk, CarriesAsk
<1> QED
  BY <1>1, <1>2, <1>3, <1>4 DEF ChooserInv

LEMMA ChooserTypes ==
    ASSUME ChooserInv
    PROVE  Ch!TypeOK
BY DEF ChooserInv, ChooserStores, Ch!TypeOK, InputRec, DraftRec, SayRec,
       PendingRec

LEMMA ChooserHands ==
    ASSUME ChooserInv
    PROVE  Ch!OnlyConfirmedTasks
<1>1. ASSUME NEW t \in Turn, turn[t].at = "serve"
      PROVE  CarriesAsk(t) /\ turn[t].ask \in confirmed \ created
  BY <1>1 DEF ChooserInv, AloneWithAsk, CarriesAsk
<1>2. ASSUME NEW t \in Turn, turn[t].at = "serve", NEW u \in Turn \ {t},
             turn[u].at = "serve"
      PROVE  turn[u].ask # turn[t].ask
  BY <1>1, <1>2 DEF ChooserInv, AloneWithAsk
<1> QED
  BY <1>1, <1>2 DEF ChooserInv, Ch!OnlyConfirmedTasks

-----------------------------------------------------------------------------
(* The sum: the part that moves keeps its invariant                         *)

SumInv ==
    /\ part = "creation" => Creation!IInv
    /\ part = "change" => Change!IInv
    /\ part = "database" => DbInv
    /\ part = "chooser" => ChooserInv
    /\ part = "surface" => SurfaceInv
    /\ part = "runner" => RunnerInv
    /\ part = "installer" => InstallInv

LEMMA SumInit == Init => SumInv
<1> SUFFICES ASSUME Init PROVE SumInv
  OBVIOUS
<1>1. Creation!IInv
  BY PartsAssumption, Creation!InitInv DEF Init
<1>2. Change!IInv
  BY PartsAssumption, Change!InitInv DEF Init
<1>3. InstallInv
  BY PartsAssumption, InstallInit DEF Init
<1>4. RunnerInv
  BY PartsAssumption, RunnerInit DEF Init
<1>5. DbInv
  BY PartsAssumption, DbInit DEF Init
<1>6. SurfaceInv
  BY PartsAssumption, SurfaceInit DEF Init
<1>7. ChooserInv
  BY PartsAssumption, ChooserInit DEF Init
<1> QED
  BY <1>1, <1>2, <1>3, <1>4, <1>5, <1>6, <1>7 DEF SumInv

LEMMA SumNext == ASSUME SumInv, [Next]_vars PROVE SumInv'
<1>1. part' = part
  BY DEF Next, vars
<1>2. CASE part = "creation"
  <2>1. [Creation!Next]_(Creation!vars)
    BY <1>2 DEF Next, vars, creationVars, Creation!vars, Creation!dbVars,
                 Creation!remoteVars
  <2>2. Creation!IInv'
    BY <1>2, <2>1, PartsAssumption, Creation!NextInv DEF SumInv
  <2> QED
    BY <1>1, <1>2, <2>2 DEF SumInv
<1>3. CASE part = "change"
  <2>1. [Change!Next]_(Change!vars)
    BY <1>3 DEF Next, vars, changeVars, Change!vars, Change!changeVars,
                 Change!workVars
  <2>2. Change!IInv'
    BY <1>3, <2>1, PartsAssumption, Change!NextInv DEF SumInv
  <2> QED
    BY <1>1, <1>3, <2>2 DEF SumInv
<1>4. CASE part = "installer"
  <2>1. CASE Install!Next
    BY <1>1, <1>4, <2>1, PartsAssumption, InstallSteps DEF SumInv
  <2>2. CASE UNCHANGED installerVars
    BY <1>1, <1>4, <2>2
    DEF SumInv, installerVars, InstallInv, Install!TypeOK, LockIsExclusive,
        MarkerGuardsFiles, Install!OneCompleteVersion
  <2> QED
    BY <1>4, <2>1, <2>2 DEF Next, vars
<1>5. CASE part = "runner"
  <2>1. CASE Runner!Next
    BY <1>1, <1>5, <2>1, PartsAssumption, RunnerSteps DEF SumInv
  <2>2. CASE UNCHANGED runnerVars
    BY <1>1, <1>5, <2>2
    DEF SumInv, runnerVars, RunnerInv, AttemptsInOrder, ReportIsTrue, Tried
  <2> QED
    BY <1>5, <2>1, <2>2 DEF Next, vars
<1>6. CASE part = "database"
  <2>1. CASE Db!Next
    BY <1>1, <1>6, <2>1, PartsAssumption, DbSteps DEF SumInv
  <2>2. CASE UNCHANGED databaseVars
    <3>1. DbInv
      BY <1>6 DEF SumInv
    <3>2. DbInv'
      BY <2>2, <3>1, DbRests
    <3> QED
      BY <1>1, <1>6, <3>2 DEF SumInv
  <2> QED
    BY <1>6, <2>1, <2>2 DEF Next, vars
<1>7. CASE part = "surface"
  <2>1. CASE Se!Next
    BY <1>1, <1>7, <2>1, PartsAssumption, SurfaceSteps DEF SumInv
  <2>2. CASE UNCHANGED surfaceVars
    BY <1>1, <1>7, <2>2, SurfaceRests DEF SumInv
  <2> QED
    BY <1>7, <2>1, <2>2 DEF Next, vars
<1>8. CASE part = "chooser"
  <2>1. CASE Ch!Next
    BY <1>1, <1>8, <2>1, PartsAssumption, ChooserSteps DEF SumInv
  <2>2. CASE UNCHANGED chooserVars
    BY <1>1, <1>8, <2>2, ChooserRests DEF SumInv
  <2> QED
    BY <1>8, <2>1, <2>2 DEF Next, vars
<1>9. CASE part \notin {"creation", "change", "database", "surface", "runner",
                       "installer", "chooser"}
  BY <1>1, <1>9 DEF SumInv
<1> QED
  BY <1>2, <1>3, <1>4, <1>5, <1>6, <1>7, <1>8, <1>9

-----------------------------------------------------------------------------
(* Theorems                                                                  *)

\* The part that moves keeps its invariant, whichever it is.
THEOREM Invariance == Spec => []SumInv
BY SumInit, SumNext, PTL DEF Spec

\* The part that moves keeps its types.
THEOREM TypeCorrect == Spec => []TypeOK
<1>1. SumInv => TypeOK
  <2> SUFFICES ASSUME SumInv PROVE TypeOK
    OBVIOUS
  <2>1. part = "creation" => Creation!TypeOK
    BY Creation!TypesFromInv DEF SumInv
  <2>2. part = "change" => Change!TypeOK
    BY DEF SumInv, Change!IInv
  <2>3. part = "chooser" => Ch!TypeOK
    BY ChooserTypes DEF SumInv
  <2>4. part = "database" => Db!TypeOK
    BY PartsAssumption, DbTypes DEF SumInv
  <2>5. part = "surface" => Se!TypeOK
    BY PartsAssumption, SurfaceTypes DEF SumInv
  <2>6. part = "runner" => Runner!TypeOK
    BY RunnerTypes DEF SumInv
  <2>7. part = "installer" => Install!TypeOK
    BY DEF SumInv, InstallInv
  <2> QED
    BY <2>1, <2>2, <2>3, <2>4, <2>5, <2>6, <2>7 DEF TypeOK
<1> QED
  BY <1>1, Invariance, PTL

\* One issue, one item for each project and one chain of cards, of any number
\* of projects, calls, workers and faults.
THEOREM ObjectsAreSingle == Spec => []OneOfEach
<1>1. SumInv => OneOfEach
  BY Creation!ObjectsFromInv DEF SumInv, OneOfEach
<1> QED
  BY <1>1, Invariance, PTL

\* Nothing is worked on before the Task is wholly bound.
THEOREM WorkWaitsForTheTask == Spec => []NoEarlyWork
<1>1. SumInv => NoEarlyWork
  BY Creation!WorkFromInv DEF SumInv, NoEarlyWork
<1> QED
  BY <1>1, Invariance, PTL

\* No step makes or shows anything while the barrier is raised, but the late
\* effect of a request that was on its way.
THEOREM BarrierIsSafe == Spec => SafePoint
<1>1. SumInv /\ [Next]_vars => [Creation!SafeStep]_(Creation!vars)
  <2> SUFFICES ASSUME SumInv, [Next]_vars
               PROVE  [Creation!SafeStep]_(Creation!vars)
    OBVIOUS
  <2>1. CASE part = "creation" /\ Creation!Next
    BY <2>1, PartsAssumption, Creation!SafeSteps DEF SumInv
  <2>2. CASE UNCHANGED creationVars
    BY <2>2 DEF creationVars, Creation!vars, Creation!dbVars,
                Creation!remoteVars
  <2> QED
    BY <2>1, <2>2 DEF Next, vars
<1>2. Spec => [][Creation!SafeStep]_(Creation!vars)
  BY <1>1, Invariance, PTL DEF Spec
<1> QED
  BY <1>2 DEF SafePoint, Creation!SafePoint, Creation!SafeStep

\* At most one version of a Task works, and none once it is stopped.
THEOREM OneVersionInWork == Spec => []OneVersion
<1>1. SumInv => OneVersion
  BY Change!VersionFromInv DEF SumInv, OneVersion
<1> QED
  BY <1>1, Invariance, PTL

\* A message is settled once, and by whom it was shown to.
THEOREM MessagesAnsweredOnce == Spec => []AnsweredOnce
<1>1. SumInv => AnsweredOnce
  BY Change!AnswersFromInv DEF SumInv, AnsweredOnce
<1> QED
  BY <1>1, Invariance, PTL

\* Whatever turns overlap, fail late or are answered late, a request is handed
\* on only after the user confirmed its preview and its Projects were checked,
\* and is served by one turn at a time and never again once it is created.
THEOREM ConfirmedTasksOnly == Spec => []OnlyConfirmedTasks
<1>1. SumInv => OnlyConfirmedTasks
  BY ChooserHands DEF SumInv, OnlyConfirmedTasks
<1> QED
  BY <1>1, Invariance, PTL

\* Nobody commits what it did not read, nobody is at work while the file is
\* restored or migrated, and a process that does nothing, or that died, keeps
\* no barrier and no lock file: for all threads and processes, and though a
\* process opens its barrier before it releases the file.
THEOREM FileIsShared == Spec => []DatabaseIsShared
<1>1. SumInv => DatabaseIsShared
  BY PartsAssumption, DbShared DEF SumInv, DatabaseIsShared
<1> QED
  BY <1>1, Invariance, PTL

\* However often a text is typed again after a crash, and whichever clients of
\* the session send it at once, each identity is recorded at most once, and a
\* text once for each acknowledgement and for the submission still pending.
THEOREM TextsRecordedOnce == Spec => []RecordedOnce
<1>1. SumInv => RecordedOnce
  BY PartsAssumption, SurfaceOnce DEF SumInv, RecordedOnce
<1> QED
  BY <1>1, Invariance, PTL

\* Whatever the card, the quota and Hermes do while a run is under way, Claude
\* continues only what an exhausted subscription stopped, and a worker that
\* reports success leaves a card that asks for no more work.
THEOREM RunsReportTruth == Spec => []RunReportsTruth
<1>1. SumInv => RunReportsTruth
  BY RunnerReports DEF SumInv, RunReportsTruth
<1> QED
  BY <1>1, Invariance, PTL

\* Without a marker all files nobody edited are of one version, and a run that
\* is about to say that it is done has them in the version it names.
THEOREM CheckoutIsOneVersion == Spec => []OneCompleteVersion
<1>1. SumInv => OneCompleteVersion
  BY DEF SumInv, InstallInv, OneCompleteVersion
<1> QED
  BY <1>1, Invariance, PTL
=============================================================================
