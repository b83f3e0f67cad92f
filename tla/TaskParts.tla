------------------------------ MODULE TaskParts ------------------------------
(***************************************************************************)
(* The components around a Task: its creation and the conversation before  *)
(* it, its messages and revisions, the gate of its database, the           *)
(* identities of what users type, the runner of a worker and the installer *)
(* of the Hermes change.  They share no state that these modules model, so *)
(* they are a sum: "part", chosen in the initial state, says which of them *)
(* moves.                                                                  *)
(***************************************************************************)
EXTENDS Integers

CONSTANTS
    Parts,      \* the parts looked at
    \* TaskCreation
    Project, Ordered, Rows, Calls, Workers, FlowSteps, CreationFaults,
    MaxCreationFaults, Barriers,
    \* TaskChange
    Messages, MaxTasks, ChangedProjects, Runs, ChangeFaults, MaxChangeFaults,
    \* TaskChooser
    Session, Turn, Trusted, MaxProjects, MaxRequests, MaxChooserFaults,
    \* TaskDatabase
    Thread, Process, Home, Does, MaxCommits, MaxDatabaseFaults,
    \* SurfaceEvents
    Client, Texts, Dirs, NoRow, NoAnswer, Replies, MaxTurns, MaxSurfaceFaults,
    \* SubscriptionRunner
    MaxRuns, MaxEvents, MaxOrdinary, MaxRunnerFaults,
    \* Installer
    Installation, NoInstallation, Files, MaxEdits, MaxInstallFaults

VARIABLES part,
          request, row, lock, call, issues, items, cards, moved, scan, wire,
          told, createFaults,                                 \* TaskCreation
          task, rev, msg, note, shown, run, spawner, faults,  \* TaskChange
          config, draft, chats, failed, pending, turn, requests, confirmed,
          checked, handed, created, chooserFaults,            \* TaskChooser
          at, barrier, files, db, backup, versions,
          databaseFaults,                                     \* TaskDatabase
          outbox, fresh, receipt, past, sent, typing, acked, turns,
          surfaceFaults,                                      \* SurfaceEvents
          card, spent, attempt, count, runnerFaults,     \* SubscriptionRunner
          content, marker, writer, install, edits,
          installFaults                                       \* Installer

creationVars == <<request, row, lock, call, issues, items, cards, moved, scan,
                  wire, told, createFaults>>
changeVars == <<task, rev, msg, note, shown, run, spawner, faults>>
chooserVars == <<config, draft, chats, failed, pending, turn, requests,
                 confirmed, checked, handed, created, chooserFaults>>
databaseVars == <<at, barrier, files, db, backup, versions, databaseFaults>>
surfaceVars == <<outbox, fresh, receipt, past, sent, typing, acked, turns,
                 surfaceFaults>>
runnerVars == <<card, spent, attempt, count, runnerFaults>>
installerVars == <<content, marker, writer, install, edits, installFaults>>
vars == <<part, creationVars, changeVars, chooserVars, databaseVars,
          surfaceVars, runnerVars, installerVars>>

\* The instances are of the modules that extend these two with theorems, so that
\* what is proved of them can be cited of their instances.
Creation == INSTANCE TaskCreation_proofs WITH
    Faults <- CreationFaults, MaxFaults <- MaxCreationFaults,
    Order <- Ordered, task <- request, faults <- createFaults

Change == INSTANCE TaskChange_proofs WITH
    Projects <- ChangedProjects, Faults <- ChangeFaults,
    MaxFaults <- MaxChangeFaults

Ch == INSTANCE TaskChooser WITH
    MaxFaults <- MaxChooserFaults, faults <- chooserFaults

Db == INSTANCE TaskDatabase WITH
    MaxFaults <- MaxDatabaseFaults, faults <- databaseFaults

Se == INSTANCE SurfaceEvents WITH
    MaxFaults <- MaxSurfaceFaults,
    Answers <- Replies, row <- receipt, turn <- typing, faults <- surfaceFaults

Runner == INSTANCE SubscriptionRunner WITH
    MaxFaults <- MaxRunnerFaults, run <- attempt, faults <- runnerFaults

Install == INSTANCE Installer WITH
    Process <- Installation, NoProcess <- NoInstallation,
    MaxFaults <- MaxInstallFaults,
    lock <- writer, run <- install, faults <- installFaults

\* What each of them assumes.
ASSUME PartsAssumption ==
    /\ Creation!CreationAssumption /\ Change!ChangeAssumption
    /\ Ch!ChooserAssumption /\ Db!DatabaseAssumption
    /\ Se!SurfaceAssumption /\ Runner!RunnerAssumption
    /\ Install!InstallerAssumption

Init ==
    /\ part \in Parts
    /\ Creation!Init /\ Change!Init /\ Ch!Init /\ Db!Init
    /\ Se!Init /\ Runner!Init /\ Install!Init
    \* the parts that rest have one initial state
    /\ part # "chooser" => config = "none"
    /\ part # "runner" => ~spent
    /\ part # "installer" => content[1] = "before"

Next ==
    \/ /\ part = "creation" /\ Creation!Next
       /\ UNCHANGED <<part, changeVars, chooserVars, databaseVars,
                      surfaceVars, runnerVars, installerVars>>
    \/ /\ part = "change" /\ Change!Next
       /\ UNCHANGED <<part, creationVars, chooserVars, databaseVars,
                      surfaceVars, runnerVars, installerVars>>
    \/ /\ part = "chooser" /\ Ch!Next
       /\ UNCHANGED <<part, creationVars, changeVars, databaseVars,
                      surfaceVars, runnerVars, installerVars>>
    \/ /\ part = "database" /\ Db!Next
       /\ UNCHANGED <<part, creationVars, changeVars, chooserVars,
                      surfaceVars, runnerVars, installerVars>>
    \/ /\ part = "surface" /\ Se!Next
       /\ UNCHANGED <<part, creationVars, changeVars, chooserVars,
                      databaseVars, runnerVars, installerVars>>
    \/ /\ part = "runner" /\ Runner!Next
       /\ UNCHANGED <<part, creationVars, changeVars, chooserVars,
                      databaseVars, surfaceVars, installerVars>>
    \/ /\ part = "installer" /\ Install!Next
       /\ UNCHANGED <<part, creationVars, changeVars, chooserVars,
                      databaseVars, surfaceVars, runnerVars>>

Spec == Init /\ [][Next]_vars

-----------------------------------------------------------------------------
(* Properties *)

\* Each part keeps its types.
TypeOK ==
    /\ part = "creation" => Creation!TypeOK
    /\ part = "change" => Change!TypeOK
    /\ part = "chooser" => Ch!TypeOK
    /\ part = "database" => Db!TypeOK
    /\ part = "surface" => Se!TypeOK
    /\ part = "runner" => Runner!TypeOK
    /\ part = "installer" => Install!TypeOK

\* TaskCreation: one issue, one item for each project and one chain of cards.
OneOfEach == part = "creation" => Creation!OneOfEach

\* TaskCreation: nothing is worked on before the Task is wholly bound.
NoEarlyWork == part = "creation" => Creation!NoEarlyWork

\* TaskCreation: nothing is made or shown once a stop is requested.
SafePoint == Creation!SafePoint

\* TaskChange: at most one version of the Task works, whoever is first.
OneVersion == part = "change" => Change!OneVersion

\* TaskChange: a message is answered by one run, and before its run finishes.
AnsweredOnce == part = "change" => Change!AnsweredOnce

\* TaskChange, a claim of the design: a stop of a Task in progress is accepted.
StopIsPossible == part = "change" => Change!StopIsPossible

\* TaskChooser: only what was confirmed leaves the conversation, once at a time.
OnlyConfirmedTasks == part = "chooser" => Ch!OnlyConfirmedTasks

\* TaskDatabase: the file is replaced only while nobody uses it.
DatabaseIsShared == part = "database" => Db!DatabaseIsShared

\* SurfaceEvents: what a user types is recorded once, however often it is sent.
RecordedOnce == part = "surface" => Se!RecordedOnce

\* SubscriptionRunner: what a run reports of its card and of the quota is true.
RunReportsTruth == part = "runner" => Runner!RunReportsTruth

\* Installer: without a marker all files have one version.
OneCompleteVersion == part = "installer" => Install!OneCompleteVersion
=============================================================================
