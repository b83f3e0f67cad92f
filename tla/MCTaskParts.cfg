\* One part at a time; the constants of each follow its name.
CONSTANTS
    p1 = p1
    p2 = p2
    t1 = t1
    t2 = t2
    \* TaskCreation
    Project = {p1, p2}
    Ordered <- MCOrder
    Rows <- MCRows
    Calls = 2
    Workers = 2
    FlowSteps <- MCFlowSteps
    CreationFaults = {"overlap", "die", "fail", "lost", "late", "close",
                      "edit", "release", "move"}
    MaxCreationFaults = 1
    Barriers = TRUE
    \* TaskChange: enough messages to change a previewed replacement and a
    \* confirmed one, and enough runs for the workers of a version, a retry, and
    \* the next version
    Messages = 2
    MaxTasks = 3
    ChangedProjects = 2
    Runs = 3
    ChangeFaults = {"crash", "silent", "restart"}
    MaxChangeFaults = 1
    \* TaskChooser: two overlapping turns of one session
    Session = {"s1"}
    Turn = {t1, t2}
    Trusted = {"none", "context"}
    MaxProjects = 2
    MaxRequests = 2
    MaxChooserFaults = 1
    \* TaskDatabase
    Thread = {"a1", "a2", "b1"}
    Process = {"a", "b"}
    Home <- MCHome
    Does <- MCDoes
    MaxCommits = 3
    MaxDatabaseFaults = 1
    \* SurfaceEvents: two clients of one session, started in different
    \* directories, and one text: texts differ in nothing, and each has an entry
    \* of its own
    Client = {t1, t2}
    Texts = {"text"}
    Dirs = {"a", "b"}
    NoRow = nobody
    NoAnswer = nobody
    Replies = {"answer"}
    MaxTurns = 3
    MaxSurfaceFaults = 1
    \* SubscriptionRunner: two runs; streams that exceed what the reader keeps
    MaxRuns = 2
    MaxEvents = 2
    MaxOrdinary = 1
    MaxRunnerFaults = 1
    \* Installer
    Installation = {"p", "q"}
    NoInstallation = nobody
    Files = 3
    MaxEdits = 1
    MaxInstallFaults = 3
    Parts = {"creation", "change", "chooser", "database",
             "surface", "runner", "installer"}
SYMMETRY Interchangeable
SPECIFICATION Spec
CHECK_DEADLOCK FALSE
INVARIANTS
    TypeOK
    OneOfEach
    NoEarlyWork
    OneVersion
    AnsweredOnce
    OnlyConfirmedTasks
    DatabaseIsShared
    RecordedOnce
    RunReportsTruth
    OneCompleteVersion
PROPERTY
    SafePoint
