SPECIFICATION Spec
CONSTANTS
    Plan <- MCPlan
    Present <- MCPresent
    Exe = "exe"
    VersionFile = "version"
    Operations = 3
INVARIANTS
    TypeOK
    AllOrNothing
    OldFilesSurvive
    HelperWaitsForExit
\* Nothing more happens once an installation is up to date.
CHECK_DEADLOCK FALSE
