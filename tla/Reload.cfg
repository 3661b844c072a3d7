CONSTANTS
    p = p
    a = a
    b = b
    c = c
    BuiltIn <- MCBuiltIn
    Custom <- MCCustom
    MaxCustom = 2
    Files <- MCFiles
    Cli <- MCCli
    MaxNodes = 2
SPECIFICATION Spec
INVARIANTS
    TypeOK
    RoundTrip
    LiveIsAccepted
    NothingStale
    ListedRuns
