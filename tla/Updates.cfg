\* Two uploads of one line; two jobs of one device, with at most one overlap; two
\* transactions of the transport switch, four commands, one request cut off or one
\* command retried.
SPECIFICATION UpdatesSpec
CONSTANTS
    r1 = r1
    r2 = r2
    l1 = l1
    Release     = {r1, r2}
    Line        = {l1}
    LineOf     <- MCLineOf
    VersionOf  <- MCVersionOf
    Uploader    = {u1, u2}
    Node        = {d1}
    Job         = {j1, j2}
    NoRelease   = NoRelease
    LinesOf    <- MCLinesOf
    OtaThread   = {t1, t2}
    MaxOverlaps = 1
    MaxTx       = 2
    MaxSteps    = 4
    StepRetries = 1
    MaxRedone   = 1
    MaxCuts     = 1
INVARIANTS
    OneActivePerLine
    RowHasFile
    OneJobPerNode
    NoTargetAtRest
    CommitIsProved
    UpdatesInv
PROPERTIES
    JobsAreKept
SYMMETRY MCSymmetry
CHECK_DEADLOCK FALSE
