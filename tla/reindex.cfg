\* A job and a command-line run over three versions, two of them published
\* meanwhile, with every failure and a crash at every point: overlapping
\* upserts, the reset under both, and the start after a crash.
SPECIFICATION FairSpec
CONSTANTS
    j1 = j1
    c1 = c1
    Jobs = {j1}
    Clis = {c1}
    NumVersions = 3
    NewVersions = {1, 3}
    BatchSizes = {2, 3}
    MaxBatchSize = 2
    Faults = TRUE
    Crashes = TRUE
INVARIANTS
    TypeOK
    SuccessIsTrue
    NoJobIsStuck
PROPERTIES
    EndedStaysEnded
    JobsEnd
