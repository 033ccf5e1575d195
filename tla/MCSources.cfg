\* Every source: one key, a request, and two changes or failures.
SPECIFICATION FairSpec
CONSTANTS
    Key = {k1}
    Config = {c1}
    None = None
    MaxSize = 1
    Absent = Absent  Blank = Blank  Bad = Bad
    MaxWrites = 2
    Initial = {c1}
    MaxEvents = 2
    Reader = {r1}
    NoReader = NoReader
    Kinds = {"redis", "consul", "http", "kubernetes", "kubernetesLabel",
             "zookeeper", "sqlFull", "sqlIncremental", "fileDir", "fileSingle"}
PROPERTIES EventuallyCoherent OnlyGoneIsTaken CleanupCompletes HealthRecovers
