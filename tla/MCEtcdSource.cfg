\* Two requests and the watcher on one key, two changes in etcd.
SPECIFICATION FairSpec
CONSTANTS
    Key = {k1}
    Config = {c1}
    None = None
    MaxSize = 1
    Absent = Absent  Blank = Blank  Bad = Bad
    MaxWrites = 2
    Reader = {r1, r2}
    NoReader = NoReader
    MaxBackoff = 1
INVARIANTS TypeOK FlightOK UnhealthyOnlyWithoutWatch Coherent
PROPERTIES GetReturns HealthRecovers WatcherStops RoutesSettle
