\* Two sync-metadata runs and one positions run over two protocols.
SPECIFICATION Spec
CONSTANTS
  Syncs = {s1, s2}
  Fetches = {f1}
  Protocols <- Registered
  Unchecked = {2}
  NS <- OneNamespace
  Requests <- RequestsOf
  s1 = s1
  s2 = s2
  f1 = f1
  AgeFlags <- Flags
  Owners = {"empty", "bad", "good"}
  DefaultAge = 2
  Time = {0, 2}
  MaxFaults = 1
  MaxActive = 2
  NoRow = NoRow
  ReadError = ReadError
INVARIANTS TypeOK SnapshotExplained RefreshedInOrder ReportIsWhole
PROPERTIES CachePerProtocol CommandsEnd
\* Every command ends and the clock is bounded.
CHECK_DEADLOCK FALSE
