\* Two calls, by path or in sessions, over two jobs, one of which may fail; one crash.
CONSTANTS
  Rank = {r1, r2}
  Root = r1
  Name = {a, b}
  NoName = none
  Operation = {"write", "read", "named_catalog", "append_collection", "create", "open_read", "open_append", "write_named", "read_named", "catalog", "flush", "close"}
  MaxRecords = 2
  MaxFaults = 1
  MaxCalls = 2
  MaxJobs = 2
  MaxSessions = 2
SPECIFICATION Spec
INVARIANTS ScansTellTheTruth RanksAgree OffsetsAreBytes
PROPERTIES CommittedStays
SYMMETRY NamePermutations
