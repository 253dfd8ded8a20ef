\* Two calls, by path or in a session, over two jobs; one failure and one crash.
CONSTANTS
  Rank = {r1, r2}
  Root = r1
  Name = {a}
  NoName = none
  Operation = {"write_hdf5_named", "append_hdf5_named", "read_hdf5_named", "read_hdf5_named_collection", "read_hdf5_catalog", "create", "open_read", "open_append", "create_group", "write", "read", "catalog", "close"}
  MaxFaults = 1
  MaxCalls = 2
  MaxJobs = 2
  MaxSessions = 2
SPECIFICATION Spec
INVARIANTS MarkerTellsTheTruth HandlesReleased RanksAgree
PROPERTIES UsableAfterFailure
