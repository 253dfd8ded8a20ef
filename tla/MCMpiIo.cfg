\* A fair call per rank and job, a crash at any point, and a second job.
CONSTANTS
  Rank = {r1, r2}
  Root = r1
  Empty = {}
  LastRank = r2
  Operation = {"write_mpi_collection", "read_mpi_with_options", "read_mpi_catalog", "read_mpi_raw", "read no members"}
  MaxFaults = 2
  MaxCalls = 1
  MaxJobs = 2
SPECIFICATION FairSpec
INVARIANTS MarkerTellsTheTruth OutcomesAgree ResourcesReleased
PROPERTIES AllCallsEnd
