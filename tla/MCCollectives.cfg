\* One call of three ranks; one of them may fail or make another call.
CONSTANTS
  Rank = {0, 1, 2}
  Limit = 2
  Block <- MCBlock
  Operation = {"sum", "sum_by", "min_by", "norm", "any", "gather", "zip_sum_by", "zip_norm_by", "map_reduce", "sum_many_by", "min_many_by", "norm_many_by", "map_reduce_many", "prepare", "apply_views"}
  Mistaken = {"norm", "sum_many_by", "apply_views"}
  MaxFaults = 1
SPECIFICATION Spec
INVARIANTS ResultIsGlobal ReductionsMatch
