\* Two calls of two threads, with two failures or panics at any place.
CONSTANTS
  Thread = {t1, t2}
  t1 = t1
  t2 = t2
  Count = {1, 2}
  TimeLimit = {1}
  MaxCalls = 2
  MaxFaults = 2
SPECIFICATION Spec
INVARIANTS PlansWithOwnSettings InitComesFirst
