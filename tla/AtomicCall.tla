------------------------------ MODULE AtomicCall ------------------------------
(***************************************************************************)
(* What the callers of a collective operation of pencil-array are promised:*)
(* no rank leaves a call before every rank has made it, and all ranks learn*)
(* the same outcome of it.                                                 *)
(***************************************************************************)
EXTENDS Integers

CONSTANTS Rank, MaxCalls

VARIABLES
  called,     \* calls each rank has made
  returned,   \* calls each rank has returned from
  outcome     \* what the last of them ended in

vars == <<called, returned, outcome>>

Outcomes == {"ok", "refused", "callbackFailed"}

Init ==
  /\ called = [r \in Rank |-> 0]
  /\ returned = [r \in Rank |-> 0]
  /\ outcome = [r \in Rank |-> "none"]

Invoke(r) ==
  /\ called[r] = returned[r] /\ called[r] < MaxCalls
  /\ called' = [called EXCEPT ![r] = @ + 1]
  /\ UNCHANGED <<returned, outcome>>

Return(r, c) ==
  /\ returned[r] < called[r]
  /\ \A q \in Rank : called[q] >= called[r]
  /\ \A q \in Rank : returned[q] = called[r] => outcome[q] = c
  /\ returned' = [returned EXCEPT ![r] = called[r]]
  /\ outcome' = [outcome EXCEPT ![r] = c]
  /\ UNCHANGED called

Next == \E r \in Rank : Invoke(r) \/ \E c \in Outcomes : Return(r, c)

Spec == Init /\ [][Next]_vars
=============================================================================
