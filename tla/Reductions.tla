------------------------------ MODULE Reductions ------------------------------
(***************************************************************************)
(* Reductions of one communicator.  MPI pairs them by order alone: the     *)
(* n-th reduction a rank enters completes when every rank has entered an   *)
(* n-th one, and gives every rank the combination of the n-th words.  What *)
(* the ranks meant by it is theirs to agree: the place is only a label.    *)
(*                                                                         *)
(* No rank is ever more than one reduction ahead of another that is in     *)
(* one, so that the last entries of every rank, numbered modulo 4, tell    *)
(* everything a rank may still have to know.                               *)
(***************************************************************************)
EXTENDS Naturals, Sequences, FiniteSets

CONSTANT Rank            \* processes of the communicator

ASSUME RankAssumption == Rank # {} /\ IsFiniteSet(Rank)

VARIABLE log             \* log[r]: last reductions that r has entered, newest first

NoReductions == log = [r \in Rank |-> <<>>]

Turn(r) == IF log[r] = <<>> THEN 0 ELSE log[r][1].turn

Remembered(entries) == SubSeq(entries, 1, IF Len(entries) < 3 THEN Len(entries) ELSE 3)

Enter(r, p, w) ==
  log' = [log EXCEPT ![r] =
    Remembered(<<[turn |-> (Turn(r) + 1) % 4, place |-> p, word |-> w]>> \o @)]

(* The reduction rank r is in, or the last one it was in. *)
Own(r) == log[r][1]

(* How many reductions q is ahead of r. *)
Ahead(q, r) == ((Turn(q) + 4) - Turn(r)) % 4

(* Every rank has entered it, so that r may leave with the words of all.   *)
Complete(r) == \A q \in Rank : Ahead(q, r) \in {0, 1}

(* What q has contributed to the reduction of r. *)
WordOf(q, r) == log[q][1 + Ahead(q, r)].word

Words(r) == {WordOf(q, r) : q \in Rank}
WordsBefore(r) == {log[q][2 + Ahead(q, r)].word : q \in Rank}

Entries(r) == {log[r][i] : i \in DOMAIN log[r]}

(* Ranks never enter different reductions as their n-th: MPI would combine *)
(* words that have nothing to do with each other.                          *)
ReductionsMatch ==
  \A p, q \in Rank : \A x \in Entries(p), y \in Entries(q) :
    x.turn = y.turn => x.place = y.place
===============================================================================
