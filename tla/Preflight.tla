------------------------------ MODULE Preflight ------------------------------
(***************************************************************************)
(* The words of the preflight (preflight.rs): every rank contributes the   *)
(* same number of machine words, and the ranks find out whether they are   *)
(* all equal.  A header uses one reduction, of the words and of their      *)
(* complements; longer metadata uses a minimum and a maximum of each chunk. *)
(* The other modules agree on words by comparing them directly: this       *)
(* module says why they may.                                               *)
(***************************************************************************)
EXTENDS Integers

CONSTANT MaxWord         \* largest machine word: 2^64 - 1

ASSUME WordAssumption == MaxWord \in Nat

Word == 0..MaxWord

Complement(w) == MaxWord - w

Maximum(S) == CHOOSE x \in S : \A y \in S : y <= x
Minimum(S) == CHOOSE x \in S : \A y \in S : x <= y

(* all_reduce_into, word by word. *)
ReduceMax(words, n) == [i \in 1..n |-> Maximum({words[r][i] : r \in DOMAIN words})]
ReduceMin(words, n) == [i \in 1..n |-> Minimum({words[r][i] : r \in DOMAIN words})]

ExpandForMax(values, n) ==
  [i \in 1..(2 * n) |-> IF i <= n THEN values[i] ELSE Complement(values[i - n])]

(* Mutant: the second half is taken as it is. *)
SplitMinimumStraight(reduced, n) == [i \in 1..n |-> reduced[n + i]]

SplitMinimum(reduced, n) == [i \in 1..n |-> Complement(reduced[n + i])]
SplitMaximum(reduced, n) == [i \in 1..n |-> reduced[i]]

AgreeHeader(words, n) ==
  LET reduced == ReduceMax([r \in DOMAIN words |-> ExpandForMax(words[r], n)], 2 * n)
  IN  SplitMinimum(reduced, n) = SplitMaximum(reduced, n)

(* The chunks of a longer list are compared one after another. *)
AgreeWords(words, n, chunk) ==
  \A start \in {i \in 0..(n - 1) : \E k \in 0..n : i = chunk * k} :
    LET len   == IF start + chunk <= n THEN chunk ELSE n - start
        group == [r \in DOMAIN words |-> [i \in 1..len |-> words[r][start + i]]]
    IN  ReduceMin(group, len) = ReduceMax(group, len)

AllEqual(words, n) == \A p, q \in DOMAIN words : \A i \in 1..n : words[p][i] = words[q][i]
==============================================================================
