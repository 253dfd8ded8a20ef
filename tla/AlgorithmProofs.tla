---------------------------- MODULE AlgorithmProofs ----------------------------
(***************************************************************************)
(* The exchanges of Preflight accept exactly equal words: for any set of   *)
(* ranks, finite or not, any number of words and any width.                *)
(*                                                                         *)
(* The floor rule gives every cell of an array to exactly one process, a   *)
(* transpose moves every cell exactly once, and the two ends of a pair     *)
(* agree about what they exchange: for any shape, grid and decomposition.  *)
(*                                                                         *)
(* The segments of an exchange fill the workspaces of both ends.  Products *)
(* and sums over finite sets are folds; what is proved of them is proved   *)
(* by looking at a smallest set for which it would fail.                   *)
(*                                                                         *)
(* The in-place conversions of real transforms keep every line, for any    *)
(* number of lines, length and stride.                                     *)
(***************************************************************************)
EXTENDS MCAlgorithms, FiniteSetTheorems, WellFoundedInduction, TLAPS

----------------------------------------------------------------------------
(* Agreement on words.                                                     *)

(* Every non-empty set of naturals has a least element.                    *)
LEMMA LeastNatural ==
  ASSUME NEW S \in SUBSET Nat, S # {}
  PROVE  \E x \in S : \A y \in S : x <= y
<1>1. PICK x \in S : \A y \in S : ~ (<<y, x>> \in OpToRel(<, Nat))
  BY WFMin, NatLessThanWellFounded, Zenon
<1>2. ASSUME NEW y \in S PROVE x <= y
  <2>1. x \in Nat /\ y \in Nat
    OBVIOUS
  <2>2. ~ (y < x)
    BY <1>1, <2>1 DEF OpToRel
  <2> QED BY <2>1, <2>2
<1> QED BY <1>2

(* The least word of a set of words is one of them.                        *)
LEMMA MinimumWord ==
  ASSUME NEW S \in SUBSET Word, S # {}
  PROVE  Minimum(S) \in S /\ \A y \in S : Minimum(S) <= y
<1>1. S \in SUBSET Nat
  BY WordAssumption DEF Word
<1>2. \E x \in S : \A y \in S : x <= y
  BY <1>1, LeastNatural
<1> QED BY <1>2 DEF Minimum

(* So is the greatest one: its complement is least among the complements.  *)
LEMMA MaximumWord ==
  ASSUME NEW S \in SUBSET Word, S # {}
  PROVE  Maximum(S) \in S /\ \A y \in S : y <= Maximum(S)
<1> DEFINE T == {Complement(x) : x \in S}
<1>0. \A w \in Word : Complement(w) \in Nat
  BY WordAssumption DEF Word, Complement
<1>1. T \in SUBSET Nat /\ T # {}
  BY <1>0
<1> HIDE DEF T
<1>2. PICK t \in T : \A u \in T : t <= u
  BY <1>1, LeastNatural
<1>3. PICK x \in S : t = Complement(x)
  BY <1>2 DEF T
<1>4. ASSUME NEW y \in S PROVE y <= x
  <2>1. Complement(x) <= Complement(y)
    BY <1>2, <1>3 DEF T
  <2> QED BY <2>1, WordAssumption DEF Complement, Word
<1>5. \E z \in S : \A y \in S : y <= z
  BY <1>4
<1> QED BY <1>5 DEF Maximum

(* One word of every rank: the least and the greatest are equal just when  *)
(* all are.                                                                *)
LEMMA EqualExtremes ==
  ASSUME NEW S \in SUBSET Word, S # {}
  PROVE  Minimum(S) = Maximum(S) <=> \A x, y \in S : x = y
<1>1. Minimum(S) \in S /\ \A y \in S : Minimum(S) <= y
  BY MinimumWord
<1>2. Maximum(S) \in S /\ \A y \in S : y <= Maximum(S)
  BY MaximumWord
<1>3. ASSUME Minimum(S) = Maximum(S), NEW x \in S, NEW y \in S PROVE x = y
  <2>0. x \in Word /\ y \in Word /\ Minimum(S) \in Word
    BY <1>1
  <2>1. x \in Nat /\ y \in Nat /\ Minimum(S) \in Nat
    BY <2>0, WordAssumption DEF Word
  <2>2. x <= Minimum(S) /\ Minimum(S) <= x /\ y <= Minimum(S) /\ Minimum(S) <= y
    BY <1>1, <1>2, <1>3
  <2> QED BY <2>1, <2>2
<1> QED BY <1>1, <1>2, <1>3

(* The greatest complement is the complement of the least word.            *)
LEMMA ComplementOfMaximum ==
  ASSUME NEW S \in SUBSET Word, S # {}
  PROVE  Complement(Maximum({Complement(x) : x \in S})) = Minimum(S)
<1> DEFINE T == {Complement(x) : x \in S}
<1>0. \A w \in Word : Complement(w) \in Word
  BY WordAssumption DEF Word, Complement
<1>1. T \in SUBSET Word /\ T # {}
  BY <1>0
<1> HIDE DEF T
<1>2. Maximum(T) \in T /\ \A y \in T : y <= Maximum(T)
  BY <1>1, MaximumWord
<1>3. Minimum(S) \in S /\ \A y \in S : Minimum(S) <= y
  BY MinimumWord
<1>4. PICK x \in S : Maximum(T) = Complement(x)
  BY <1>2 DEF T
<1>5. Complement(Minimum(S)) <= Complement(x)
  BY <1>2, <1>3, <1>4 DEF T
<1>6. Minimum(S) <= x
  BY <1>3
<1>7. x \in Nat /\ Minimum(S) \in Nat /\ x <= MaxWord /\ Minimum(S) <= MaxWord /\ MaxWord \in Nat
  <2>1. x \in Word /\ Minimum(S) \in Word
    BY <1>3
  <2> QED BY <2>1, WordAssumption DEF Word
<1>8. x = Minimum(S)
  BY <1>5, <1>6, <1>7 DEF Complement
<1>9. Complement(Complement(x)) = x
  BY <1>7 DEF Complement
<1> QED BY <1>4, <1>8, <1>9 DEF T

(* agree_header: one MAX reduction of the words and their complements      *)
(* accepts the words of the ranks exactly when they are all equal.         *)
THEOREM HeaderAgreementIsExact ==
  ASSUME NEW R, R # {}, NEW n \in Nat, NEW words \in [R -> [1..n -> Word]]
  PROVE  AgreeHeader(words, n) <=> AllEqual(words, n)
<1> DEFINE S(i) == {words[r][i] : r \in R}
           paired == [r \in DOMAIN words |-> ExpandForMax(words[r], n)]
           reduced == ReduceMax(paired, 2 * n)
<1>1. ASSUME NEW i \in 1..n PROVE S(i) \in SUBSET Word /\ S(i) # {}
  OBVIOUS
<1>2. ASSUME NEW i \in 1..n
      PROVE  reduced[i] = Maximum(S(i)) /\ reduced[n + i] = Maximum({Complement(x) : x \in S(i)})
  <2>1. i \in 1..(2 * n) /\ n + i \in 1..(2 * n) /\ i <= n /\ ~ (n + i <= n) /\ (n + i) - n = i
    OBVIOUS
  <2>2. \A r \in R : paired[r][i] = words[r][i] /\ paired[r][n + i] = Complement(words[r][i])
    BY <2>1 DEF ExpandForMax
  <2>3. {paired[r][i] : r \in DOMAIN paired} = S(i)
    BY <2>2
  <2>4. {paired[r][n + i] : r \in DOMAIN paired} = {Complement(x) : x \in S(i)}
    BY <2>2
  <2> HIDE DEF paired
  <2> QED BY <2>1, <2>3, <2>4 DEF ReduceMax
<1> HIDE DEF paired
<1>3. ASSUME NEW i \in 1..n
      PROVE  SplitMinimum(reduced, n)[i] = Minimum(S(i)) /\ SplitMaximum(reduced, n)[i] = Maximum(S(i))
  <2>1. Complement(Maximum({Complement(x) : x \in S(i)})) = Minimum(S(i))
    BY <1>1, ComplementOfMaximum
  <2> QED BY <1>2, <2>1 DEF SplitMinimum, SplitMaximum
<1>4. SplitMinimum(reduced, n) = SplitMaximum(reduced, n)
        <=> \A i \in 1..n : SplitMinimum(reduced, n)[i] = SplitMaximum(reduced, n)[i]
  BY DEF SplitMinimum, SplitMaximum
<1>5. ASSUME NEW i \in 1..n
      PROVE  SplitMinimum(reduced, n)[i] = SplitMaximum(reduced, n)[i] <=> \A x, y \in S(i) : x = y
  <2>1. S(i) \in SUBSET Word /\ S(i) # {}
    BY <1>1
  <2>2. Minimum(S(i)) = Maximum(S(i)) <=> \A x, y \in S(i) : x = y
    BY <2>1, EqualExtremes
  <2> HIDE DEF S, reduced
  <2> QED BY <1>3, <2>2
<1>6. SplitMinimum(reduced, n) = SplitMaximum(reduced, n) <=> \A i \in 1..n : \A x, y \in S(i) : x = y
  BY <1>4, <1>5
<1>7. AgreeHeader(words, n) <=> SplitMinimum(reduced, n) = SplitMaximum(reduced, n)
  BY DEF AgreeHeader, paired
<1>8. AllEqual(words, n) <=> \A i \in 1..n : \A x, y \in S(i) : x = y
  <2>1. ASSUME AllEqual(words, n), NEW i \in 1..n, NEW x \in S(i), NEW y \in S(i) PROVE x = y
    BY <2>1 DEF AllEqual
  <2>2. ASSUME \A i \in 1..n : \A x, y \in S(i) : x = y PROVE AllEqual(words, n)
    <3>1. ASSUME NEW p \in R, NEW q \in R, NEW i \in 1..n PROVE words[p][i] = words[q][i]
      <4>1. words[p][i] \in S(i) /\ words[q][i] \in S(i)
        OBVIOUS
      <4> HIDE DEF S
      <4> QED BY <2>2, <4>1
    <3> QED BY <3>1 DEF AllEqual
  <2> QED BY <2>1, <2>2
<1> QED BY <1>6, <1>7, <1>8

(* agree_words: so does a minimum and a maximum of each chunk, whatever    *)
(* the length of a chunk: the last one may be shorter.                     *)
THEOREM WordAgreementIsExact ==
  ASSUME NEW R, R # {}, NEW n \in Nat, NEW chunk \in Nat \ {0}, NEW words \in [R -> [1..n -> Word]]
  PROVE  AgreeWords(words, n, chunk) <=> AllEqual(words, n)
<1> DEFINE S(i) == {words[r][i] : r \in R}
           Starts == {i \in 0..(n - 1) : \E k \in 0..n : i = chunk * k}
           Size(start) == IF start + chunk <= n THEN chunk ELSE n - start
           group(start) == [r \in DOMAIN words |-> [i \in 1..Size(start) |-> words[r][start + i]]]
           Equal(start) == ReduceMin(group(start), Size(start)) = ReduceMax(group(start), Size(start))
<1>1. ASSUME NEW i \in 1..n PROVE S(i) \in SUBSET Word /\ S(i) # {}
  OBVIOUS
<1>2. ASSUME NEW start \in Starts
      PROVE  Equal(start) <=> \A i \in 1..Size(start) : \A x, y \in S(start + i) : x = y
  <2>1. Size(start) \in Nat /\ \A i \in 1..Size(start) : start + i \in 1..n
    OBVIOUS
  <2>2. ASSUME NEW i \in 1..Size(start)
        PROVE  {group(start)[r][i] : r \in DOMAIN group(start)} = S(start + i)
    OBVIOUS
  <2> HIDE DEF Size, group, S
  <2>3. Equal(start) <=> \A i \in 1..Size(start) : Minimum(S(start + i)) = Maximum(S(start + i))
    BY <2>2 DEF ReduceMin, ReduceMax
  <2>4. ASSUME NEW i \in 1..Size(start)
        PROVE  Minimum(S(start + i)) = Maximum(S(start + i)) <=> \A x, y \in S(start + i) : x = y
    BY <1>1, <2>1, EqualExtremes
  <2> QED BY <2>3, <2>4
<1>3. ASSUME NEW i \in 1..n
      PROVE  \E start \in Starts : \E k \in 1..Size(start) : i = start + k
  <2> DEFINE start == chunk * ((i - 1) \div chunk)
  <2>1. (i - 1) \div chunk \in Nat /\ i - 1 = start + ((i - 1) % chunk) /\ (i - 1) % chunk \in 0..(chunk - 1)
    BY SMTT(30)
  <2>2. start \in Nat /\ start <= i - 1 /\ i - start \in 1..chunk
    BY <2>1
  <2>3. \E k \in 0..n : start = chunk * k
    <3>1. (i - 1) \div chunk \in 0..n
      BY SMTT(30)
    <3> QED BY <3>1
  <2> HIDE DEF start
  <2>4. start \in 0..(n - 1)
    BY <2>2
  <2>5. i - start \in 1..Size(start) /\ i = start + (i - start)
    BY <2>2
  <2> QED BY <2>3, <2>4, <2>5
<1>4. ASSUME NEW start \in Starts, NEW i \in 1..Size(start) PROVE start + i \in 1..n
  OBVIOUS
<1>5. AgreeWords(words, n, chunk) <=> \A start \in Starts : Equal(start)
  BY DEF AgreeWords
<1>6. AllEqual(words, n) <=> \A i \in 1..n : \A x, y \in S(i) : x = y
  <2>1. ASSUME AllEqual(words, n), NEW i \in 1..n, NEW x \in S(i), NEW y \in S(i) PROVE x = y
    BY <2>1 DEF AllEqual
  <2>2. ASSUME \A i \in 1..n : \A x, y \in S(i) : x = y PROVE AllEqual(words, n)
    <3>1. ASSUME NEW p \in R, NEW q \in R, NEW i \in 1..n PROVE words[p][i] = words[q][i]
      <4>1. words[p][i] \in S(i) /\ words[q][i] \in S(i)
        OBVIOUS
      <4> HIDE DEF S
      <4> QED BY <2>2, <4>1
    <3> QED BY <3>1 DEF AllEqual
  <2> QED BY <2>1, <2>2
<1> HIDE DEF Starts, Size, Equal, S
<1>7. (\A start \in Starts : Equal(start)) <=> \A i \in 1..n : \A x, y \in S(i) : x = y
  <2>1. ASSUME \A start \in Starts : Equal(start), NEW i \in 1..n PROVE \A x, y \in S(i) : x = y
    <3>1. PICK start \in Starts : \E k \in 1..Size(start) : i = start + k
      BY <1>3
    <3>2. PICK k \in 1..Size(start) : i = start + k
      BY <3>1
    <3> QED BY <1>2, <2>1, <3>2
  <2>2. ASSUME \A i \in 1..n : \A x, y \in S(i) : x = y, NEW start \in Starts PROVE Equal(start)
    BY <1>2, <1>4, <2>2
  <2> QED BY <2>1, <2>2
<1> QED BY <1>5, <1>6, <1>7

----------------------------------------------------------------------------
(* Greatest and least elements.                                            *)

(* A set of naturals with an upper bound has a greatest element.           *)
LEMMA GreatestNatural ==
  ASSUME NEW S \in SUBSET Nat, S # {}, NEW bound \in Nat, \A x \in S : x <= bound
  PROVE  Max(S) \in S /\ \A x \in S : x <= Max(S)
<1> DEFINE T == {bound - x : x \in S}
<1>1. T \in SUBSET Nat /\ T # {}
  <2>1. ASSUME NEW x \in S PROVE bound - x \in Nat
    <3>1. x \in Nat /\ x <= bound
      OBVIOUS
    <3> QED BY <3>1
  <2> QED BY <2>1
<1>2. PICK t \in T : \A u \in T : t <= u
  BY <1>1, LeastNatural
<1>3. PICK x \in S : t = bound - x
  BY <1>2
<1>4. ASSUME NEW y \in S PROVE y <= x
  <2>1. bound - x <= bound - y
    BY <1>2, <1>3
  <2>2. x \in Nat /\ y \in Nat
    OBVIOUS
  <2> QED BY <2>1, <2>2
<1>5. \E z \in S : \A y \in S : z >= y
  <2>1. \A y \in S : x >= y
    BY <1>4
  <2> QED BY <2>1
<1> QED
  <2>1. Max(S) \in S /\ \A y \in S : Max(S) >= y
    BY <1>5 DEF Max
  <2> QED BY <2>1

(* The greatest and the least of two numbers. *)
LEMMA OfTwo ==
  ASSUME NEW a \in Nat, NEW b \in Nat
  PROVE  /\ Max({a, b}) = IF a <= b THEN b ELSE a
         /\ Min({a, b}) = IF a <= b THEN a ELSE b
<1>1. \E x \in {a, b} : \A y \in {a, b} : x >= y
  OBVIOUS
<1>2. Max({a, b}) \in {a, b} /\ \A y \in {a, b} : Max({a, b}) >= y
  BY <1>1 DEF Max
<1>3. \E x \in {a, b} : \A y \in {a, b} : x =< y
  OBVIOUS
<1>4. Min({a, b}) \in {a, b} /\ \A y \in {a, b} : Min({a, b}) =< y
  BY <1>3 DEF Min
<1> QED BY <1>2, <1>4

----------------------------------------------------------------------------
(* The floor rule.                                                         *)

LEMMA Quotient ==
  ASSUME NEW a \in Nat, NEW p \in Nat \ {0}
  PROVE  /\ a \div p \in Nat
         /\ p * (a \div p) <= a /\ a < p * (a \div p) + p
  OBVIOUS

(* Everything below a boundary is below it by the product rule.            *)
LEMMA BelowBoundary ==
  ASSUME NEW length \in Nat, NEW parts \in Nat \ {0}, NEW i \in Nat, NEW x \in Nat
  PROVE  /\ Boundary(length, parts, i) \in Nat
         /\ x < Boundary(length, parts, i) <=> (x + 1) * parts <= length * i
<1> DEFINE q == (length * i) \div parts
<1>1. length * i \in Nat
  OBVIOUS
<1>2. q \in Nat /\ parts * q <= length * i /\ length * i < parts * q + parts
  BY <1>1, Quotient
<1> HIDE DEF q
<1>3. ASSUME x < q PROVE (x + 1) * parts <= length * i
  <2>1. PICK k \in Nat : q = (x + 1) + k
    <3>1. q - (x + 1) \in Nat
      BY <1>2, <1>3
    <3> QED BY <3>1, <1>2
  <2>2. parts * q = parts * (x + 1) + parts * k
    BY <2>1
  <2>3. parts * k \in Nat /\ parts * (x + 1) \in Nat
    BY <2>1
  <2> QED BY <2>2, <2>3, <1>2, <1>1
<1>4. ASSUME ~ (x < q) PROVE ~ ((x + 1) * parts <= length * i)
  <2>1. PICK k \in Nat : x = q + k
    <3>1. x - q \in Nat
      BY <1>2, <1>4
    <3> QED BY <3>1, <1>2
  <2>2. (x + 1) * parts = parts * q + parts * k + parts
    BY <2>1, <1>2
  <2>3. parts * k \in Nat /\ parts * q \in Nat
    BY <2>1, <1>2
  <2> QED BY <2>2, <2>3, <1>2, <1>1
<1>5. Boundary(length, parts, i) = q
  BY DEF Boundary, q
<1> QED BY <1>2, <1>3, <1>4, <1>5

(* Products grow with their second factor. *)
LEMMA Monotone ==
  ASSUME NEW length \in Nat, NEW i \in Nat, NEW j \in Nat, i <= j
  PROVE  length * i <= length * j
<1>1. PICK k \in Nat : j = i + k
  <2>1. j - i \in Nat
    OBVIOUS
  <2> QED BY <2>1
<1>2. length * j = length * i + length * k
  BY <1>1
<1>3. length * k \in Nat /\ length * i \in Nat
  BY <1>1
<1> QED BY <1>2, <1>3

(* Coordinate c owns position x of an axis. *)
Owns(length, parts, c, x) ==
  /\ PartitionRange(length, parts, c).start <= x
  /\ x < PartitionRange(length, parts, c).end

LEMMA OwnsByProducts ==
  ASSUME NEW length \in Nat, NEW parts \in Nat \ {0}, NEW c \in Nat, NEW x \in Nat
  PROVE  Owns(length, parts, c, x)
           <=> ~ ((x + 1) * parts <= length * c) /\ (x + 1) * parts <= length * (c + 1)
<1>1. /\ Boundary(length, parts, c) \in Nat
      /\ x < Boundary(length, parts, c) <=> (x + 1) * parts <= length * c
  BY BelowBoundary
<1>2. x < Boundary(length, parts, c + 1) <=> (x + 1) * parts <= length * (c + 1)
  BY BelowBoundary
<1>3. Boundary(length, parts, c) <= x <=> ~ (x < Boundary(length, parts, c))
  BY <1>1
<1> QED BY <1>1, <1>2, <1>3 DEF Owns, PartitionRange

(* partition_range: exactly one coordinate owns a position of an axis, and *)
(* no coordinate owns anything else.                                       *)
LEMMA UniqueOwner ==
  ASSUME NEW length \in Nat, NEW parts \in Nat \ {0}, NEW x \in 0..(length - 1)
  PROVE  \E c \in 0..(parts - 1) :
           /\ Owns(length, parts, c, x)
           /\ \A i \in Nat : Owns(length, parts, i, x) => i = c
<1> DEFINE a == (x + 1) * parts
           c == (a - 1) \div length
<1>1. length \in Nat \ {0} /\ x \in Nat
  OBVIOUS
<1>2. a \in Nat /\ a - 1 \in Nat
  <2>1. a = x * parts + parts /\ x * parts \in Nat
    BY <1>1
  <2> QED BY <2>1
<1>3. c \in Nat /\ length * c <= a - 1 /\ a - 1 < length * c + length
  BY <1>1, <1>2, Quotient
<1> HIDE DEF c
<1>4. length * (c + 1) = length * c + length /\ length * c \in Nat
  BY <1>1, <1>3
<1>5. Owns(length, parts, c, x)
  <2>1. ~ (a <= length * c) /\ a <= length * (c + 1)
    BY <1>2, <1>3, <1>4
  <2> QED BY <2>1, <1>1, <1>3, OwnsByProducts
<1>6. c < parts
  <2> SUFFICES ASSUME parts <= c PROVE FALSE
    BY <1>3
  <2>1. length * parts <= length * c
    BY <1>1, <1>3, Monotone
  <2>2. parts * (x + 1) <= parts * length
    BY <1>1, Monotone
  <2>3. a = parts * (x + 1) /\ length * parts = parts * length /\ length * parts \in Nat
    BY <1>1
  <2> QED BY <2>1, <2>2, <2>3, <1>2, <1>3, <1>4
<1>7. ASSUME NEW i \in Nat, Owns(length, parts, i, x) PROVE i = c
  <2>1. ~ (a <= length * i) /\ a <= length * (i + 1)
    BY <1>1, <1>7, OwnsByProducts
  <2>2. length * i \in Nat /\ length * (i + 1) \in Nat
    BY <1>1
  <2>3. CASE i < c
    <3>1. length * (i + 1) <= length * c
      BY <1>1, <1>3, <2>3, Monotone
    <3> QED BY <2>1, <2>2, <3>1, <1>2, <1>3, <1>4
  <2>4. CASE c < i
    <3>1. length * (c + 1) <= length * i
      BY <1>1, <1>3, <2>4, Monotone
    <3> QED BY <2>1, <2>2, <3>1, <1>2, <1>3, <1>4
  <2> QED BY <2>3, <2>4, <1>3
<1> QED
  <2>1. c \in 0..(parts - 1)
    BY <1>3, <1>6
  <2> QED BY <2>1, <1>5, <1>7

(* What a coordinate owns is on the axis. *)
LEMMA OwnedIsOnTheAxis ==
  ASSUME NEW length \in Nat, NEW parts \in Nat \ {0}, NEW c \in 0..(parts - 1), NEW x \in Nat,
         Owns(length, parts, c, x)
  PROVE  x < length
<1>1. (x + 1) * parts <= length * (c + 1)
  BY OwnsByProducts
<1>2. length * (c + 1) <= length * parts
  BY Monotone
<1>3. SUFFICES ASSUME length <= x PROVE FALSE
  OBVIOUS
<1>4. parts * (length + 1) <= parts * (x + 1)
  BY <1>3, Monotone
<1>5. parts * (length + 1) = length * parts + parts /\ length * parts \in Nat
  OBVIOUS
<1>6. length * (c + 1) \in Nat /\ (x + 1) * parts \in Nat /\ parts * (x + 1) = (x + 1) * parts
  OBVIOUS
<1> QED BY <1>1, <1>2, <1>4, <1>5, <1>6

(* Boundaries are ordered and do not leave the axis. *)
LEMMA BoundaryInAxis ==
  ASSUME NEW length \in Nat, NEW parts \in Nat \ {0}, NEW i \in 0..parts
  PROVE  Boundary(length, parts, i) \in 0..length
<1>1. Boundary(length, parts, i) \in Nat
  BY BelowBoundary
<1>2. SUFFICES ASSUME length < Boundary(length, parts, i) PROVE FALSE
  BY <1>1
<1>3. (length + 1) * parts <= length * i
  BY <1>2, BelowBoundary
<1>4. length * i <= length * parts
  BY Monotone
<1>5. (length + 1) * parts = length * parts + parts /\ length * parts \in Nat /\ length * i \in Nat
  OBVIOUS
<1> QED BY <1>3, <1>4, <1>5

----------------------------------------------------------------------------
(* Coordinates, regions and their cells.                                   *)

LEMMA CoordinatesOf ==
  ASSUME NEW M \in Nat \ {0}, NEW bound \in Nat, NEW grid \in [1..M -> 1..bound]
  PROVE  Coordinates(grid) = {c \in [1..M -> Nat] : \A m \in 1..M : c[m] < grid[m]}
<1>1. Range(grid) \in SUBSET Nat /\ Range(grid) # {} /\ \A x \in Range(grid) : x <= bound
  BY DEF Range
<1>2. Max(Range(grid)) \in Nat /\ \A x \in Range(grid) : x <= Max(Range(grid))
  BY <1>1, GreatestNatural
<1>3. \A m \in 1..M : grid[m] \in Nat /\ grid[m] <= Max(Range(grid))
  BY <1>2 DEF Range
<1>4. DOMAIN grid = 1..M
  OBVIOUS
<1> DEFINE top == Max(Range(grid))
<1> HIDE DEF top
<1>5. ASSUME NEW c \in [1..M -> Nat], \A m \in 1..M : c[m] < grid[m]
      PROVE  c \in [1..M -> 0..(top - 1)]
  <2>1. ASSUME NEW m \in 1..M PROVE c[m] \in 0..(top - 1)
    <3>1. c[m] \in Nat /\ c[m] < grid[m] /\ grid[m] \in Nat /\ grid[m] <= top /\ top \in Nat
      BY <1>2, <1>3, <1>5 DEF top
    <3> QED BY <3>1
  <2> QED BY <2>1
<1>6. ASSUME NEW c \in [1..M -> 0..(top - 1)] PROVE c \in [1..M -> Nat]
  BY <1>6
<1> QED BY <1>4, <1>5, <1>6 DEF Coordinates, top

(* Numbers below a bound that is in an interval. *)
LEMMA BelowBound ==
  ASSUME NEW bound \in Nat, NEW n, NEW i
  PROVE  /\ n \in 0..bound /\ i \in Nat /\ i < n => n \in Nat \ {0} /\ i \in 0..(n - 1)
         /\ n \in 1..bound => n \in Nat \ {0}
         /\ n \in 0..bound => n \in Nat
<1>1. ASSUME n \in 0..bound, i \in Nat, i < n PROVE n \in Nat \ {0} /\ i \in 0..(n - 1)
  BY <1>1
<1> QED BY <1>1

LEMMA CoordinateOf ==
  ASSUME NEW M \in Nat \ {0}, NEW bound \in Nat, NEW grid \in [1..M -> 1..bound], NEW c
  PROVE  c \in Coordinates(grid) <=> c \in [1..M -> Nat] /\ \A m \in 1..M : c[m] < grid[m]
<1>1. Coordinates(grid) = {x \in [1..M -> Nat] : \A m \in 1..M : x[m] < grid[m]}
  BY CoordinatesOf, Zenon
<1> QED BY <1>1

Region(N, bound) == [1..N -> [start : 0..bound, end : 0..bound]]

(* A cell of a region is a point between its starts and ends. *)
LEMMA CellsOf ==
  ASSUME NEW N \in Nat \ {0}, NEW bound \in Nat, NEW region \in Region(N, bound), NEW c
  PROVE  c \in Cells(region) <=>
           /\ c \in [1..N -> Nat]
           /\ \A a \in 1..N : region[a].start <= c[a] /\ c[a] < region[a].end
<1> DEFINE ends == {region[a].end : a \in 1..N}
           top == Max(ends)
<1>1. DOMAIN region = 1..N /\ \A a \in 1..N : region[a].start \in 0..bound /\ region[a].end \in 0..bound
  BY DEF Region
<1>2. ends \in SUBSET Nat /\ ends # {} /\ \A x \in ends : x <= bound
  <2>1. 1 \in 1..N
    OBVIOUS
  <2> QED BY <1>1, <2>1
<1>3. top \in Nat /\ \A x \in ends : x <= top
  BY <1>2, GreatestNatural
<1>4. \A a \in 1..N : region[a].end <= top
  BY <1>3
<1> HIDE DEF top
<1>5. ASSUME c \in [1..N -> Nat],
             \A a \in 1..N : region[a].start <= c[a] /\ c[a] < region[a].end
      PROVE  c \in [1..N -> 0..top]
  <2>1. ASSUME NEW a \in 1..N PROVE c[a] \in 0..top
    <3>1. c[a] \in Nat /\ c[a] < region[a].end /\ region[a].end \in Nat /\ region[a].end <= top
      BY <1>1, <1>4, <1>5
    <3> QED BY <3>1, <1>3
  <2> QED BY <2>1, <1>5
<1>6. ASSUME c \in [1..N -> 0..top] PROVE c \in [1..N -> Nat]
  BY <1>6
<1>7. Cells(region) =
        {x \in [1..N -> 0..top] :
           \A a \in 1..N : region[a].start <= x[a] /\ x[a] < region[a].end}
  BY <1>1 DEF Cells, top
<1> QED BY <1>5, <1>6, <1>7

(* intersect_ranges: the cells of both. *)
LEMMA IntersectionCells ==
  ASSUME NEW N \in Nat \ {0}, NEW bound \in Nat,
         NEW left \in Region(N, bound), NEW right \in Region(N, bound), NEW c
  PROVE  c \in Cells(IntersectRanges(left, right)) <=> c \in Cells(left) /\ c \in Cells(right)
<1> DEFINE both == IntersectRanges(left, right)
           start(a) == IF left[a].start <= right[a].start THEN right[a].start ELSE left[a].start
           end(a) == IF left[a].end <= right[a].end THEN left[a].end ELSE right[a].end
<1>1. \A a \in 1..N : /\ left[a].start \in 0..bound /\ left[a].end \in 0..bound
                      /\ right[a].start \in 0..bound /\ right[a].end \in 0..bound
  BY DEF Region
<1>2. both = [a \in 1..N |-> [start |-> start(a),
                              end |-> IF start(a) < end(a) THEN end(a) ELSE start(a)]]
  <2>1. ASSUME NEW a \in 1..N
        PROVE  /\ Max({left[a].start, right[a].start}) = start(a)
               /\ Min({left[a].end, right[a].end}) = end(a)
    <3>1. /\ left[a].start \in Nat /\ left[a].end \in Nat
          /\ right[a].start \in Nat /\ right[a].end \in Nat
      BY <1>1
    <3> QED BY <1>1, <3>1, OfTwo
  <2>2. DOMAIN left = 1..N
    BY DEF Region
  <2> QED BY <2>1, <2>2 DEF IntersectRanges
<1> HIDE DEF both

<1>3. both \in Region(N, bound)
  BY <1>1, <1>2 DEF Region
<1>4. ASSUME NEW x \in Nat, NEW a \in 1..N
      PROVE  both[a].start <= x /\ x < both[a].end
               <=> /\ left[a].start <= x /\ x < left[a].end
                   /\ right[a].start <= x /\ x < right[a].end
  <2>1. both[a].start = start(a) /\ both[a].end = IF start(a) < end(a) THEN end(a) ELSE start(a)
    BY <1>2
  <2> QED BY <1>1, <2>1
<1>5. c \in Cells(both) <=>
        /\ c \in [1..N -> Nat]
        /\ \A a \in 1..N : both[a].start <= c[a] /\ c[a] < both[a].end
  BY <1>3, CellsOf
<1>6. /\ c \in Cells(left) <=>
           /\ c \in [1..N -> Nat]
           /\ \A a \in 1..N : left[a].start <= c[a] /\ c[a] < left[a].end
      /\ c \in Cells(right) <=>
           /\ c \in [1..N -> Nat]
           /\ \A a \in 1..N : right[a].start <= c[a] /\ c[a] < right[a].end
  BY CellsOf
<1>7. ASSUME c \in [1..N -> Nat]
      PROVE  (\A a \in 1..N : both[a].start <= c[a] /\ c[a] < both[a].end)
               <=> /\ \A a \in 1..N : left[a].start <= c[a] /\ c[a] < left[a].end
                   /\ \A a \in 1..N : right[a].start <= c[a] /\ c[a] < right[a].end
  <2>1. \A a \in 1..N : c[a] \in Nat
    BY <1>7
  <2> QED BY <1>4, <2>1
<1> QED BY <1>5, <1>6, <1>7 DEF both

(* Each topology axis splits an axis of its own. *)
Plan(M, N) == {d \in [1..M -> 1..N] : \A i, k \in 1..M : d[i] = d[k] => i = k}

(* Along an axis that is split, a process has what its coordinate on the   *)
(* topology axis that splits it owns; along the others, everything.        *)
SplitBy(local, shape, grid, coords, d, M, N) ==
  /\ \A m \in 1..M : local[d[m]] = PartitionRange(shape[d[m]], grid[m], coords[m])
  /\ \A a \in 1..N : (\A m \in 1..M : d[m] # a) => local[a] = [start |-> 0, end |-> shape[a]]

(* local_ranges_for. *)
LEMMA LocalRangesOf ==
  ASSUME NEW N \in Nat \ {0}, NEW M \in Nat \ {0}, NEW bound \in Nat,
         NEW shape \in [1..N -> 0..bound], NEW grid \in [1..M -> 1..bound],
         NEW d \in Plan(M, N), NEW coords \in Coordinates(grid)
  PROVE  /\ LocalRanges(shape, grid, coords, d) \in Region(N, bound)
         /\ SplitBy(LocalRanges(shape, grid, coords, d), shape, grid, coords, d, M, N)
<1> DEFINE local == LocalRanges(shape, grid, coords, d)
<1>1. DOMAIN grid = 1..M /\ DOMAIN shape = 1..N /\ d \in [1..M -> 1..N]
  BY DEF Plan
<1>2. local = [a \in 1..N |->
        IF \E m \in 1..M : d[m] = a
        THEN LET m == CHOOSE m \in 1..M : d[m] = a
             IN  PartitionRange(shape[a], grid[m], coords[m])
        ELSE [start |-> 0, end |-> shape[a]]]
  BY <1>1 DEF LocalRanges
<1> HIDE DEF local
<1>3. ASSUME NEW m \in 1..M PROVE local[d[m]] = PartitionRange(shape[d[m]], grid[m], coords[m])
  <2>1. (CHOOSE k \in 1..M : d[k] = d[m]) = m
    BY DEF Plan
  <2>2. d[m] \in 1..N /\ \E k \in 1..M : d[k] = d[m]
    BY <1>1
  <2> QED BY <1>2, <2>1, <2>2
<1>4. ASSUME NEW a \in 1..N, \A m \in 1..M : d[m] # a
      PROVE  local[a] = [start |-> 0, end |-> shape[a]]
  BY <1>2, <1>4
<1>5. ASSUME NEW a \in 1..N PROVE local[a] \in [start : 0..bound, end : 0..bound]
  <2>1. shape[a] \in Nat /\ shape[a] <= bound
    OBVIOUS
  <2>2. CASE \A m \in 1..M : d[m] # a
    <3>1. local[a] = [start |-> 0, end |-> shape[a]]
      BY <1>4, <2>2
    <3>2. 0 \in 0..bound /\ shape[a] \in 0..bound
      BY <2>1
    <3> QED BY <3>1, <3>2
  <2>3. ASSUME NEW m \in 1..M, d[m] = a PROVE local[a] \in [start : 0..bound, end : 0..bound]
    <3>1. coords[m] \in Nat /\ coords[m] < grid[m] /\ grid[m] \in Nat \ {0}
      <4>1. coords \in [1..M -> Nat] /\ \A k \in 1..M : coords[k] < grid[k]
        BY CoordinateOf, Zenon
      <4>2. grid[m] \in 1..bound
        OBVIOUS
      <4> QED BY <4>1, <4>2
    <3>2. /\ Boundary(shape[a], grid[m], coords[m]) \in 0..shape[a]
          /\ Boundary(shape[a], grid[m], coords[m] + 1) \in 0..shape[a]
      <4>1. coords[m] \in 0..grid[m] /\ coords[m] + 1 \in 0..grid[m]
        BY <3>1
      <4> QED BY <2>1, <3>1, <4>1, BoundaryInAxis
    <3>3. local[a] = [start |-> Boundary(shape[a], grid[m], coords[m]),
                      end |-> Boundary(shape[a], grid[m], coords[m] + 1)]
      BY <1>3, <2>3 DEF PartitionRange
    <3> QED BY <2>1, <3>2, <3>3
  <2> QED BY <2>2, <2>3
<1>6. local \in Region(N, bound)
  BY <1>2, <1>5 DEF Region
<1> QED BY <1>3, <1>4, <1>6 DEF local, SplitBy

(* A process holds a point of the array. *)
Holds(shape, grid, coords, d, M, N, c) ==
  /\ c \in [1..N -> Nat] /\ \A a \in 1..N : c[a] < shape[a]
  /\ \A m \in 1..M : Owns(shape[d[m]], grid[m], coords[m], c[d[m]])

LEMMA OwnedCells ==
  ASSUME NEW N \in Nat \ {0}, NEW M \in Nat \ {0}, NEW bound \in Nat,
         NEW shape \in [1..N -> 0..bound], NEW grid \in [1..M -> 1..bound],
         NEW d \in Plan(M, N), NEW coords \in Coordinates(grid), NEW c
  PROVE  c \in Cells(LocalRanges(shape, grid, coords, d)) <=> Holds(shape, grid, coords, d, M, N, c)
<1> DEFINE local == LocalRanges(shape, grid, coords, d)
           Inside(a) == local[a].start <= c[a] /\ c[a] < local[a].end
<1>1. /\ local \in Region(N, bound)
      /\ \A m \in 1..M : local[d[m]] = PartitionRange(shape[d[m]], grid[m], coords[m])
      /\ \A a \in 1..N : (\A m \in 1..M : d[m] # a) => local[a] = [start |-> 0, end |-> shape[a]]
  <2>1. local \in Region(N, bound) /\ SplitBy(local, shape, grid, coords, d, M, N)
    BY LocalRangesOf, Zenon
  <2> HIDE DEF local
  <2> QED BY <2>1 DEF SplitBy
<1>2. c \in Cells(local) <=> c \in [1..N -> Nat] /\ \A a \in 1..N : Inside(a)
  BY <1>1, CellsOf
<1>3. d \in [1..M -> 1..N]
  BY DEF Plan
<1>4. \A m \in 1..M : Inside(d[m]) <=> Owns(shape[d[m]], grid[m], coords[m], c[d[m]])
  BY <1>1 DEF Owns
<1> HIDE DEF local
<1>5. ASSUME c \in [1..N -> Nat], \A a \in 1..N : Inside(a)
      PROVE  Holds(shape, grid, coords, d, M, N, c)
  <2>1. \A m \in 1..M : Owns(shape[d[m]], grid[m], coords[m], c[d[m]])
    BY <1>3, <1>4, <1>5
  <2>2. ASSUME NEW a \in 1..N PROVE c[a] < shape[a]
    <3>1. CASE \A m \in 1..M : d[m] # a
      <4>1. local[a] = [start |-> 0, end |-> shape[a]] /\ Inside(a)
        BY <1>1, <1>5, <3>1
      <4> QED BY <4>1
    <3>2. ASSUME NEW m \in 1..M, d[m] = a PROVE c[a] < shape[a]
      <4>1. coords \in [1..M -> Nat] /\ coords[m] < grid[m]
        BY CoordinateOf, Zenon
      <4>2. grid[m] \in Nat \ {0} /\ coords[m] \in 0..(grid[m] - 1) /\ shape[a] \in Nat /\ c[a] \in Nat
        <5>1. /\ grid[m] \in 1..bound /\ grid[m] \in 0..bound /\ coords[m] \in Nat
              /\ shape[a] \in 0..bound /\ c[a] \in Nat
          BY <4>1, <1>5
        <5>2. bound \in Nat
          OBVIOUS
        <5> QED BY <4>1, <5>1, <5>2, BelowBound, Zenon
      <4>3. Owns(shape[a], grid[m], coords[m], c[a])
        BY <2>1, <3>2
      <4> QED BY <4>2, <4>3, OwnedIsOnTheAxis
    <3> QED BY <3>1, <3>2
  <2> QED BY <1>5, <2>1, <2>2 DEF Holds
<1>6. ASSUME Holds(shape, grid, coords, d, M, N, c), NEW a \in 1..N PROVE Inside(a)
  <2>1. CASE \A m \in 1..M : d[m] # a
    <3>1. local[a] = [start |-> 0, end |-> shape[a]]
      BY <1>1, <2>1
    <3>2. c[a] \in Nat /\ c[a] < shape[a]
      BY <1>6 DEF Holds
    <3> QED BY <3>1, <3>2
  <2>2. ASSUME NEW m \in 1..M, d[m] = a PROVE Inside(a)
    <3>1. Owns(shape[a], grid[m], coords[m], c[a])
      BY <1>6, <2>2 DEF Holds
    <3> QED BY <3>1, <2>2, <1>4
  <2> QED BY <2>1, <2>2
<1>7. Holds(shape, grid, coords, d, M, N, c) => c \in [1..N -> Nat]
  BY DEF Holds
<1> QED BY <1>2, <1>5, <1>6, <1>7 DEF local

----------------------------------------------------------------------------
(* Every cell once.                                                        *)

(* An array of N axes on a grid of M. *)
Setting(N, M, bound, shape, grid) ==
  /\ N \in Nat \ {0} /\ M \in Nat \ {0} /\ bound \in Nat
  /\ shape \in [1..N -> 0..bound] /\ grid \in [1..M -> 1..bound]

InArray(N, shape, c) == c \in [1..N -> Nat] /\ \A a \in 1..N : c[a] < shape[a]

(* The processes that hold a point of the array. *)
Owners(shape, grid, d, c) ==
  {r \in Coordinates(grid) : c \in Cells(LocalRanges(shape, grid, r, d))}

(* Every point of the array is held by exactly one process of the grid.    *)
THEOREM OneOwner ==
  ASSUME NEW N, NEW M, NEW bound, NEW shape, NEW grid, Setting(N, M, bound, shape, grid),
         NEW d \in Plan(M, N), NEW c, InArray(N, shape, c)
  PROVE  Cardinality(Owners(shape, grid, d, c)) = 1
<1>0. /\ N \in Nat \ {0} /\ M \in Nat \ {0} /\ bound \in Nat
      /\ shape \in [1..N -> 0..bound] /\ grid \in [1..M -> 1..bound]
      /\ c \in [1..N -> Nat] /\ \A a \in 1..N : c[a] < shape[a]
  BY DEF Setting, InArray
<1> USE <1>0
<1> DEFINE Held(m, i) == Owns(shape[d[m]], grid[m], i, c[d[m]])
           Only(m, i) == Held(m, i) /\ \A k \in Nat : Held(m, k) => k = i
           owner == [m \in 1..M |-> CHOOSE i \in 0..(grid[m] - 1) : Only(m, i)]
<1>1. ASSUME NEW m \in 1..M PROVE \E i \in 0..(grid[m] - 1) : Only(m, i)
  <2>1. d[m] \in 1..N /\ grid[m] \in 1..bound
    BY DEF Plan
  <2>2. shape[d[m]] \in Nat /\ c[d[m]] \in 0..(shape[d[m]] - 1) /\ grid[m] \in Nat \ {0}
    <3>1. shape[d[m]] \in 0..bound /\ c[d[m]] \in Nat /\ c[d[m]] < shape[d[m]]
      BY <2>1
    <3> QED BY <1>0, <2>1, <3>1, BelowBound, Zenon
  <2> QED BY <2>2, UniqueOwner
<1> HIDE DEF Held
<1>2. \A m \in 1..M : owner[m] \in 0..(grid[m] - 1) /\ Only(m, owner[m])
  BY <1>1
<1> HIDE DEF owner
<1>3. owner \in Coordinates(grid)
  <2>1. owner \in [1..M -> Nat]
    <3>1. \A m \in 1..M : owner[m] \in Nat
      <4>1. ASSUME NEW m \in 1..M PROVE owner[m] \in Nat
        <5>1. grid[m] \in 1..bound /\ owner[m] \in 0..(grid[m] - 1)
          BY <1>2
        <5> QED BY <5>1
      <4> QED BY <4>1
    <3> QED BY <3>1 DEF owner
  <2>2. ASSUME NEW m \in 1..M PROVE owner[m] < grid[m]
    <3>1. grid[m] \in 1..bound /\ owner[m] \in 0..(grid[m] - 1)
      BY <1>2
    <3> QED BY <3>1
  <2> QED BY <2>1, <2>2, CoordinateOf, Zenon
<1>4. ASSUME NEW r \in Coordinates(grid)
      PROVE  c \in Cells(LocalRanges(shape, grid, r, d)) <=> r = owner
  <2>1. c \in Cells(LocalRanges(shape, grid, r, d)) <=> \A m \in 1..M : Held(m, r[m])
    <3>1. c \in Cells(LocalRanges(shape, grid, r, d)) <=> Holds(shape, grid, r, d, M, N, c)
      BY OwnedCells, Zenon
    <3> QED BY <3>1 DEF Holds, Held
  <2>2. r \in [1..M -> Nat] /\ owner \in [1..M -> Nat]
    BY <1>3, CoordinateOf, Zenon
  <2>3. ASSUME NEW m \in 1..M PROVE Held(m, r[m]) <=> r[m] = owner[m]
    BY <1>2, <2>2
  <2> QED BY <2>1, <2>2, <2>3
<1>5. Owners(shape, grid, d, c) = {owner}
  BY <1>3, <1>4 DEF Owners
<1> QED BY <1>5, FS_Singleton

(* The process with coordinate i on the line of r along topology axis m. *)
PeerAt(r, m, i) == [r EXCEPT ![m] = i]

(* Peers differ from a process in the changed axis alone. *)
OnLine(p, r, grid, m, i, M) ==
  p \in Coordinates(grid) /\ p[m] = i /\ \A k \in 1..M : k # m => p[k] = r[k]

LEMMA PeerIs ==
  ASSUME NEW N, NEW M, NEW bound, NEW shape, NEW grid, Setting(N, M, bound, shape, grid),
         NEW r \in Coordinates(grid), NEW m \in 1..M, NEW i \in 0..(grid[m] - 1)
  PROVE  OnLine(PeerAt(r, m, i), r, grid, m, i, M)
<1>0. M \in Nat \ {0} /\ bound \in Nat /\ grid \in [1..M -> 1..bound]
  BY DEF Setting
<1> USE <1>0
<1>1. r \in [1..M -> Nat] /\ \A k \in 1..M : r[k] < grid[k]
  BY CoordinateOf, Zenon
<1>2. grid[m] \in 1..bound
  OBVIOUS
<1>3. i \in Nat /\ i < grid[m]
  BY <1>2
<1> DEFINE p == PeerAt(r, m, i)
<1>4. p \in [1..M -> Nat] /\ p[m] = i /\ \A k \in 1..M : k # m => p[k] = r[k]
  BY <1>1, <1>3 DEF PeerAt
<1> HIDE DEF p
<1>5. \A k \in 1..M : p[k] < grid[k]
  BY <1>1, <1>3, <1>4
<1>6. p \in Coordinates(grid)
  BY <1>4, <1>5, CoordinateOf, Zenon
<1> QED BY <1>4, <1>6 DEF p, OnLine

(* Two decompositions that differ in topology axis m alone. *)
DifferAt(d, e, m, M) == \A k \in 1..M : k # m => d[k] = e[k]

(* The peers that a process sends a point to. *)
Receivers(shape, grid, d, e, r, m, c) ==
  {p \in PeerCoords(grid, r, m) : c \in Cells(SendRegion(shape, grid, d, e, r, p))}

(* build_peer_metadata: what a process holds in one layout is in the       *)
(* destination of exactly one of its peers in the other.                   *)
THEOREM OnePeer ==
  ASSUME NEW N, NEW M, NEW bound, NEW shape, NEW grid, Setting(N, M, bound, shape, grid),
         NEW d \in Plan(M, N), NEW e \in Plan(M, N), NEW m \in 1..M, DifferAt(d, e, m, M),
         NEW r \in Coordinates(grid), NEW c \in Cells(LocalRanges(shape, grid, r, d))
  PROVE  Cardinality(Receivers(shape, grid, d, e, r, m, c)) = 1
<1>0. /\ N \in Nat \ {0} /\ M \in Nat \ {0} /\ bound \in Nat
      /\ shape \in [1..N -> 0..bound] /\ grid \in [1..M -> 1..bound]
  BY DEF Setting
<1> USE <1>0
<1> DEFINE Peer(i) == PeerAt(r, m, i)
           Held(i) == Owns(shape[e[m]], grid[m], i, c[e[m]])
<1>1. Holds(shape, grid, r, d, M, N, c)
  BY OwnedCells, Zenon
<1>2. e[m] \in 1..N /\ grid[m] \in 1..bound
  BY DEF Plan
<1>3. shape[e[m]] \in Nat /\ c[e[m]] \in 0..(shape[e[m]] - 1) /\ grid[m] \in Nat \ {0}
  <2>1. shape[e[m]] \in 0..bound /\ c[e[m]] \in Nat /\ c[e[m]] < shape[e[m]]
    BY <1>1, <1>2 DEF Holds
  <2>2. shape[e[m]] \in Nat /\ c[e[m]] \in 0..(shape[e[m]] - 1)
    <3>1. shape[e[m]] \in Nat
      BY <1>0, <2>1, BelowBound, Zenon
    <3> QED BY <2>1, <3>1
  <2>3. grid[m] \in Nat \ {0}
    BY <1>0, <1>2, BelowBound, Zenon
  <2> QED BY <2>2, <2>3
<1>4. PICK i \in 0..(grid[m] - 1) : Held(i) /\ \A k \in Nat : Held(k) => k = i
  BY <1>3, UniqueOwner
<1> HIDE DEF Held
<1>5. ASSUME NEW k \in 0..(grid[m] - 1)
      PROVE  c \in Cells(SendRegion(shape, grid, d, e, r, Peer(k))) <=> Held(k)
  <2> DEFINE p == Peer(k)
             left == LocalRanges(shape, grid, r, d)
             right == LocalRanges(shape, grid, p, e)
  <2>1. p \in Coordinates(grid) /\ p[m] = k /\ \A j \in 1..M : j # m => p[j] = r[j]
    <3>1. OnLine(p, r, grid, m, k, M)
      BY PeerIs
    <3> QED BY <3>1 DEF OnLine
  <2> HIDE DEF p
  <2>2. left \in Region(N, bound) /\ right \in Region(N, bound)
    BY <2>1, LocalRangesOf, Zenon
  <2>3. c \in Cells(IntersectRanges(left, right)) <=> c \in Cells(left) /\ c \in Cells(right)
    BY <2>2, IntersectionCells, Zenon
  <2>4. c \in Cells(right) <=> Holds(shape, grid, p, e, M, N, c)
    BY <2>1, OwnedCells, Zenon
  <2>5. Holds(shape, grid, p, e, M, N, c) <=> Held(k)
    <3>1. ASSUME NEW j \in 1..M, j # m PROVE Owns(shape[e[j]], grid[j], p[j], c[e[j]])
      BY <1>1, <2>1, <3>1 DEF Holds, DifferAt
    <3>2. Owns(shape[e[m]], grid[m], p[m], c[e[m]]) <=> Held(k)
      BY <2>1 DEF Held
    <3> QED BY <1>1, <3>1, <3>2 DEF Holds
  <2>6. SendRegion(shape, grid, d, e, r, p) = IntersectRanges(left, right)
    BY DEF SendRegion
  <2> QED BY <2>3, <2>4, <2>5, <2>6 DEF p
<1>6. ASSUME NEW p \in PeerCoords(grid, r, m)
      PROVE  c \in Cells(SendRegion(shape, grid, d, e, r, p)) <=> p = Peer(i)
  <2>1. PICK k \in 0..(grid[m] - 1) : p = Peer(k)
    BY DEF PeerCoords, PeerAt
  <2>2. r \in [1..M -> Nat]
    BY CoordinateOf, Zenon
  <2>3. k \in Nat
    BY <1>2
  <2>4. Held(k) <=> k = i
    BY <1>4, <2>3
  <2>5. Peer(k)[m] = k /\ Peer(i)[m] = i
    BY <2>2 DEF PeerAt
  <2> HIDE DEF Peer
  <2> QED BY <1>5, <2>1, <2>4, <2>5
<1>7. Peer(i) \in PeerCoords(grid, r, m)
  BY DEF PeerCoords, PeerAt
<1>8. Receivers(shape, grid, d, e, r, m, c) = {Peer(i)}
  BY <1>6, <1>7 DEF Receivers
<1> QED BY <1>8, FS_Singleton

(* intersect_ranges does not mind the order of its arguments. *)
LEMMA IntersectionIsSymmetric ==
  ASSUME NEW left, NEW right, DOMAIN left = DOMAIN right
  PROVE  IntersectRanges(left, right) = IntersectRanges(right, left)
<1>1. ASSUME NEW a
      PROVE  /\ {left[a].start, right[a].start} = {right[a].start, left[a].start}
             /\ {left[a].end, right[a].end} = {right[a].end, left[a].end}
  OBVIOUS
<1> QED BY <1>1 DEF IntersectRanges

(* What a process expects of a peer on the way from d to e is what it      *)
(* sends to it on the way back.                                            *)
LEMMA ReceiveIsSendBack ==
  ASSUME NEW shape, NEW grid, NEW d, NEW e, NEW r, NEW p
  PROVE  ReceiveRegion(shape, grid, d, e, r, p) = SendRegion(shape, grid, e, d, r, p)
<1> DEFINE left == LocalRanges(shape, grid, p, d)
           right == LocalRanges(shape, grid, r, e)
<1>1. DOMAIN left = DOMAIN shape /\ DOMAIN right = DOMAIN shape
  BY DEF LocalRanges
<1> HIDE DEF left, right
<1>2. IntersectRanges(left, right) = IntersectRanges(right, left)
  BY <1>1, IntersectionIsSymmetric
<1> QED BY <1>2 DEF ReceiveRegion, SendRegion, left, right

(* The two ends of a pair compute one and the same region. *)
LEMMA OneRegion ==
  ASSUME NEW shape, NEW grid, NEW d, NEW e, NEW r, NEW p
  PROVE  SendRegion(shape, grid, d, e, r, p) = ReceiveRegion(shape, grid, d, e, p, r)
  BY DEF SendRegion, ReceiveRegion

(* The peers a process sends to are those that expect something of it, on  *)
(* the same way, and those it expects something of on the way back: what   *)
(* Transpose assumes of its exchange patterns (RegionAssumption).          *)
THEOREM ExchangesArePaired ==
  ASSUME NEW M \in Nat \ {0}, NEW bound \in Nat, NEW grid \in [1..M -> 1..bound],
         NEW shape, NEW d, NEW e, NEW m \in 1..M,
         NEW p \in Coordinates(grid), NEW q \in Coordinates(grid)
  PROVE  /\ q \in SendPeers(shape, grid, d, e, p, m) <=> p \in ReceivePeers(shape, grid, d, e, q, m)
         /\ q \in SendPeers(shape, grid, d, e, p, m) <=> q \in ReceivePeers(shape, grid, e, d, p, m)
<1>1. ASSUME NEW r \in Coordinates(grid), NEW s \in Coordinates(grid), s \in PeerCoords(grid, r, m)
      PROVE  r \in PeerCoords(grid, s, m)
  <2>1. PICK i \in 0..(grid[m] - 1) : s = [r EXCEPT ![m] = i]
    BY <1>1 DEF PeerCoords
  <2>2. r \in [1..M -> Nat] /\ \A k \in 1..M : r[k] < grid[k]
    BY CoordinateOf, Zenon
  <2>3. r = [s EXCEPT ![m] = r[m]]
    BY <2>1, <2>2
  <2>4. r[m] \in 0..(grid[m] - 1)
    <3>1. grid[m] \in 1..bound /\ r[m] \in Nat /\ r[m] < grid[m]
      BY <2>2
    <3> QED BY <3>1
  <2> QED BY <2>3, <2>4 DEF PeerCoords
<1>2. q \in PeerCoords(grid, p, m) <=> p \in PeerCoords(grid, q, m)
  BY <1>1
<1>3. SendRegion(shape, grid, d, e, p, q) = ReceiveRegion(shape, grid, d, e, q, p)
  BY OneRegion
<1>4. ReceiveRegion(shape, grid, e, d, p, q) = SendRegion(shape, grid, d, e, p, q)
  BY ReceiveIsSendBack
<1> QED BY <1>2, <1>3, <1>4 DEF SendPeers, ReceivePeers

----------------------------------------------------------------------------
(* The properties of the run.                                              *)

LEMMA TransposeInput ==
  ASSUME NEW t \in Transposes
  PROVE  /\ t.shape \in [1..3 -> Nat] /\ t.grid \in [1..2 -> Nat]
         /\ \E bound \in Nat : t.shape \in [1..3 -> 0..bound] /\ t.grid \in [1..2 -> 1..bound]
         /\ t.source \in Plan(2, 3) /\ t.destination \in Plan(2, 3)
         /\ Changed(t) \in 1..2 /\ DifferAt(t.source, t.destination, Changed(t), 2)
         /\ t.source[Changed(t)] # t.destination[Changed(t)]
<1>1. /\ t.shape \in [1..3 -> 0..MaxLength] /\ t.grid \in [1..2 -> 1..MaxParts]
      /\ t.source \in Decomposition /\ t.destination \in Decomposition
      /\ Cardinality(ChangedAxes(t.source, t.destination)) = 1
  BY DEF Transposes
<1>2. MaxLength \in Nat /\ MaxParts \in Nat
  BY BoundAssumption
<1>3. \E bound \in Nat : t.shape \in [1..3 -> 0..bound] /\ t.grid \in [1..2 -> 1..bound]
  <2> DEFINE bound == MaxLength + MaxParts
  <2>1. bound \in Nat /\ 0..MaxLength \subseteq 0..bound /\ 1..MaxParts \subseteq 1..bound
    BY <1>2
  <2> HIDE DEF bound
  <2>2. t.shape \in [1..3 -> 0..bound] /\ t.grid \in [1..2 -> 1..bound]
    BY <1>1, <2>1
  <2> QED BY <2>1, <2>2
<1>4. ASSUME NEW d \in Decomposition PROVE d \in Plan(2, 3)
  <2>1. d \in [1..2 -> 1..3] /\ d[1] # d[2]
    BY DEF Decomposition
  <2>2. ASSUME NEW i \in 1..2, NEW k \in 1..2, d[i] = d[k] PROVE i = k
    <3>1. (i = 1 \/ i = 2) /\ (k = 1 \/ k = 2)
      OBVIOUS
    <3> QED BY <2>1, <2>2, <3>1
  <2> QED BY <2>1, <2>2 DEF Plan
<1>5. /\ Changed(t) \in 1..2 /\ DifferAt(t.source, t.destination, Changed(t), 2)
      /\ t.source[Changed(t)] # t.destination[Changed(t)]
  <2> DEFINE axes == ChangedAxes(t.source, t.destination)
  <2>1. axes = {k \in 1..2 : t.source[k] # t.destination[k]}
    BY <1>1 DEF ChangedAxes, Decomposition
  <2>2. IsFiniteSet(1..2) /\ axes \in SUBSET (1..2)
    <3>1. IsFiniteSet(1..2)
      <4>1. 1 \in Int /\ 2 \in Int
        OBVIOUS
      <4> QED BY <4>1, FS_Interval, Zenon
    <3> QED BY <2>1, <3>1
  <2>3. IsFiniteSet(axes)
    BY <2>2, FS_Subset
  <2>4. PICK m : axes = {m}
    BY <1>1, <2>3, FS_Singleton
  <2>5. Changed(t) = m
    BY <2>4 DEF Changed
  <2> QED BY <2>1, <2>4, <2>5 DEF DifferAt
<1>6. t.shape \in [1..3 -> Nat] /\ t.grid \in [1..2 -> Nat]
  BY <1>1, <1>2
<1> QED BY <1>1, <1>3, <1>4, <1>5, <1>6

LEMMA InputOwners ==
  ASSUME NEW t \in Transposes, NEW d \in Plan(2, 3),
         NEW c \in Cells([a \in 1..3 |-> [start |-> 0, end |-> t.shape[a]]])
  PROVE  Cardinality({r \in Ranks(t) : c \in Cells(Owned(t, r, d))}) = 1
<1>1. PICK bound \in Nat : t.shape \in [1..3 -> 0..bound] /\ t.grid \in [1..2 -> 1..bound]
  BY TransposeInput
<1> DEFINE region == [a \in 1..3 |-> [start |-> 0, end |-> t.shape[a]]]
<1>2. region \in Region(3, bound)
  <2>1. \A a \in 1..3 : t.shape[a] \in 0..bound /\ 0 \in 0..bound
    BY <1>1
  <2> QED BY <2>1 DEF Region
<1>3. c \in [1..3 -> Nat] /\ \A a \in 1..3 : region[a].start <= c[a] /\ c[a] < region[a].end
  <2> HIDE DEF region
  <2>1. 3 \in Nat \ {0} /\ bound \in Nat /\ c \in Cells(region)
    BY DEF region
  <2> QED BY <1>2, <2>1, CellsOf, Zenon
<1>4. InArray(3, t.shape, c)
  BY <1>3 DEF InArray
<1>5. Setting(3, 2, bound, t.shape, t.grid)
  BY <1>1 DEF Setting
<1>6. Cardinality(Owners(t.shape, t.grid, d, c)) = 1
  BY <1>4, <1>5, OneOwner
<1> QED BY <1>6 DEF Ranks, Owned, Owners

LEMMA InputPeers ==
  ASSUME NEW t \in Transposes, NEW r \in Ranks(t)
  PROVE  /\ \A c \in Cells(Owned(t, r, t.source)) :
              Cardinality({p \in Peers(t, r) : c \in Cells(Sent(t, r, p))}) = 1
         /\ \A c \in Cells(Owned(t, r, t.destination)) :
              Cardinality({p \in Peers(t, r) : c \in Cells(Received(t, r, p))}) = 1
<1>1. PICK bound \in Nat : t.shape \in [1..3 -> 0..bound] /\ t.grid \in [1..2 -> 1..bound]
  BY TransposeInput
<1>2. /\ t.source \in Plan(2, 3) /\ t.destination \in Plan(2, 3)
      /\ Changed(t) \in 1..2 /\ DifferAt(t.source, t.destination, Changed(t), 2)
  BY TransposeInput
<1>3. DifferAt(t.destination, t.source, Changed(t), 2)
  BY <1>2 DEF DifferAt
<1> DEFINE m == Changed(t)
<1>4. Setting(3, 2, bound, t.shape, t.grid) /\ r \in Coordinates(t.grid)
  BY <1>1 DEF Setting, Ranks
<1> HIDE DEF m
<1>5. ASSUME NEW c \in Cells(LocalRanges(t.shape, t.grid, r, t.source))
      PROVE  Cardinality(Receivers(t.shape, t.grid, t.source, t.destination, r, m, c)) = 1
  BY <1>2, <1>3, <1>4, OnePeer DEF m
<1>6. ASSUME NEW c \in Cells(LocalRanges(t.shape, t.grid, r, t.destination))
      PROVE  Cardinality(Receivers(t.shape, t.grid, t.destination, t.source, r, m, c)) = 1
  BY <1>2, <1>3, <1>4, OnePeer DEF m
<1>7. \A p : Received(t, r, p) = SendRegion(t.shape, t.grid, t.destination, t.source, r, p)
  BY ReceiveIsSendBack DEF Received
<1>8. \A c : {p \in Peers(t, r) : c \in Cells(Received(t, r, p))}
               = Receivers(t.shape, t.grid, t.destination, t.source, r, Changed(t), c)
  BY <1>7 DEF Receivers, Peers
<1>9. \A c : {p \in Peers(t, r) : c \in Cells(Sent(t, r, p))}
               = Receivers(t.shape, t.grid, t.source, t.destination, r, Changed(t), c)
  BY DEF Receivers, Peers, Sent
<1> QED BY <1>5, <1>6, <1>8, <1>9 DEF Owned, m

(* Inputs do not change while a remap is under way. *)
LEMMA SameInput ==
  ASSUME [Next]_<<input, work>>
  PROVE  input' = input
  BY DEF Next, Routes, Exchange, Apply

(* What an input is. *)
InputType ==
  /\ input.kind = "transpose" => input \in Transposes
  /\ input.kind = "buffer" => input \in Buffers
  /\ input.kind = "remap" => input \in Remaps
  /\ input.kind = "words" => input \in Headers

LEMMA InputTypeInit == Init => InputType
<1> SUFFICES ASSUME Init PROVE InputType
  OBVIOUS
<1>1. input \in Transposes \/ input \in Buffers \/ input \in Remaps \/ input \in Headers
  BY DEF Init
<1>2. input \in Transposes => input.kind = "transpose"
  BY DEF Transposes
<1>3. input \in Buffers => input.kind = "buffer"
  BY DEF Buffers
<1>4. input \in Remaps => input.kind = "remap"
  BY DEF Remaps
<1>5. input \in Headers => input.kind = "words"
  BY DEF Headers
<1> QED BY <1>1, <1>2, <1>3, <1>4, <1>5 DEF InputType

(* Nobody loses a cell or gets one twice, in an array or in an exchange,   *)
(* for every length of the axes and every process grid.                    *)
THEOREM CellsAreOwnedOnce == Spec => []OwnersTileTheArray
<1>1. InputType => OwnersTileTheArray
  <2> SUFFICES ASSUME InputType, input.kind = "transpose"
               PROVE  OwnersTileTheArray
    BY DEF OwnersTileTheArray, RanksTileTheArray, PeersTileTheRegion
  <2>1. input \in Transposes
    BY DEF InputType
  <2>2. input.source \in Plan(2, 3)
    BY <2>1, TransposeInput
  <2>3. RanksTileTheArray
    BY <2>1, <2>2, InputOwners DEF RanksTileTheArray
  <2>4. PeersTileTheRegion
    BY <2>1, InputPeers DEF PeersTileTheRegion
  <2> QED BY <2>3, <2>4 DEF OwnersTileTheArray
<1>2. InputType /\ [Next]_<<input, work>> => InputType'
  BY SameInput DEF InputType
<1> QED BY <1>1, <1>2, InputTypeInit, PTL DEF Spec

(* The exchanges of words accept exactly equal words, whatever the number  *)
(* of ranks, the width of a word and the chunks.                           *)
THEOREM AgreementAlwaysExact == Spec => []AgreementIsExact
<1>1. InputType => AgreementIsExact
  <2> SUFFICES ASSUME InputType, input.kind = "words"
               PROVE  AgreementIsExact
    BY DEF AgreementIsExact
  <2>1. PICK n \in 1..2 :
          input \in [kind : {"words"}, n : {n}, words : [1..MaxRanks -> [1..n -> Word]]]
    BY DEF InputType, Headers
  <2>2. input.n = n /\ input.words \in [1..MaxRanks -> [1..n -> Word]] /\ n \in Nat
    BY <2>1
  <2>3. 1..MaxRanks # {}
    BY BoundAssumption
  <2>4. AgreeHeader(input.words, n) <=> AllEqual(input.words, n)
    BY <2>2, <2>3, HeaderAgreementIsExact
  <2>5. ASSUME NEW chunk \in 1..2
        PROVE  AgreeWords(input.words, n, chunk) <=> AllEqual(input.words, n)
    <3>1. chunk \in Nat \ {0}
      OBVIOUS
    <3> QED BY <2>2, <2>3, <3>1, WordAgreementIsExact
  <2>6. AgreeHeader(input.words, n) \in BOOLEAN /\ AllEqual(input.words, n) \in BOOLEAN
    BY DEF AgreeHeader, AllEqual
  <2>7. \A chunk \in 1..2 : AgreeWords(input.words, n, chunk) \in BOOLEAN
    BY DEF AgreeWords
  <2> QED BY <2>2, <2>4, <2>5, <2>6, <2>7 DEF AgreementIsExact
<1>2. InputType /\ [Next]_<<input, work>> => InputType'
  BY SameInput DEF InputType
<1> QED BY <1>1, <1>2, InputTypeInit, PTL DEF Spec

----------------------------------------------------------------------------
(* Folds over finite sets.                                                 *)

(* What passes from all smaller subsets of a finite set to a subset is     *)
(* true of all of them.                                                    *)
LEMMA SubsetInduction ==
  ASSUME NEW S, IsFiniteSet(S), NEW P,
         \A s \in SUBSET S : (\A t \in SUBSET s : t # s => t \in P) => s \in P
  PROVE  \A s \in SUBSET S : s \in P
<1> SUFFICES ASSUME NEW s \in SUBSET S, s \notin P PROVE FALSE
  OBVIOUS
<1> DEFINE sizes == {Cardinality(t) : t \in {t \in SUBSET S : t \notin P}}
<1>1. \A t \in SUBSET S : IsFiniteSet(t) /\ Cardinality(t) \in Nat
  BY FS_Subset, FS_CardinalityType
<1>2. sizes \in SUBSET Nat /\ sizes # {}
  BY <1>1
<1>3. PICK n \in sizes : \A k \in sizes : n <= k
  BY <1>2, LeastNatural
<1>4. PICK t \in SUBSET S : t \notin P /\ Cardinality(t) = n
  OBVIOUS
<1>5. ASSUME NEW u \in SUBSET t, u # t PROVE u \in P
  <2>1. Cardinality(u) <= Cardinality(t) /\ Cardinality(u) # Cardinality(t)
    BY <1>1, <1>5, FS_Subset
  <2>2. u \in SUBSET S /\ Cardinality(u) \in Nat /\ Cardinality(t) \in Nat
    BY <1>1
  <2>3. ~ (n <= Cardinality(u))
    BY <1>4, <2>1, <2>2
  <2> QED BY <1>3, <2>2, <2>3
<1> QED BY <1>4, <1>5

(* A fold over a set: choice[s] is the element of s that is taken first,   *)
(* and combine[<<x, t>>] the result of x and of the result t of the rest.  *)
IsFold(h, S, base, choice, combine) ==
  \A s \in SUBSET S :
    h[s] = IF s = {} THEN base ELSE combine[<<choice[s], h[s \ {choice[s]}]>>]

Chooses(choice, S) == \A s \in SUBSET S : s # {} => choice[s] \in s

(* The order in which elements are taken does not matter. *)
AnyOrder(S, T, combine) ==
  \A x, y \in S, t \in T :
    combine[<<x, combine[<<y, t>>]>>] = combine[<<y, combine[<<x, t>>]>>]

(* Any element may be taken first. *)
AnyFirst(h, S, combine) == \A s \in SUBSET S : \A x \in s : h[s] = combine[<<x, h[s \ {x}]>>]

(* Such a function exists. *)
LEMMA FoldExists ==
  ASSUME NEW S, IsFiniteSet(S), NEW T, NEW base \in T,
         NEW choice, Chooses(choice, S),
         NEW combine \in [S \X T -> T]
  PROVE  \E h \in [SUBSET S -> T] : IsFold(h, S, base, choice, combine)
<1> DEFINE Small(n) == {s \in SUBSET S : Cardinality(s) <= n}
           Value(h, s) == IF s = {} THEN base ELSE combine[<<choice[s], h[s \ {choice[s]}]>>]
           Good(n) == \E h \in [Small(n) -> T] : \A s \in Small(n) : h[s] = Value(h, s)
<1>1. \A t \in SUBSET S : IsFiniteSet(t) /\ Cardinality(t) \in Nat
  BY FS_Subset, FS_CardinalityType
<1>2. ASSUME NEW n \in Nat, NEW s \in Small(n), s # {}
      PROVE  /\ choice[s] \in S /\ s \ {choice[s]} \in SUBSET S
             /\ n # 0 /\ s \ {choice[s]} \in Small(n - 1)
  <2>1. choice[s] \in s /\ s \in SUBSET S
    BY <1>2 DEF Chooses
  <2>2. Cardinality(s \ {choice[s]}) = Cardinality(s) - 1
    BY <1>1, <2>1, FS_RemoveElement
  <2>3. Cardinality(s \ {choice[s]}) \in Nat /\ Cardinality(s) \in Nat /\ Cardinality(s) <= n
    BY <1>1, <2>1
  <2> QED BY <2>1, <2>2, <2>3
<1>3. \A n \in Nat : Good(n)
  <2> DEFINE B == {n \in Nat : ~ Good(n)}
  <2>1. SUFFICES ASSUME B # {} PROVE FALSE
    OBVIOUS
  <2>2. PICK n \in B : \A k \in B : n <= k
    BY <2>1, LeastNatural
  <2>3. n = 0 \/ (n - 1 \in Nat /\ Good(n - 1))
    <3>1. n \in Nat
      OBVIOUS
    <3>2. n # 0 => n - 1 \in Nat /\ ~ (n <= n - 1)
      BY <3>1
    <3> QED BY <2>2, <3>2
  <2>4. ~ Good(n) /\ n \in Nat
    OBVIOUS
  <2>5. CASE n = 0
    <3> DEFINE h == [s \in Small(n) |-> base]
    <3>1. \A s \in Small(n) : s = {}
      BY <1>2, <2>5
    <3>2. h \in [Small(n) -> T] /\ \A s \in Small(n) : h[s] = Value(h, s)
      BY <3>1
    <3> QED BY <3>2, <2>4
  <2>6. CASE n - 1 \in Nat /\ Good(n - 1)
    <3>1. PICK f \in [Small(n - 1) -> T] : \A s \in Small(n - 1) : f[s] = Value(f, s)
      BY <2>6
    <3> DEFINE h == [s \in Small(n) |-> Value(f, s)]
    <3>2. ASSUME NEW s \in Small(n) PROVE h[s] \in T
      <4>1. CASE s = {}
        BY <4>1
      <4>2. CASE s # {}
        <5>1. choice[s] \in S /\ s \ {choice[s]} \in Small(n - 1)
          BY <1>2, <4>2
        <5>2. f[s \ {choice[s]}] \in T
          BY <5>1
        <5> HIDE DEF Small
        <5> QED BY <4>2, <5>1, <5>2
      <4> QED BY <4>1, <4>2
    <3>3. \A s \in Small(n - 1) : s \in Small(n) /\ h[s] = f[s]
      <4>1. \A s \in Small(n - 1) : s \in Small(n)
        BY <1>1, <2>4
      <4> HIDE DEF Small, Value
      <4> QED BY <3>1, <4>1
    <3>4. ASSUME NEW s \in Small(n) PROVE h[s] = Value(h, s)
      <4>1. CASE s = {}
        BY <4>1
      <4>2. CASE s # {}
        <5>1. s \ {choice[s]} \in Small(n - 1)
          BY <1>2, <4>2
        <5>2. h[s \ {choice[s]}] = f[s \ {choice[s]}]
          BY <3>3, <5>1
        <5>3. h[s] = Value(f, s)
          OBVIOUS
        <5> HIDE DEF h
        <5> QED BY <5>2, <5>3, <4>2
      <4> QED BY <4>1, <4>2
    <3>5. h \in [Small(n) -> T]
      BY <3>2
    <3> QED BY <3>4, <3>5, <2>4
  <2> QED BY <2>3, <2>5, <2>6
<1>4. Small(Cardinality(S)) = SUBSET S
  <2>1. S \in SUBSET S
    OBVIOUS
  <2>2. \A t \in SUBSET S : Cardinality(t) <= Cardinality(S)
    BY FS_Subset
  <2> QED BY <2>2
<1> HIDE DEF Small
<1>5. Good(Cardinality(S))
  BY <1>1, <1>3
<1> QED BY <1>4, <1>5 DEF IsFold

(* Where the order of the elements does not matter, any of them may be     *)
(* taken first.                                                            *)
LEMMA FoldAnyFirst ==
  ASSUME NEW S, IsFiniteSet(S), NEW T, NEW base \in T,
         NEW choice, Chooses(choice, S),
         NEW combine \in [S \X T -> T],
         AnyOrder(S, T, combine),
         NEW h \in [SUBSET S -> T], IsFold(h, S, base, choice, combine)
  PROVE  AnyFirst(h, S, combine)
<1> DEFINE P == {s \in SUBSET S : \A x \in s : h[s] = combine[<<x, h[s \ {x}]>>]}
<1>1. ASSUME NEW s \in SUBSET S, \A t \in SUBSET s : t # s => t \in P
      PROVE  s \in P
  <2> SUFFICES ASSUME NEW x \in s PROVE h[s] = combine[<<x, h[s \ {x}]>>]
    OBVIOUS
  <2> DEFINE y == choice[s]
  <2>1. y \in s /\ h[s] = combine[<<y, h[s \ {y}]>>]
    BY DEF IsFold, Chooses
  <2> HIDE DEF y
  <2>2. CASE x # y
    <3>1. s \ {y} \in P /\ s \ {x} \in P
      BY <1>1, <2>1
    <3>2. /\ h[s \ {y}] = combine[<<x, h[(s \ {y}) \ {x}]>>]
          /\ h[s \ {x}] = combine[<<y, h[(s \ {x}) \ {y}]>>]
      BY <2>1, <2>2, <3>1
    <3>3. PICK t \in T : h[s \ {y}] = combine[<<x, t>>] /\ h[s \ {x}] = combine[<<y, t>>]
      <4>1. (s \ {y}) \ {x} = (s \ {x}) \ {y} /\ h[(s \ {x}) \ {y}] \in T
        OBVIOUS
      <4> QED BY <3>2, <4>1
    <3>4. combine[<<x, combine[<<y, t>>]>>] = combine[<<y, combine[<<x, t>>]>>]
      <4>1. x \in S /\ y \in S
        BY <2>1
      <4> QED BY <4>1 DEF AnyOrder
    <3> QED BY <2>1, <3>3, <3>4, Zenon
  <2> QED BY <2>1, <2>2
<1> HIDE DEF P
<1>2. \A s \in SUBSET S : s \in P
  BY <1>1, SubsetInduction
<1> QED BY <1>2 DEF P, AnyFirst

(* Products of lengths and sums of them, as the community modules fold     *)
(* them.                                                                   *)
LengthOf(region, axis) == region[axis].end - region[axis].start

ProductFold(region, h) ==
  h = [s \in SUBSET DOMAIN region |->
         IF s = {} THEN 1
         ELSE LET x == CHOOSE x \in s : TRUE IN LengthOf(region, x) * h[s \ {x}]]

IsProduct(h, S, region) ==
  /\ h \in [SUBSET S -> Int] /\ h[{}] = 1
  /\ \A s \in SUBSET S : \A a \in s : h[s] = LengthOf(region, a) * h[s \ {a}]

(* spatial_len is such a product, for every set of axes.                    *)
LEMMA SpatialLenIsProduct ==
  ASSUME NEW region, NEW S, S = DOMAIN region, IsFiniteSet(S),
         \A a \in S : LengthOf(region, a) \in Int
  PROVE  \E h : IsProduct(h, S, region) /\ SpatialLen(region) = h[S]
<1> DEFINE choice == [s \in SUBSET S |-> CHOOSE x \in s : TRUE]
           combine == [xt \in S \X Int |-> LengthOf(region, xt[1]) * xt[2]]
<1>1. SpatialLen(region) = (CHOOSE h : ProductFold(region, h))[S]
  BY DEF SpatialLen, FoldFunction, FoldFunctionOnSet, MapThenFoldSet, ProductFold, LengthOf
<1> HIDE DEF choice, combine
<1>2. /\ IsFiniteSet(S) /\ 1 \in Int
      /\ Chooses(choice, S)
      /\ combine \in [S \X Int -> Int]
  BY DEF choice, combine, Chooses
<1>3. \A x \in S, t \in Int : combine[<<x, t>>] = LengthOf(region, x) * t
  BY DEF combine
<1>4. PICK f \in [SUBSET S -> Int] : IsFold(f, S, 1, choice, combine)
  BY <1>2, FoldExists
<1>5. ProductFold(region, f)
  <2>1. ASSUME NEW s \in SUBSET S, s # {}
        PROVE  f[s] = LengthOf(region, CHOOSE x \in s : TRUE) * f[s \ {CHOOSE x \in s : TRUE}]
    <3>1. choice[s] = (CHOOSE x \in s : TRUE) /\ choice[s] \in s
      BY <2>1, <1>2 DEF choice, Chooses
    <3>2. f[s] = combine[<<choice[s], f[s \ {choice[s]}]>>]
      BY <1>4, <2>1 DEF IsFold
    <3>3. f[s \ {choice[s]}] \in Int /\ choice[s] \in S
      BY <3>1
    <3> QED BY <3>1, <3>2, <3>3, <1>3
  <2>2. f[{}] = 1
    BY <1>4 DEF IsFold
  <2> QED BY <2>1, <2>2 DEF ProductFold
<1>6. PICK h : ProductFold(region, h) /\ h = CHOOSE g : ProductFold(region, g)
  BY <1>5
<1>7. /\ h[{}] = 1
      /\ \A s \in SUBSET S : s # {} =>
           choice[s] \in s /\ h[s] = LengthOf(region, choice[s]) * h[s \ {choice[s]}]
  BY <1>2, <1>6 DEF ProductFold, choice, Chooses
<1>8. h \in [SUBSET S -> Int]
  <2> DEFINE P == {s \in SUBSET S : h[s] \in Int}
  <2>1. ASSUME NEW s \in SUBSET S, \A t \in SUBSET s : t # s => t \in P
        PROVE  s \in P
    <3>1. CASE s = {}
      BY <3>1, <1>7
    <3>2. CASE s # {}
      <4>1. choice[s] \in s /\ h[s] = LengthOf(region, choice[s]) * h[s \ {choice[s]}]
        BY <1>7, <3>2
      <4>2. s \ {choice[s]} \in P
        BY <2>1, <4>1
      <4> QED BY <4>1, <4>2
    <3> QED BY <3>1, <3>2
  <2> HIDE DEF P
  <2>2. \A s \in SUBSET S : s \in P
    <3>1. \A s \in SUBSET S : (\A t \in SUBSET s : t # s => t \in P) => s \in P
      BY <2>1
    <3>2. IsFiniteSet(S)
      OBVIOUS
    <3> HIDE DEF P
    <3> QED BY <3>1, <3>2, SubsetInduction
  <2>3. h = [s \in SUBSET S |-> h[s]]
    BY <1>6 DEF ProductFold
  <2> QED BY <2>2, <2>3 DEF P
<1>9. IsFold(h, S, 1, choice, combine)
  <2>1. ASSUME NEW s \in SUBSET S, s # {}
        PROVE  h[s] = combine[<<choice[s], h[s \ {choice[s]}]>>]
    <3>1. choice[s] \in S /\ h[s \ {choice[s]}] \in Int
      BY <1>7, <1>8, <2>1
    <3> QED BY <1>3, <1>7, <2>1, <3>1
  <2> QED BY <1>7, <2>1 DEF IsFold
<1>10. AnyFirst(h, S, combine)
  <2>1. ASSUME NEW x \in S, NEW y \in S, NEW t \in Int
        PROVE  combine[<<x, combine[<<y, t>>]>>] = combine[<<y, combine[<<x, t>>]>>]
    <3>1. \A k, l \in Int : k * (l * t) = l * (k * t) /\ k * t \in Int /\ l * t \in Int
      OBVIOUS
    <3> QED BY <1>3, <3>1
  <2>2. PICK T : T = Int
    OBVIOUS
  <2>3. AnyOrder(S, T, combine)
    BY <2>1, <2>2 DEF AnyOrder
  <2>4. 1 \in T /\ combine \in [S \X T -> T] /\ h \in [SUBSET S -> T] /\ IsFiniteSet(S)
    BY <1>2, <1>8, <2>2
  <2>5. Chooses(choice, S)
    BY <1>2
  <2> QED BY <1>9, <2>3, <2>4, <2>5, FoldAnyFirst
<1>11. \A s \in SUBSET S : \A a \in s : h[s] = LengthOf(region, a) * h[s \ {a}]
  <2> TAKE s \in SUBSET S
  <2> TAKE a \in s
  <2>1. h[s \ {a}] \in Int
    BY <1>8
  <2>2. h[s] = combine[<<a, h[s \ {a}]>>]
    BY <1>10 DEF AnyFirst
  <2>3. a \in S
    OBVIOUS
  <2> QED BY <1>3, <2>1, <2>2, <2>3
<1>12. SpatialLen(region) = h[S]
  BY <1>1, <1>6
<1> QED BY <1>7, <1>8, <1>11, <1>12 DEF IsProduct

(* Sums, as FoldSet adds them. *)
SumFold(S, w, h) ==
  h = [s \in SUBSET S |->
         IF s = {} THEN 0 ELSE LET x == CHOOSE x \in s : TRUE IN h[s \ {x}] + w[x]]

IsSum(h, S, w) ==
  /\ h \in [SUBSET S -> Int] /\ h[{}] = 0
  /\ \A s \in SUBSET S : \A a \in s : h[s] = h[s \ {a}] + w[a]

(* FoldSet's sum exists, is an integer and takes the elements in any order. *)
LEMMA SumTakesAny ==
  ASSUME NEW S, IsFiniteSet(S), NEW w \in [S -> Int]
  PROVE  (\E h : SumFold(S, w, h)) /\ \A h : SumFold(S, w, h) => IsSum(h, S, w)
<1> DEFINE choice == [s \in SUBSET S |-> CHOOSE x \in s : TRUE]
           combine == [xt \in S \X Int |-> xt[2] + w[xt[1]]]
<1> HIDE DEF choice, combine
<1>2. /\ IsFiniteSet(S) /\ 0 \in Int
      /\ Chooses(choice, S)
      /\ combine \in [S \X Int -> Int]
  BY DEF choice, combine, Chooses
<1>3. \A x \in S, t \in Int : combine[<<x, t>>] = t + w[x]
  BY DEF combine
<1>4. PICK f \in [SUBSET S -> Int] : IsFold(f, S, 0, choice, combine)
  BY <1>2, FoldExists
<1>5. SumFold(S, w, f)
  <2>1. ASSUME NEW s \in SUBSET S, s # {}
        PROVE  f[s] = f[s \ {CHOOSE x \in s : TRUE}] + w[CHOOSE x \in s : TRUE]
    <3>1. choice[s] = (CHOOSE x \in s : TRUE) /\ choice[s] \in s
      BY <2>1, <1>2 DEF choice, Chooses
    <3>2. f[s] = combine[<<choice[s], f[s \ {choice[s]}]>>]
      BY <1>4, <2>1 DEF IsFold
    <3>3. f[s \ {choice[s]}] \in Int /\ choice[s] \in S
      BY <3>1
    <3> QED BY <3>1, <3>2, <3>3, <1>3
  <2>2. f[{}] = 0
    BY <1>4 DEF IsFold
  <2> QED BY <2>1, <2>2 DEF SumFold
<1>6. SUFFICES ASSUME NEW h, SumFold(S, w, h) PROVE IsSum(h, S, w)
  BY <1>5
<1>7. /\ h[{}] = 0
      /\ \A s \in SUBSET S : s # {} =>
           choice[s] \in s /\ h[s] = h[s \ {choice[s]}] + w[choice[s]]
  BY <1>2, <1>6 DEF SumFold, choice, Chooses
<1>8. h \in [SUBSET S -> Int]
  <2> DEFINE P == {s \in SUBSET S : h[s] \in Int}
  <2>1. ASSUME NEW s \in SUBSET S, \A t \in SUBSET s : t # s => t \in P
        PROVE  s \in P
    <3>1. CASE s = {}
      BY <3>1, <1>7
    <3>2. CASE s # {}
      <4>1. choice[s] \in s /\ h[s] = h[s \ {choice[s]}] + w[choice[s]]
        BY <1>7, <3>2
      <4>2. s \ {choice[s]} \in P
        BY <2>1, <4>1
      <4> QED BY <4>1, <4>2
    <3> QED BY <3>1, <3>2
  <2> HIDE DEF P
  <2>2. \A s \in SUBSET S : s \in P
    <3>1. \A s \in SUBSET S : (\A t \in SUBSET s : t # s => t \in P) => s \in P
      BY <2>1
    <3>2. IsFiniteSet(S)
      OBVIOUS
    <3> HIDE DEF P
    <3> QED BY <3>1, <3>2, SubsetInduction
  <2>3. h = [s \in SUBSET S |-> h[s]]
    BY <1>6 DEF SumFold
  <2> QED BY <2>2, <2>3 DEF P
<1>9. IsFold(h, S, 0, choice, combine)
  <2>1. ASSUME NEW s \in SUBSET S, s # {}
        PROVE  h[s] = combine[<<choice[s], h[s \ {choice[s]}]>>]
    <3>1. choice[s] \in S /\ h[s \ {choice[s]}] \in Int
      BY <1>7, <1>8, <2>1
    <3> QED BY <1>3, <1>7, <2>1, <3>1
  <2> QED BY <1>7, <2>1 DEF IsFold
<1>10. AnyFirst(h, S, combine)
  <2>1. ASSUME NEW x \in S, NEW y \in S, NEW t \in Int
        PROVE  combine[<<x, combine[<<y, t>>]>>] = combine[<<y, combine[<<x, t>>]>>]
    <3>1. \A k, l \in Int : (t + k) + l = (t + l) + k /\ t + k \in Int /\ t + l \in Int
      OBVIOUS
    <3> QED BY <1>3, <3>1
  <2>2. PICK T : T = Int
    OBVIOUS
  <2>3. AnyOrder(S, T, combine)
    BY <2>1, <2>2 DEF AnyOrder
  <2>4. 0 \in T /\ combine \in [S \X T -> T] /\ h \in [SUBSET S -> T] /\ IsFiniteSet(S)
    BY <1>2, <1>8, <2>2
  <2>5. Chooses(choice, S)
    BY <1>2
  <2> QED BY <1>9, <2>3, <2>4, <2>5, FoldAnyFirst
<1>11. \A s \in SUBSET S : \A a \in s : h[s] = h[s \ {a}] + w[a]
  <2> TAKE s \in SUBSET S
  <2> TAKE a \in s
  <2>1. h[s \ {a}] \in Int
    BY <1>8
  <2>2. h[s] = combine[<<a, h[s \ {a}]>>]
    BY <1>10 DEF AnyFirst
  <2>3. a \in S
    OBVIOUS
  <2> QED BY <1>3, <2>1, <2>2, <2>3
<1> QED BY <1>7, <1>8, <1>11 DEF IsSum

(* The product of the lengths of a region depends on these lengths alone.  *)
LEMMA ProductsAgree ==
  ASSUME NEW S, NEW rest \in SUBSET S, IsFiniteSet(rest), NEW left, NEW right,
         \A a \in rest : LengthOf(left, a) = LengthOf(right, a),
         NEW h, IsProduct(h, S, left), NEW g, IsProduct(g, S, right)
  PROVE  h[rest] = g[rest]
<1> DEFINE P == {s \in SUBSET rest : h[s] = g[s]}
<1>1. ASSUME NEW s \in SUBSET rest, \A t \in SUBSET s : t # s => t \in P
      PROVE  s \in P
  <2>1. CASE s = {}
    BY <2>1 DEF IsProduct
  <2>2. ASSUME NEW a \in s PROVE s \in P
    <3>1. s \ {a} \in P
      BY <1>1
    <3>2. s \in SUBSET S /\ a \in rest
      OBVIOUS
    <3>3. h[s] = LengthOf(left, a) * h[s \ {a}] /\ g[s] = LengthOf(right, a) * g[s \ {a}]
      BY <3>2 DEF IsProduct
    <3> QED BY <3>1, <3>2, <3>3
  <2> QED BY <2>1, <2>2
<1> HIDE DEF P
<1>2. \A s \in SUBSET rest : s \in P
  BY <1>1, SubsetInduction
<1> QED BY <1>2 DEF P

(* A sum of differences, over the elements with numbers below n.           *)
Telescopes(S, n, element, w, share) ==
  /\ S = {element[i] : i \in 0..(n - 1)}
  /\ \A i, k \in 0..(n - 1) : element[i] = element[k] => i = k
  /\ w \in [S -> Int] /\ share \in [0..n -> Int] /\ share[0] = 0
  /\ \A i \in 0..(n - 1) : w[element[i]] = share[i + 1] - share[i]

(* It is the last share.                                                   *)
LEMMA SumTelescopes ==
  ASSUME NEW S, NEW n \in Nat, NEW element, NEW w, NEW share,
         Telescopes(S, n, element, w, share), NEW h, SumFold(S, w, h)
  PROVE  h[S] = share[n]
<1>0. /\ S = {element[i] : i \in 0..(n - 1)}
      /\ \A i, k \in 0..(n - 1) : element[i] = element[k] => i = k
      /\ w \in [S -> Int] /\ share \in [0..n -> Int] /\ share[0] = 0
      /\ \A i \in 0..(n - 1) : w[element[i]] = share[i + 1] - share[i]
  BY DEF Telescopes
<1> USE <1>0
<1> DEFINE Below(k) == {element[i] : i \in 0..(k - 1)}
<1>1. IsFiniteSet(S)
  <2>1. IsFiniteSet(0..(n - 1))
    <3>1. 0 \in Int /\ n - 1 \in Int
      OBVIOUS
    <3> QED BY <3>1, FS_Interval, Zenon
  <2> DEFINE f == [i \in 0..(n - 1) |-> element[i]]
  <2>2. f \in Surjection(0..(n - 1), S)
    BY DEF Surjection
  <2> QED BY <2>1, <2>2, FS_Surjection
<1>2. IsSum(h, S, w)
  BY <1>1, SumTakesAny
<1>3. \A s \in SUBSET S : \A a \in s : h[s] = h[s \ {a}] + w[a]
  BY <1>2 DEF IsSum
<1> DEFINE B == {k \in 0..n : h[Below(k)] # share[k]}
<1>4. ASSUME NEW k \in B, \A l \in B : k <= l PROVE FALSE
  <2>1. k # 0
    <3>1. Below(0) = {}
      OBVIOUS
    <3>2. h[{}] = 0
      BY <1>2 DEF IsSum
    <3> QED BY <3>1, <3>2
  <2>2. /\ k \in Nat /\ k \in 1..n /\ k - 1 \in 0..(n - 1) /\ k - 1 \in 0..n
        /\ ~ (k <= k - 1) /\ (k - 1) + 1 = k
    BY <2>1
  <2>3. h[Below(k - 1)] = share[k - 1]
    BY <1>4, <2>2
  <2>4. 0..(k - 1) \subseteq 0..(n - 1) /\ k - 1 \in 0..(k - 1)
    BY <2>2
  <2>5. 0..(k - 1) = 0..((k - 1) - 1) \union {k - 1} /\ k - 1 \notin 0..((k - 1) - 1)
    BY <2>2
  <2>6. Below(k) \in SUBSET S /\ element[k - 1] \in Below(k)
    BY <2>4
  <2>7. \A i \in 0..((k - 1) - 1) : element[i] # element[k - 1]
    BY <2>4, <2>5
  <2>8. Below(k) \ {element[k - 1]} = Below(k - 1)
    <3> DEFINE all == 0..(k - 1)
               low == 0..((k - 1) - 1)
               last == k - 1
    <3>1. all = low \union {last} /\ \A i \in low : element[i] # element[last]
      BY <2>5, <2>7
    <3> HIDE DEF all, low, last
    <3>2. {element[i] : i \in all} \ {element[last]} = {element[i] : i \in low}
      BY <3>1
    <3> QED BY <3>2 DEF all, low, last
  <2>9. h[Below(k)] = share[k - 1] + w[element[k - 1]]
    <3>1. h[Below(k)] = h[Below(k) \ {element[k - 1]}] + w[element[k - 1]]
      <4> HIDE DEF Below
      <4> QED BY <1>3, <2>6
    <3> QED BY <2>3, <2>8, <3>1, Zenon
  <2>10. w[element[k - 1]] = share[k] - share[k - 1]
    BY <2>2
  <2>11. share[k] \in Int /\ share[k - 1] \in Int
    BY <2>2
  <2> QED BY <2>9, <2>10, <2>11
<1>5. B = {}
  <2>1. B \in SUBSET Nat
    OBVIOUS
  <2> HIDE DEF B
  <2> QED BY <1>4, <2>1, LeastNatural
<1>6. Below(n) = S /\ n \in 0..n
  OBVIOUS
<1> QED BY <1>2, <1>5, <1>6

----------------------------------------------------------------------------
(* Segments of the exchange workspace.                                     *)

(* The boundaries of the floor rule do not decrease.                       *)
LEMMA BoundariesGrow ==
  ASSUME NEW length \in Nat, NEW parts \in Nat \ {0}, NEW i \in 0..(parts - 1)
  PROVE  /\ Boundary(length, parts, i) \in Nat /\ Boundary(length, parts, i + 1) \in Nat
         /\ Boundary(length, parts, i) <= Boundary(length, parts, i + 1)
         /\ Boundary(length, parts, i + 1) <= length
<1>1. i \in 0..parts /\ i + 1 \in 0..parts /\ i \in Nat /\ i + 1 \in Nat
  OBVIOUS
<1>2. /\ Boundary(length, parts, i) \in 0..length
      /\ Boundary(length, parts, i + 1) \in 0..length
  BY <1>1, BoundaryInAxis
<1> DEFINE low == Boundary(length, parts, i)
           high == Boundary(length, parts, i + 1)
<1> HIDE DEF low, high
<1>3. low \in Nat /\ high \in Nat /\ high <= length
  BY <1>2 DEF low, high
<1>4. low <= high
  <2> SUFFICES ASSUME high < low PROVE FALSE
    BY <1>3
  <2>1. (high + 1) * parts <= length * i
    BY <1>1, <1>3, BelowBoundary DEF low
  <2>2. ~ ((high + 1) * parts <= length * (i + 1))
    BY <1>1, <1>3, BelowBoundary DEF high
  <2>3. length * i <= length * (i + 1)
    BY <1>1, Monotone
  <2>4. (high + 1) * parts \in Nat /\ length * i \in Nat /\ length * (i + 1) \in Nat
    BY <1>1, <1>3
  <2> QED BY <2>1, <2>2, <2>3, <2>4
<1> QED BY <1>3, <1>4 DEF low, high

(* The first part begins at 0, the last one ends with the axis.            *)
LEMMA BoundaryEnds ==
  ASSUME NEW length \in Nat, NEW parts \in Nat \ {0}
  PROVE  Boundary(length, parts, 0) = 0 /\ Boundary(length, parts, parts) = length
<1>1. length * 0 = 0
  OBVIOUS
<1>2. 0 \div parts = 0
  OBVIOUS
<1>3. Boundary(length, parts, parts) = length
  <2> DEFINE b == Boundary(length, parts, parts)
  <2>1. b \in 0..length
    BY BoundaryInAxis
  <2>2. SUFFICES ASSUME b < length PROVE FALSE
    BY <2>1
  <2> HIDE DEF b
  <2>3. b \in Nat
    BY <2>1
  <2>4. ~ ((b + 1) * parts <= length * parts)
    <3>1. parts \in Nat /\ b = Boundary(length, parts, parts)
      BY DEF b
    <3>2. b < Boundary(length, parts, parts) <=> (b + 1) * parts <= length * parts
      BY <2>3, <3>1, BelowBoundary, Zenon
    <3> QED BY <2>3, <3>1, <3>2
  <2>5. parts * (b + 1) <= parts * length
    BY <2>2, <2>3, Monotone
  <2>6. parts * (b + 1) = (b + 1) * parts /\ parts * length = length * parts
    BY <2>3
  <2> QED BY <2>4, <2>5, <2>6
<1> QED BY <1>1, <1>2, <1>3 DEF Boundary

(* Of two ranges that start at 0 or later, one of which holds the other.   *)
LEMMA Intersected ==
  ASSUME NEW N \in Nat \ {0}, NEW bound \in Nat,
         NEW left \in Region(N, bound), NEW right \in Region(N, bound), NEW a \in 1..N,
         right[a].start <= left[a].start, left[a].end <= right[a].end,
         left[a].start <= left[a].end
  PROVE  LengthOf(IntersectRanges(left, right), a) = left[a].end - left[a].start
<1>1. /\ left[a].start \in Nat /\ left[a].end \in Nat
      /\ right[a].start \in Nat /\ right[a].end \in Nat /\ DOMAIN left = 1..N
  BY DEF Region
<1>2. /\ Max({left[a].start, right[a].start}) = left[a].start
      /\ Min({left[a].end, right[a].end}) = left[a].end
  <2>1. Max({left[a].start, right[a].start}) =
          IF left[a].start <= right[a].start THEN right[a].start ELSE left[a].start
    BY <1>1, OfTwo
  <2>2. Min({left[a].end, right[a].end}) = IF left[a].end <= right[a].end THEN left[a].end ELSE right[a].end
    BY <1>1, OfTwo
  <2> QED BY <1>1, <2>1, <2>2
<1> QED BY <1>1, <1>2 DEF IntersectRanges, LengthOf

(* Along the axis that the destination splits by the changed topology axis *)
(* a process sends to its peer i what i owns there, along the others all   *)
(* it has.                                                                 *)
LEMMA SentLengths ==
  ASSUME NEW N, NEW M, NEW bound, NEW shape, NEW grid, Setting(N, M, bound, shape, grid),
         NEW d \in Plan(M, N), NEW e \in Plan(M, N), NEW m \in 1..M, DifferAt(d, e, m, M),
         d[m] # e[m], NEW r \in Coordinates(grid), NEW i \in 0..(grid[m] - 1)
  PROVE  LET own == LocalRanges(shape, grid, r, d)
             sent == SendRegion(shape, grid, d, e, r, PeerAt(r, m, i))
         IN  /\ LengthOf(own, e[m]) = shape[e[m]]
             /\ LengthOf(sent, e[m]) = Boundary(shape[e[m]], grid[m], i + 1)
                                         - Boundary(shape[e[m]], grid[m], i)
             /\ \A a \in 1..N \ {e[m]} : LengthOf(sent, a) = LengthOf(own, a)
             /\ DOMAIN own = 1..N /\ DOMAIN sent = 1..N
             /\ \A a \in 1..N : LengthOf(own, a) \in Int
<1>0. /\ N \in Nat \ {0} /\ M \in Nat \ {0} /\ bound \in Nat
      /\ shape \in [1..N -> 0..bound] /\ grid \in [1..M -> 1..bound]
  BY DEF Setting
<1> USE <1>0
<1> DEFINE p == PeerAt(r, m, i)
           own == LocalRanges(shape, grid, r, d)
           other == LocalRanges(shape, grid, p, e)
           sent == IntersectRanges(own, other)
<1>1. p \in Coordinates(grid) /\ p[m] = i /\ \A k \in 1..M : k # m => p[k] = r[k]
  <2>1. OnLine(p, r, grid, m, i, M)
    BY PeerIs
  <2> QED BY <2>1 DEF OnLine
<1> HIDE DEF p
<1>2. /\ own \in Region(N, bound) /\ other \in Region(N, bound)
      /\ SplitBy(own, shape, grid, r, d, M, N) /\ SplitBy(other, shape, grid, p, e, M, N)
  BY <1>1, LocalRangesOf, Zenon
<1> HIDE DEF own, other
<1>3. d \in [1..M -> 1..N] /\ e \in [1..M -> 1..N] /\ \A k \in 1..M : k # m => d[k] = e[k]
  BY DEF Plan, DifferAt
<1>4. \A k, l \in 1..M : k # l => d[k] # d[l] /\ e[k] # e[l]
  BY DEF Plan
<1>5. \A a \in 1..N : shape[a] \in Nat
  OBVIOUS
<1>6. r \in [1..M -> Nat] /\ \A k \in 1..M : r[k] < grid[k] /\ grid[k] \in Nat \ {0}
  <2>1. r \in [1..M -> Nat] /\ \A k \in 1..M : r[k] < grid[k]
    BY CoordinateOf, Zenon
  <2>2. \A k \in 1..M : grid[k] \in Nat \ {0}
    OBVIOUS
  <2> QED BY <2>1, <2>2
<1>7. e[m] \in 1..N /\ \A k \in 1..M : d[k] # e[m]
  BY <1>3, <1>4
<1>8. own[e[m]] = [start |-> 0, end |-> shape[e[m]]]
  BY <1>2, <1>7 DEF SplitBy
<1>9. other[e[m]] = PartitionRange(shape[e[m]], grid[m], i)
  BY <1>1, <1>2 DEF SplitBy
<1>10. LengthOf(sent, e[m]) = other[e[m]].end - other[e[m]].start
  <2>1. /\ own[e[m]].start <= other[e[m]].start /\ other[e[m]].end <= own[e[m]].end
        /\ other[e[m]].start <= other[e[m]].end
    <3>1. shape[e[m]] \in Nat /\ grid[m] \in Nat \ {0}
      BY <1>5, <1>6, <1>7
    <3>2. /\ Boundary(shape[e[m]], grid[m], i) \in Nat /\ Boundary(shape[e[m]], grid[m], i + 1) \in Nat
          /\ Boundary(shape[e[m]], grid[m], i) <= Boundary(shape[e[m]], grid[m], i + 1)
          /\ Boundary(shape[e[m]], grid[m], i + 1) <= shape[e[m]]
      BY <3>1, BoundariesGrow
    <3> QED BY <1>8, <1>9, <3>2 DEF PartitionRange
  <2>2. LengthOf(IntersectRanges(other, own), e[m]) = other[e[m]].end - other[e[m]].start
    <3>1. PICK a \in 1..N : a = e[m]
      BY <1>7
    <3>2. own \in Region(N, bound) /\ other \in Region(N, bound)
      BY <1>2
    <3>3. /\ own[a].start <= other[a].start /\ other[a].end <= own[a].end
          /\ other[a].start <= other[a].end
      BY <2>1, <3>1
    <3>4. LengthOf(IntersectRanges(other, own), a) = other[a].end - other[a].start
      BY <3>2, <3>3, Intersected DEF LengthOf
    <3> QED BY <3>1, <3>4
  <2>3. IntersectRanges(own, other) = IntersectRanges(other, own)
    <3>1. DOMAIN own = DOMAIN other
      BY <1>2 DEF Region
    <3> QED BY <3>1, IntersectionIsSymmetric
  <2> QED BY <2>2, <2>3
<1>11. ASSUME NEW a \in 1..N \ {e[m]} PROVE LengthOf(sent, a) = LengthOf(own, a)
  <2>1. /\ other[a].start <= own[a].start /\ own[a].end <= other[a].end
        /\ own[a].start <= own[a].end
    <3>1. CASE \A k \in 1..M : d[k] # a
      <4>1. \A k \in 1..M : e[k] # a
        BY <1>3, <3>1
      <4>2. own[a] = [start |-> 0, end |-> shape[a]] /\ other[a] = [start |-> 0, end |-> shape[a]]
        BY <1>2, <3>1, <4>1 DEF SplitBy
      <4> QED BY <1>5, <4>2
    <3>2. ASSUME NEW k \in 1..M, d[k] = a
          PROVE  /\ other[a].start <= own[a].start /\ own[a].end <= other[a].end
                 /\ own[a].start <= own[a].end
      <4> DEFINE low == Boundary(shape[a], grid[k], r[k])
                 high == Boundary(shape[a], grid[k], r[k] + 1)
      <4>1. low \in Nat /\ high \in Nat /\ low <= high /\ high <= shape[a]
        <5>1. shape[a] \in Nat /\ grid[k] \in Nat \ {0} /\ r[k] \in 0..(grid[k] - 1)
          <6> HIDE <1>0
          <6>1. shape[a] \in Nat
            BY <1>5
          <6>2. r[k] \in Nat /\ r[k] < grid[k] /\ grid[k] \in Nat \ {0}
            BY <1>6
          <6> QED BY <6>1, <6>2
        <5> QED BY <5>1, BoundariesGrow
      <4>2. own[a] = [start |-> low, end |-> high]
        BY <1>2, <3>2 DEF SplitBy, PartitionRange
      <4>3. other[a] = own[a] \/ other[a] = [start |-> 0, end |-> shape[a]]
        <5>1. CASE k = m
          <6>1. \A l \in 1..M : e[l] # a
            BY <1>3, <1>4, <3>2, <5>1
          <6> QED BY <1>2, <6>1 DEF SplitBy
        <5>2. CASE k # m
          <6>1. e[k] = a /\ p[k] = r[k]
            BY <1>1, <1>3, <3>2, <5>2
          <6> QED BY <1>2, <4>2, <6>1 DEF SplitBy, PartitionRange
        <5> QED BY <5>1, <5>2
      <4> HIDE DEF low, high
      <4> QED BY <4>1, <4>2, <4>3, <1>5
    <3> QED BY <3>1, <3>2
  <2> QED BY <1>2, <2>1, Intersected DEF LengthOf
<1>12. DOMAIN own = 1..N /\ DOMAIN sent = 1..N /\ \A a \in 1..N : LengthOf(own, a) \in Int
  <2>1. DOMAIN own = 1..N /\ \A a \in 1..N : own[a].start \in 0..bound /\ own[a].end \in 0..bound
    BY <1>2 DEF Region
  <2>2. \A x, y \in 0..bound : x - y \in Int
    OBVIOUS
  <2> QED BY <2>1, <2>2 DEF IntersectRanges, LengthOf
<1>13. LengthOf(own, e[m]) = shape[e[m]]
  BY <1>5, <1>7, <1>8 DEF LengthOf
<1>14. SendRegion(shape, grid, d, e, r, p) = sent
  BY DEF SendRegion, own, other
<1> QED BY <1>9, <1>10, <1>11, <1>12, <1>13, <1>14 DEF p, own, PartitionRange

(* The segments of a workspace follow one another in the order of the      *)
(* peers: each begins where the shares of the peers before it end.         *)
LEMMA SegmentsFollow ==
  ASSUME NEW N, NEW M, NEW bound, NEW shape, NEW grid, Setting(N, M, bound, shape, grid),
         NEW d \in Plan(M, N), NEW e \in Plan(M, N), NEW m \in 1..M, DifferAt(d, e, m, M),
         d[m] # e[m], NEW r \in Coordinates(grid)
  PROVE  \E others \in Int :
           /\ SpatialLen(LocalRanges(shape, grid, r, d)) = shape[e[m]] * others
           /\ \A i \in 0..(grid[m] - 1) :
                SpatialLen(SendRegion(shape, grid, d, e, r, PeerAt(r, m, i)))
                  = (Boundary(shape[e[m]], grid[m], i + 1) - Boundary(shape[e[m]], grid[m], i)) * others
<1>0. /\ N \in Nat \ {0} /\ M \in Nat \ {0} /\ bound \in Nat
      /\ shape \in [1..N -> 0..bound] /\ grid \in [1..M -> 1..bound]
  BY DEF Setting
<1> DEFINE own == LocalRanges(shape, grid, r, d)
           sent(i) == SendRegion(shape, grid, d, e, r, PeerAt(r, m, i))
           share(i) == Boundary(shape[e[m]], grid[m], i + 1) - Boundary(shape[e[m]], grid[m], i)
           S == 1..N
           rest == S \ {e[m]}
<1>1. ASSUME NEW i \in 0..(grid[m] - 1)
      PROVE  /\ LengthOf(own, e[m]) = shape[e[m]] /\ LengthOf(sent(i), e[m]) = share(i)
             /\ \A a \in rest : LengthOf(sent(i), a) = LengthOf(own, a)
             /\ DOMAIN own = S /\ DOMAIN sent(i) = S
             /\ \A a \in S : LengthOf(own, a) \in Int
  BY SentLengths
<1>2. e[m] \in S /\ grid[m] \in Nat \ {0} /\ shape[e[m]] \in Nat /\ 0 \in 0..(grid[m] - 1)
  <2>1. e[m] \in S /\ grid[m] \in 1..bound
    BY <1>0 DEF Plan
  <2> QED BY <1>0, <2>1
<1>3. ASSUME NEW i \in 0..(grid[m] - 1) PROVE share(i) \in Int
  <2>1. /\ Boundary(shape[e[m]], grid[m], i) \in Nat
        /\ Boundary(shape[e[m]], grid[m], i + 1) \in Nat
    BY <1>2, BoundariesGrow, Zenon
  <2> QED BY <2>1
<1>4. IsFiniteSet(S) /\ IsFiniteSet(rest) /\ rest \in SUBSET S /\ S \ {e[m]} = rest
  <2>1. IsFiniteSet(S)
    <3>1. 1 \in Int /\ N \in Int
      BY <1>0
    <3> QED BY <3>1, FS_Interval, Zenon
  <2> HIDE DEF S
  <2> QED BY <2>1, FS_Subset
<1> HIDE DEF own, sent, share, S, rest
<1>5. PICK h : IsProduct(h, S, own) /\ SpatialLen(own) = h[S]
  BY <1>1, <1>2, <1>4, SpatialLenIsProduct
<1>6. h[S] = shape[e[m]] * h[rest] /\ h[rest] \in Int
  <2>1. S \in SUBSET S /\ rest \in SUBSET S /\ e[m] \in S
    BY <1>2, <1>4
  <2>2. h[S] = LengthOf(own, e[m]) * h[S \ {e[m]}] /\ h[rest] \in Int
    BY <1>5, <2>1 DEF IsProduct
  <2>3. LengthOf(own, e[m]) = shape[e[m]]
    BY <1>1, <1>2
  <2> QED BY <1>4, <2>2, <2>3
<1>7. ASSUME NEW i \in 0..(grid[m] - 1) PROVE SpatialLen(sent(i)) = share(i) * h[rest]
  <2>1. \A a \in S : LengthOf(sent(i), a) \in Int
    <3>1. \A a \in S : a = e[m] \/ a \in rest
      BY <1>4
    <3> QED BY <1>1, <1>3, <1>4, <3>1
  <2>2. PICK g : IsProduct(g, S, sent(i)) /\ SpatialLen(sent(i)) = g[S]
    BY <1>1, <1>4, <2>1, SpatialLenIsProduct
  <2>3. g[S] = share(i) * g[rest]
    BY <1>1, <1>2, <1>4, <2>2 DEF IsProduct
  <2>4. h[rest] = g[rest]
    BY <1>1, <1>4, <1>5, <2>2, ProductsAgree
  <2> QED BY <2>2, <2>3, <2>4
<1> QED BY <1>5, <1>6, <1>7 DEF own, sent, share

(* The peers whose segments precede the one of p, and the sum of them that *)
(* send_displacement and receive_displacement take.                        *)
Preceding(grid, r, m, p) == {q \in PeerCoords(grid, r, m) : q[m] < p[m]}

SendFold(S, shape, grid, d, e, r, h) ==
  h = [s \in SUBSET S |->
         IF s = {} THEN 0
         ELSE LET x == CHOOSE x \in s : TRUE
              IN  h[s \ {x}] + SpatialLen(SendRegion(shape, grid, d, e, r, x))]

ReceiveFold(S, shape, grid, d, e, r, h) ==
  h = [s \in SUBSET S |->
         IF s = {} THEN 0
         ELSE LET x == CHOOSE x \in s : TRUE
              IN  h[s \ {x}] + SpatialLen(ReceiveRegion(shape, grid, d, e, r, x))]

(* The last segment ends where the local array ends.                       *)
LEMMA LastSegmentFits ==
  ASSUME NEW N, NEW M, NEW bound, NEW shape, NEW grid, Setting(N, M, bound, shape, grid),
         NEW d \in Plan(M, N), NEW e \in Plan(M, N), NEW m \in 1..M, DifferAt(d, e, m, M),
         d[m] # e[m], NEW r \in Coordinates(grid),
         NEW p \in PeerCoords(grid, r, m), p[m] = grid[m] - 1
  PROVE  LET S == Preceding(grid, r, m, p)
         IN  /\ \E h : SendFold(S, shape, grid, d, e, r, h)
             /\ \A h : SendFold(S, shape, grid, d, e, r, h) =>
                  h[S] + SpatialLen(SendRegion(shape, grid, d, e, r, p))
                    = SpatialLen(LocalRanges(shape, grid, r, d))
<1>0. /\ N \in Nat \ {0} /\ M \in Nat \ {0} /\ bound \in Nat
      /\ shape \in [1..N -> 0..bound] /\ grid \in [1..M -> 1..bound]
  BY DEF Setting
<1>1. /\ grid[m] \in Nat \ {0} /\ shape[e[m]] \in Nat
      /\ \E n \in Nat : n = grid[m] - 1 /\ grid[m] = n + 1 /\ p[m] = n
  <2>1. e[m] \in 1..N /\ grid[m] \in 1..bound
    BY <1>0 DEF Plan
  <2> QED BY <1>0, <2>1
<1>20. PICK n \in Nat : n = grid[m] - 1 /\ grid[m] = n + 1 /\ p[m] = n
  BY <1>1
<1> DEFINE Portion(q) == SpatialLen(SendRegion(shape, grid, d, e, r, q))
           B(i) == Boundary(shape[e[m]], grid[m], i)
           element == [i \in 0..n |-> PeerAt(r, m, i)]
           S == Preceding(grid, r, m, p)
           w == [q \in S |-> Portion(q)]
           Fold(h) == SendFold(S, shape, grid, d, e, r, h)
<1>21. PICK others \in Int :
         /\ SpatialLen(LocalRanges(shape, grid, r, d)) = shape[e[m]] * others
         /\ \A i \in 0..(grid[m] - 1) : Portion(PeerAt(r, m, i)) = (B(i + 1) - B(i)) * others
  BY SegmentsFollow
<1>2. /\ SpatialLen(LocalRanges(shape, grid, r, d)) = shape[e[m]] * others
      /\ \A i \in 0..n : Portion(PeerAt(r, m, i)) = (B(i + 1) - B(i)) * others
  <2> HIDE DEF Portion, B
  <2> QED BY <1>20, <1>21
<1>3. \A i \in 0..n : B(i) \in Nat /\ B(i + 1) \in Nat
  BY <1>1, <1>20, BoundariesGrow
<1>4. r \in [1..M -> Nat]
  BY <1>0, CoordinateOf, Zenon
<1>5. \A i \in 0..n : element[i] \in PeerCoords(grid, r, m) /\ element[i][m] = i /\ element[i] = PeerAt(r, m, i)
  BY <1>4, <1>20 DEF PeerCoords, PeerAt
<1>6. \A q \in PeerCoords(grid, r, m) : q[m] \in 0..n /\ q = element[q[m]]
  BY <1>4, <1>20 DEF PeerCoords, PeerAt
<1> HIDE DEF element
<1>7. S = {element[i] : i \in 0..(n - 1)}
  <2>1. ASSUME NEW q \in S PROVE q[m] \in 0..(n - 1) /\ q = element[q[m]]
    <3>1. q[m] \in 0..n /\ q = element[q[m]] /\ q[m] < n
      BY <1>6, <1>20 DEF Preceding
    <3> QED BY <3>1
  <2>2. ASSUME NEW i \in 0..(n - 1) PROVE element[i] \in S
    <3>1. i \in 0..n /\ i < n
      OBVIOUS
    <3> QED BY <1>5, <1>20, <3>1 DEF Preceding
  <2> HIDE DEF S
  <2> QED BY <2>1, <2>2
<1>9. w \in [S -> Int]
  <2>1. ASSUME NEW q \in S PROVE Portion(q) \in Int
    <3>1. PICK i \in 0..(n - 1) : q = element[i]
      BY <1>7
    <3>2. i \in 0..n
      BY <1>1
    <3>3. Portion(q) = (B(i + 1) - B(i)) * others
      BY <1>2, <1>5, <3>1, <3>2
    <3> HIDE DEF Portion, B
    <3> QED BY <1>3, <3>2, <3>3
  <2> QED BY <2>1
<1>10. ASSUME NEW h PROVE Fold(h) <=> SumFold(S, w, h)
  <2> DEFINE first(s) == CHOOSE x \in s : TRUE
             left(s) == IF s = {} THEN 0 ELSE h[s \ {first(s)}] + Portion(first(s))
             right(s) == IF s = {} THEN 0 ELSE h[s \ {first(s)}] + w[first(s)]
  <2>1. ASSUME NEW s \in SUBSET S PROVE left(s) = right(s)
    <3>1. s # {} => first(s) \in S
      OBVIOUS
    <3> HIDE DEF Portion, S, first
    <3>2. s # {} => w[first(s)] = Portion(first(s))
      BY <3>1
    <3> QED BY <3>2
  <2>2. /\ Fold(h) <=> h = [s \in SUBSET S |-> left(s)]
        /\ SumFold(S, w, h) <=> h = [s \in SUBSET S |-> right(s)]
    <3>1. Fold(h) <=> h = [s \in SUBSET S |-> left(s)]
      <4> HIDE DEF S, w
      <4> QED BY DEF SendFold
    <3>2. SumFold(S, w, h) <=> h = [s \in SUBSET S |-> right(s)]
      <4> HIDE DEF S, w, Portion
      <4> QED BY DEF SumFold
    <3> QED BY <3>1, <3>2
  <2> HIDE DEF Portion, S, w, left, right, Fold
  <2>3. [s \in SUBSET S |-> left(s)] = [s \in SUBSET S |-> right(s)]
    BY <2>1
  <2> QED BY <2>2, <2>3
<1>11. \E h : Fold(h)
  <2>1. IsFiniteSet(S)
    <3>1. IsFiniteSet(0..(n - 1))
      <4>1. 0 \in Int /\ n - 1 \in Int
        BY <1>1
      <4> QED BY <4>1, FS_Interval, Zenon
    <3> DEFINE f == [i \in 0..(n - 1) |-> element[i]]
    <3> HIDE DEF S
    <3>2. f \in Surjection(0..(n - 1), S)
      BY <1>7 DEF Surjection
    <3> QED BY <3>1, <3>2, FS_Surjection
  <2> HIDE DEF w, S, Fold
  <2>2. \E h : SumFold(S, w, h)
    BY <1>9, <2>1, SumTakesAny
  <2> QED BY <1>10, <2>2
<1>19. SUFFICES ASSUME NEW h, Fold(h)
                PROVE  h[S] + Portion(p) = SpatialLen(LocalRanges(shape, grid, r, d))
  BY <1>11
<1> DEFINE shares == [i \in 0..n |-> B(i) * others]
<1>12. shares \in [0..n -> Int] /\ shares[0] = 0
  <2>1. B(0) = 0 /\ 0 \in 0..n
    BY <1>1, BoundaryEnds
  <2> HIDE DEF B
  <2>2. shares[0] = 0 * others /\ 0 * others = 0
    BY <2>1
  <2> QED BY <1>3, <2>2
<1>13. \A i \in 0..(n - 1) : w[element[i]] = shares[i + 1] - shares[i]
  <2> TAKE i \in 0..(n - 1)
  <2>1. i \in 0..n /\ i + 1 \in 0..n
    BY <1>1
  <2>2. w[element[i]] = (B(i + 1) - B(i)) * others
    <3>1. element[i] \in S
      BY <1>7
    <3>2. element[i] = PeerAt(r, m, i)
      BY <1>5, <2>1
    <3> HIDE DEF S, B
    <3> QED BY <1>2, <2>1, <3>1, <3>2
  <2>3. \A x, y \in Nat : (x - y) * others = x * others - y * others
    BY <1>2
  <2> HIDE DEF B, w
  <2> QED BY <1>3, <2>1, <2>2, <2>3
<1>14. h[S] = shares[n]
  <2>1. \A i, k \in 0..(n - 1) : element[i] = element[k] => i = k
    <3>1. \A i \in 0..(n - 1) : i \in 0..n
      BY <1>1
    <3> QED BY <1>5, <3>1
  <2>2. SumFold(S, w, h)
    <3> HIDE DEF Fold, w, S
    <3> QED BY <1>10, <1>19
  <2>4. \A i \in 0..(n - 1) : w[element[i]] = shares[i + 1] - shares[i]
    BY <1>13
  <2> HIDE DEF S, w, shares
  <2>3. h[S] = shares[n]
    <3>1. Telescopes(S, n, element, w, shares)
      BY <1>7, <1>9, <1>12, <2>1, <2>4 DEF Telescopes
    <3> QED BY <2>2, <3>1, SumTelescopes
  <2> QED BY <2>3
<1>15. Portion(p) = (shape[e[m]] - B(n)) * others
  <2>1. n \in 0..n /\ n + 1 = grid[m] /\ p[m] = n
    BY <1>20
  <2>2. p = PeerAt(r, m, n)
    BY <1>5, <1>6, <2>1
  <2>3. B(n + 1) = shape[e[m]]
    BY <1>1, <2>1, BoundaryEnds
  <2> HIDE DEF B, Portion
  <2> QED BY <1>2, <2>1, <2>2, <2>3
<1>16. shares[n] = B(n) * others /\ B(n) \in Nat
  BY <1>1, <1>3
<1>17. \A x, y \in Nat : y * others + (x - y) * others = x * others
  BY <1>2
<1> HIDE DEF B, shares
<1>18. shares[n] + Portion(p) = shape[e[m]] * others
  <2>1. B(n) * others + (shape[e[m]] - B(n)) * others = shape[e[m]] * others
    BY <1>1, <1>16, <1>17
  <2> HIDE DEF Portion
  <2> QED BY <1>15, <1>16, <2>1
<1> QED BY <1>2, <1>14, <1>18

(* The last segment of the send buffer ends where the source of a process  *)
(* ends, the last one of the receive buffer where its destination ends,    *)
(* whatever the shape and the grid: the equality that prepare_common       *)
(* insists on never fails.                                                 *)
THEOREM SegmentsFillWorkspace ==
  ASSUME NEW N, NEW M, NEW bound, NEW shape, NEW grid, Setting(N, M, bound, shape, grid),
         NEW d \in Plan(M, N), NEW e \in Plan(M, N), NEW m \in 1..M, DifferAt(d, e, m, M),
         d[m] # e[m], NEW r \in Coordinates(grid),
         NEW p \in PeerCoords(grid, r, m), p[m] = grid[m] - 1
  PROVE  /\ SendDisplacement(shape, grid, d, e, r, p, m)
              + SpatialLen(SendRegion(shape, grid, d, e, r, p)) = SpatialLen(LocalRanges(shape, grid, r, d))
         /\ ReceiveDisplacement(shape, grid, d, e, r, p, m)
              + SpatialLen(ReceiveRegion(shape, grid, d, e, r, p)) = SpatialLen(LocalRanges(shape, grid, r, e))
<1> DEFINE S == Preceding(grid, r, m, p)
           Send(h) == SendFold(S, shape, grid, d, e, r, h)
           Receive(h) == ReceiveFold(S, shape, grid, d, e, r, h)
<1>1. /\ \E h : Send(h)
      /\ \A h : Send(h) => h[S] + SpatialLen(SendRegion(shape, grid, d, e, r, p))
                            = SpatialLen(LocalRanges(shape, grid, r, d))
  BY LastSegmentFits
<1>2. /\ \E h : SendFold(S, shape, grid, e, d, r, h)
      /\ \A h : SendFold(S, shape, grid, e, d, r, h) =>
           h[S] + SpatialLen(SendRegion(shape, grid, e, d, r, p)) = SpatialLen(LocalRanges(shape, grid, r, e))
  <2>1. DifferAt(e, d, m, M) /\ e[m] # d[m]
    BY DEF DifferAt
  <2> QED BY <2>1, LastSegmentFits
<1>3. \A q : ReceiveRegion(shape, grid, d, e, r, q) = SendRegion(shape, grid, e, d, r, q)
  BY ReceiveIsSendBack
<1>4. \A h : Receive(h) <=> SendFold(S, shape, grid, e, d, r, h)
  <2> HIDE DEF S
  <2> QED BY <1>3 DEF ReceiveFold, SendFold
<1>5. SendDisplacement(shape, grid, d, e, r, p, m) = (CHOOSE h : Send(h))[S]
  BY DEF SendDisplacement, FoldSet, MapThenFoldSet, SendFold, Preceding
<1>6. ReceiveDisplacement(shape, grid, d, e, r, p, m) = (CHOOSE h : Receive(h))[S]
  BY DEF ReceiveDisplacement, FoldSet, MapThenFoldSet, ReceiveFold, Preceding
<1> HIDE DEF S, Send, Receive
<1>7. Send(CHOOSE h : Send(h))
  BY <1>1
<1>8. Receive(CHOOSE h : Receive(h))
  BY <1>2, <1>4
<1> QED BY <1>1, <1>2, <1>3, <1>4, <1>5, <1>6, <1>7, <1>8

(* The invariant SegmentsFit of the run, for every bound: the two ends of  *)
(* a pair have the same region in mind and its segment fits both           *)
(* workspaces.                                                             *)
THEOREM SegmentsAlwaysFit == Spec => []SegmentsFit
<1>1. InputType => SegmentsFit
  <2> SUFFICES ASSUME InputType, input.kind = "transpose" PROVE SegmentsFit
    BY DEF SegmentsFit, EndsAgree, SegmentsFillTheBuffer
  <2>1. input \in Transposes
    BY DEF InputType
  <2>2. EndsAgree
    BY OneRegion DEF EndsAgree, Sent, Received
  <2>3. PICK bound \in Nat : input.shape \in [1..3 -> 0..bound] /\ input.grid \in [1..2 -> 1..bound]
    BY <2>1, TransposeInput
  <2> DEFINE m == Changed(input)
  <2>4. /\ input.source \in Plan(2, 3) /\ input.destination \in Plan(2, 3)
        /\ m \in 1..2 /\ DifferAt(input.source, input.destination, m, 2)
        /\ input.source[m] # input.destination[m]
    BY <2>1, TransposeInput
  <2>5. Setting(3, 2, bound, input.shape, input.grid)
    BY <2>3 DEF Setting
  <2> HIDE DEF m
  <2>6. ASSUME NEW r \in Ranks(input), NEW p \in Peers(input, r), p[m] = input.grid[m] - 1
        PROVE  /\ SendDisplacement(input.shape, input.grid, input.source, input.destination, r, p, m)
                    + SpatialLen(Sent(input, r, p)) = SpatialLen(Owned(input, r, input.source))
               /\ ReceiveDisplacement(input.shape, input.grid, input.source, input.destination, r, p, m)
                    + SpatialLen(Received(input, r, p)) = SpatialLen(Owned(input, r, input.destination))
    <3>1. r \in Coordinates(input.grid) /\ p \in PeerCoords(input.grid, r, m)
      BY DEF Ranks, Peers, m
    <3> QED BY <2>4, <2>5, <2>6, <3>1, SegmentsFillWorkspace DEF Sent, Received, Owned
  <2>7. SegmentsFillTheBuffer
    BY <2>6 DEF SegmentsFillTheBuffer, m
  <2> QED BY <2>2, <2>7 DEF SegmentsFit
<1>2. InputType /\ [Next]_<<input, work>> => InputType'
  BY SameInput DEF InputType
<1> QED BY <1>1, <1>2, InputTypeInit, PTL DEF Spec

----------------------------------------------------------------------------
(* Loops.                                                                  *)

(* A loop of m turns, as FoldLeft runs it: turn[<<i, t>>] is what turn i   *)
(* makes of t, and h what it makes of base over any part of the indexes.   *)
Runs(h, m, T, base, turn) ==
  /\ h[{}] = base
  /\ \A s \in SUBSET (1..m) :
       s # {} /\ h[s \ {Max(s)}] \in T => h[s] = turn[<<Max(s), h[s \ {Max(s)}]>>]

(* What holds before the loop, and of each turn after the one before it.   *)
KeptByTurns(Inv, m, T, base, turn) ==
  /\ base \in T /\ turn \in [(1..m) \X T -> T]
  /\ base \in Inv[0]
  /\ \A i \in 1..m : \A t \in T : t \in Inv[i - 1] => turn[<<i, t>>] \in Inv[i]

(* The last of the first indexes. *)
LEMMA LastIndex ==
  ASSUME NEW m \in Nat
  PROVE  /\ IsFiniteSet(1..m)
         /\ \A s \in SUBSET (1..m) : s # {} => Max(s) \in s
         /\ \A i \in 1..m : Max(1..i) = i /\ (1..i) \ {i} = 1..(i - 1)
<1>1. IsFiniteSet(1..m)
  <2>1. 1 \in Int /\ m \in Int
    OBVIOUS
  <2> QED BY <2>1, FS_Interval, Zenon
<1>2. ASSUME NEW s \in SUBSET (1..m), s # {} PROVE Max(s) \in s /\ \A x \in s : x <= Max(s)
  <2>1. s \in SUBSET Nat /\ \A x \in s : x <= m
    OBVIOUS
  <2> QED BY <1>2, <2>1, GreatestNatural
<1>3. ASSUME NEW i \in 1..m PROVE Max(1..i) = i /\ (1..i) \ {i} = 1..(i - 1)
  <2>1. 1..i \in SUBSET (1..m) /\ i \in 1..i
    OBVIOUS
  <2>2. Max(1..i) \in 1..i /\ i <= Max(1..i)
    BY <1>2, <2>1
  <2> HIDE DEF Max
  <2>3. Max(1..i) = i
    BY <2>2
  <2> QED BY <2>3
<1> QED BY <1>1, <1>2, <1>3

(* The first i indexes are some of all, and not none.                      *)
LEMMA FirstIndexes ==
  ASSUME NEW m \in Nat, NEW i \in 1..m
  PROVE  1..i \in SUBSET (1..m) /\ 1..i # {}
<1>1. i \in Nat /\ 1 <= i /\ i <= m
  OBVIOUS
<1>2. i \in 1..i
  BY <1>1
<1>3. \A x \in 1..i : x \in 1..m
  BY <1>1
<1> QED BY <1>2, <1>3

(* A loop has an end, and there what its turns keep holds.                 *)
LEMMA LoopEnds ==
  ASSUME NEW m \in Nat, NEW T, NEW base, NEW turn, NEW Inv, KeptByTurns(Inv, m, T, base, turn)
  PROVE  /\ \E f \in [SUBSET (1..m) -> T] : Runs(f, m, T, base, turn)
         /\ \A h : Runs(h, m, T, base, turn) => h[1..m] \in T /\ h[1..m] \in Inv[m]
<1> DEFINE S == 1..m
           choice == [s \in SUBSET S |-> Max(s)]
<1>0. /\ base \in T /\ turn \in [S \X T -> T]
      /\ base \in Inv[0]
      /\ \A i \in 1..m : \A t \in T : t \in Inv[i - 1] => turn[<<i, t>>] \in Inv[i]
  BY DEF KeptByTurns
<1>1. IsFiniteSet(S) /\ Chooses(choice, S)
  BY LastIndex DEF Chooses
<1>2. \A s \in SUBSET S : choice[s] = Max(s)
  OBVIOUS
<1>3. PICK f \in [SUBSET S -> T] : IsFold(f, S, base, choice, turn)
  <2> HIDE DEF S, choice
  <2> QED BY <1>0, <1>1, FoldExists
<1>4. Runs(f, m, T, base, turn)
  <2>1. f[{}] = base
    BY <1>3 DEF IsFold
  <2>2. ASSUME NEW s \in SUBSET S, s # {} PROVE f[s] = turn[<<Max(s), f[s \ {Max(s)}]>>]
    <3> HIDE DEF choice
    <3> QED BY <1>2, <1>3, <2>2 DEF IsFold
  <2> QED BY <2>1, <2>2 DEF Runs
<1>5. ASSUME NEW h, Runs(h, m, T, base, turn)
      PROVE  h[1..m] \in T /\ h[1..m] \in Inv[m]
  <2>1. /\ h[{}] = base
        /\ \A s \in SUBSET S : s # {} /\ h[s \ {Max(s)}] \in T => h[s] = turn[<<Max(s), h[s \ {Max(s)}]>>]
    BY <1>5 DEF Runs
  <2> DEFINE Bad == {i \in 0..m : ~ (h[1..i] \in T /\ h[1..i] \in Inv[i])}
  <2>2. ASSUME NEW i \in Bad, \A k \in Bad : i <= k PROVE FALSE
    <3>1. CASE i = 0
      <4>1. 1..0 = {}
        OBVIOUS
      <4> QED BY <1>0, <2>1, <3>1, <4>1
    <3>2. CASE i # 0
      <4>1. i \in 1..m /\ i - 1 \in 0..m /\ ~ (i <= i - 1)
        BY <3>2
      <4>2. h[1..(i - 1)] \in T /\ h[1..(i - 1)] \in Inv[i - 1]
        BY <2>2, <4>1
      <4>3. Max(1..i) = i /\ (1..i) \ {i} = 1..(i - 1) /\ 1..i \in SUBSET S /\ 1..i # {}
        <5>1. Max(1..i) = i /\ (1..i) \ {i} = 1..(i - 1)
          <6> HIDE DEF Bad
          <6> QED BY <4>1, LastIndex
        <5>2. 1..i \in SUBSET S /\ 1..i # {}
          <6> HIDE DEF Bad
          <6> QED BY <4>1, FirstIndexes
        <5> QED BY <5>1, <5>2
      <4>4. h[1..i] = turn[<<i, h[1..(i - 1)]>>]
        <5> HIDE DEF S, Bad
        <5> QED BY <2>1, <4>2, <4>3
      <4>5. h[1..i] \in T /\ h[1..i] \in Inv[i]
        <5>1. turn[<<i, h[1..(i - 1)]>>] \in T
          BY <1>0, <4>1, <4>2
        <5>2. turn[<<i, h[1..(i - 1)]>>] \in Inv[i]
          BY <1>0, <4>1, <4>2
        <5> QED BY <4>4, <5>1, <5>2, Zenon
      <4> QED BY <4>5
    <3> QED BY <3>1, <3>2
  <2>3. Bad = {}
    <3>1. Bad \in SUBSET Nat
      OBVIOUS
    <3> HIDE DEF Bad
    <3> QED BY <2>2, <3>1, LeastNatural
  <2>4. m \in 0..m
    OBVIOUS
  <2> QED BY <2>3, <2>4
<1> QED BY <1>3, <1>4, <1>5

----------------------------------------------------------------------------
(* Slots of a buffer.                                                      *)

(* The quotient and the remainder of a number are unique. *)
LEMMA QuotientIs ==
  ASSUME NEW s \in Nat \ {0}, NEW q \in Nat, NEW p \in Nat, NEW i \in 0..(s - 1), NEW j \in 0..(s - 1),
         q * s + i = p * s + j
  PROVE  q = p /\ i = j
<1>1. ASSUME NEW a \in Nat, NEW b \in Nat, a < b PROVE a * s + s <= b * s
  <2>1. s * (a + 1) <= s * b
    BY <1>1, Monotone
  <2>2. s * (a + 1) = a * s + s /\ s * b = b * s
    OBVIOUS
  <2> QED BY <2>1, <2>2
<1>2. q * s \in Nat /\ p * s \in Nat
  OBVIOUS
<1>3. ~ (q < p)
  <2>1. SUFFICES ASSUME q < p PROVE FALSE
    OBVIOUS
  <2>2. q * s + s <= p * s
    BY <1>1, <2>1
  <2> QED BY <1>2, <2>2
<1>4. ~ (p < q)
  <2>1. SUFFICES ASSUME p < q PROVE FALSE
    OBVIOUS
  <2>2. p * s + s <= q * s
    BY <1>1, <2>1
  <2> QED BY <1>2, <2>2
<1>5. q = p
  BY <1>3, <1>4
<1> QED BY <1>2, <1>5

(* The shape of a buffer. *)
IsBuffer(b) == b.n \in Nat \ {0} /\ b.groups \in Nat /\ b.stride \in Nat \ {0}

(* There are at most as many complex numbers as reals, and both forms fit. *)
LEMMA Counts ==
  ASSUME NEW b, IsBuffer(b)
  PROVE  /\ Complexes(b) \in Nat \ {0} /\ Lines(b) \in Nat /\ Reals(b) \in Nat
         /\ Complexes(b) <= b.n /\ b.n <= 2 * Complexes(b)
         /\ PromotedLen(b) \in Nat
         /\ Lines(b) * Complexes(b) \in Nat
         /\ Lines(b) * Complexes(b) <= PromotedLen(b)
         /\ Reals(b) <= 2 * PromotedLen(b)
         /\ b.stride > 1 => Reals(b) <= PromotedLen(b)
<1> USE DEF IsBuffer
<1>1. Lines(b) \in Nat
  BY DEF Lines
<1>2. Complexes(b) \in Nat \ {0} /\ Complexes(b) <= b.n /\ b.n <= 2 * Complexes(b)
  BY DEF Complexes
<1>3. Reals(b) \in Nat /\ Lines(b) * Complexes(b) \in Nat
  BY <1>1, <1>2 DEF Reals
<1> DEFINE real == IF b.stride > 1 THEN Reals(b) ELSE (Reals(b) + 1) \div 2
<1>4. real \in Nat /\ Reals(b) <= 2 * real /\ (b.stride > 1 => Reals(b) = real)
  BY <1>3
<1>5. PromotedLen(b) = IF real > Lines(b) * Complexes(b) THEN real ELSE Lines(b) * Complexes(b)
  BY DEF PromotedLen
<1> QED BY <1>1, <1>2, <1>3, <1>4, <1>5

(* A slot counts blocks, elements of a line and lines of a block.          *)
LEMMA SlotIs ==
  ASSUME NEW b, IsBuffer(b), NEW len \in Nat \ {0},
         NEW line \in Elements(Lines(b)), NEW k \in Elements(len)
  PROVE  /\ line \div b.stride \in 0..(b.groups - 1) /\ line % b.stride \in 0..(b.stride - 1)
         /\ line = (line \div b.stride) * b.stride + (line % b.stride)
         /\ (line \div b.stride) * len + k \in Nat
         /\ Slot(b, line, k, len) = ((line \div b.stride) * len + k) * b.stride + (line % b.stride)
         /\ Slot(b, line, k, len) \in 0..(Lines(b) * len - 1)
<1> DEFINE s == b.stride
           o == line \div s
           i == line % s
<1>0. s \in Nat \ {0} /\ b.groups \in Nat /\ line \in Nat /\ line < b.groups * s /\ k \in Nat /\ k < len
  <2>1. Lines(b) \in Nat
    BY Counts
  <2> QED BY <2>1 DEF IsBuffer, Lines, Elements
<1> HIDE DEF s
<1>1. o \in Nat /\ i \in 0..(s - 1) /\ line = o * s + i
  BY <1>0
<1> HIDE DEF o, i
<1>2. o < b.groups
  <2>1. SUFFICES ASSUME b.groups <= o PROVE FALSE
    BY <1>0, <1>1
  <2>2. s * b.groups <= s * o
    BY <1>0, <1>1, <2>1, Monotone
  <2>3. s * b.groups = b.groups * s /\ s * o = o * s /\ o * s \in Nat /\ b.groups * s \in Nat
    BY <1>0, <1>1
  <2> QED BY <1>0, <1>1, <2>2, <2>3
<1>3. o * len + k \in Nat
  BY <1>0, <1>1
<1>4. Slot(b, line, k, len) = (o * len + k) * s + i
  <2>1. Slot(b, line, k, len) = o * len * s + k * s + i
    BY DEF Slot, o, i, s
  <2>2. (o * len + k) * s = o * len * s + k * s
    BY <1>0, <1>1
  <2> QED BY <2>1, <2>2
<1>5. (o * len + k) * s + i \in 0..((b.groups * s) * len - 1)
  <2>1. (o + 1) * len <= b.groups * len
    <3>1. len * (o + 1) <= len * b.groups
      BY <1>0, <1>1, <1>2, Monotone
    <3>2. len * (o + 1) = (o + 1) * len /\ len * b.groups = b.groups * len
      BY <1>0, <1>1
    <3> QED BY <3>1, <3>2
  <2>2. (o * len + k) + 1 <= b.groups * len
    <3>1. (o + 1) * len = o * len + len /\ o * len \in Nat /\ b.groups * len \in Nat
      BY <1>0, <1>1
    <3> QED BY <1>0, <2>1, <3>1
  <2>3. s * ((o * len + k) + 1) <= s * (b.groups * len)
    <3>1. b.groups * len \in Nat
      BY <1>0
    <3> QED BY <1>0, <1>3, <2>2, <3>1, Monotone
  <2>4. s * ((o * len + k) + 1) = (o * len + k) * s + s
    BY <1>0, <1>3
  <2>5. s * (b.groups * len) = (b.groups * s) * len /\ (b.groups * s) * len \in Nat
    BY <1>0
  <2>6. (o * len + k) * s \in Nat
    BY <1>0, <1>3
  <2> QED BY <1>1, <1>0, <2>3, <2>4, <2>5, <2>6
<1> QED BY <1>0, <1>1, <1>2, <1>3, <1>4, <1>5 DEF o, i, s, Lines

(* Slots of different lines are different, also when the line in front is  *)
(* the one with fewer elements.                                            *)
LEMMA SlotsApart ==
  ASSUME NEW b, IsBuffer(b), NEW len \in Nat \ {0}, NEW most \in Nat \ {0}, len <= most,
         NEW line \in Elements(Lines(b)), NEW k \in Elements(len),
         NEW other \in Elements(Lines(b)), NEW l \in Elements(most),
         line < other
  PROVE  Slot(b, line, k, len) # Slot(b, other, l, most)
<1> DEFINE s == b.stride
           o == line \div s
           i == line % s
           p == other \div s
           j == other % s
<1>1. /\ o \in Nat /\ i \in 0..(s - 1) /\ line = o * s + i /\ o * len + k \in Nat
      /\ Slot(b, line, k, len) = (o * len + k) * s + i
  BY SlotIs
<1>2. /\ p \in Nat /\ j \in 0..(s - 1) /\ other = p * s + j /\ p * most + l \in Nat
      /\ Slot(b, other, l, most) = (p * most + l) * s + j
  BY SlotIs
<1>3. s \in Nat \ {0} /\ k \in Nat /\ k < len /\ l \in Nat
  BY DEF IsBuffer, Elements
<1> HIDE DEF s, o, i, p, j
<1>4. SUFFICES ASSUME (o * len + k) * s + i = (p * most + l) * s + j PROVE FALSE
  BY <1>1, <1>2
<1>5. o * len + k = p * most + l /\ i = j
  BY <1>1, <1>2, <1>3, <1>4, QuotientIs
<1>6. o < p
  <2>1. SUFFICES ASSUME p <= o PROVE FALSE
    BY <1>1, <1>2
  <2>2. s * p <= s * o
    BY <1>1, <1>2, <1>3, <2>1, Monotone
  <2>3. s * p = p * s /\ s * o = o * s /\ p * s \in Nat /\ o * s \in Nat
    BY <1>1, <1>2, <1>3
  <2> QED BY <1>1, <1>2, <1>5, <2>2, <2>3
<1>7. len * (o + 1) <= len * p
  BY <1>1, <1>2, <1>6, Monotone
<1>8. p * len <= p * most
  BY <1>2, Monotone
<1>9. len * (o + 1) = o * len + len /\ len * p = p * len /\ o * len \in Nat /\ p * len \in Nat /\ p * most \in Nat
  BY <1>1, <1>2
<1> QED BY <1>3, <1>5, <1>7, <1>8, <1>9

(* Every slot belongs to one element of one line. *)
LEMMA OneSlot ==
  ASSUME NEW b, IsBuffer(b), NEW len \in Nat \ {0},
         NEW line \in Elements(Lines(b)), NEW k \in Elements(len),
         NEW other \in Elements(Lines(b)), NEW l \in Elements(len),
         Slot(b, line, k, len) = Slot(b, other, l, len)
  PROVE  line = other /\ k = l
<1>1. line \in Nat /\ other \in Nat /\ k \in Nat /\ l \in Nat
  <2>1. Lines(b) \in Nat
    BY Counts
  <2> QED BY <2>1 DEF Elements
<1>2. ~ (line < other) /\ ~ (other < line)
  <2>1. len <= len
    OBVIOUS
  <2> QED BY <2>1, SlotsApart
<1>3. line = other
  BY <1>1, <1>2
<1> DEFINE s == b.stride
           o == line \div s
           i == line % s
<1>4. /\ o \in Nat /\ i \in 0..(s - 1) /\ o * len + k \in Nat /\ o * len + l \in Nat
      /\ (o * len + k) * s + i = (o * len + l) * s + i
  BY <1>3, SlotIs
<1>5. s \in Nat \ {0}
  BY DEF IsBuffer
<1> HIDE DEF s, o, i
<1>6. o * len + k = o * len + l
  BY <1>4, <1>5, QuotientIs
<1>7. o * len \in Nat
  BY <1>4
<1> QED BY <1>1, <1>3, <1>6, <1>7

----------------------------------------------------------------------------
(* Contents of a buffer.                                                   *)

Content ==
  {Real(line, k) : line \in Int, k \in Int} \union {Spectral(line, k) : line \in Int, k \in Int}
  \union {Zero, Garbage}

Buffer(b) == [Scalars(b) -> Content]

(* What the scalars hold. *)
LEMMA Contents ==
  /\ \A line, k \in Int : Real(line, k) \in Content /\ Spectral(line, k) \in Content
  /\ Zero \in Content /\ Garbage \in Content
BY DEF Content

(* A line of a buffer is whole. *)
PackedAt(b, cell, line) == \A k \in Elements(b.n) : cell[Slot(b, line, k, b.n)] = Real(line, k)

PromotedAt(b, cell, line) == \A k \in Elements(b.n) : cell[Re(Slot(b, line, k, b.n))] = Real(line, k)

SpectralAt(b, cell, line, len) ==
  \A k \in Elements(Complexes(b)) :
    /\ cell[Re(Slot(b, line, k, len))] = Spectral(line, k)
    /\ cell[Im(Slot(b, line, k, len))] = Spectral(line, k)

(* A line that is whole is what its transform needs. *)
LEMMA WholeLines ==
  ASSUME NEW b, NEW cell, NEW line
  PROVE  /\ PackedLine(b, cell, line) = WholeReal(b, line) <=> PackedAt(b, cell, line)
         /\ PromotedLine(b, cell, line) = WholeReal(b, line) <=> PromotedAt(b, cell, line)
         /\ \A len : SpectralAt(b, cell, line, len) =>
                       SpectralLine(b, cell, line, len) = WholeSpectral(b, line)
<1>1. PackedLine(b, cell, line) = WholeReal(b, line) <=> PackedAt(b, cell, line)
  BY DEF PackedLine, WholeReal, PackedAt
<1>2. PromotedLine(b, cell, line) = WholeReal(b, line) <=> PromotedAt(b, cell, line)
  BY DEF PromotedLine, WholeReal, PromotedAt
<1>3. \A len : SpectralAt(b, cell, line, len) =>
                 SpectralLine(b, cell, line, len) = WholeSpectral(b, line)
  BY DEF SpectralLine, WholeSpectral, SpectralAt
<1> QED BY <1>1, <1>2, <1>3

(* Writing within the buffer. *)
LEMMA Written ==
  ASSUME NEW b, NEW cell \in Buffer(b), NEW f, DOMAIN f \subseteq Scalars(b),
         \A x \in DOMAIN f : f[x] \in Content
  PROVE  /\ Write(cell, f) \in Buffer(b)
         /\ \A x \in Scalars(b) : Write(cell, f)[x] = IF x \in DOMAIN f THEN f[x] ELSE cell[x]
<1>1. cell \in [Scalars(b) -> Content]
  BY DEF Buffer
<1>2. Write(cell, f) = [x \in Scalars(b) |-> IF x \in DOMAIN f THEN f[x] ELSE cell[x]]
  BY <1>1 DEF Write
<1>3. \A x \in Scalars(b) : (IF x \in DOMAIN f THEN f[x] ELSE cell[x]) \in Content
  BY <1>1
<1> QED BY <1>2, <1>3 DEF Buffer

(* A spectrum is written whole where its line has its slots, and nowhere   *)
(* else.                                                                   *)
LEMMA SpectrumWritten ==
  ASSUME NEW b, IsBuffer(b), NEW cell \in Buffer(b), NEW line \in Elements(Lines(b)), NEW reals
  PROVE  LET after == WriteSpectral(b, cell, line, reals)
             slot(k) == Slot(b, line, k, Complexes(b))
         IN  /\ after \in Buffer(b)
             /\ reals = WholeReal(b, line) => SpectralAt(b, after, line, Complexes(b))
             /\ \A x \in Scalars(b) :
                  (\A k \in Elements(Complexes(b)) : x # Re(slot(k)) /\ x # Im(slot(k)))
                    => after[x] = cell[x]
<1> DEFINE c == Complexes(b)
           E == Elements(c)
           slot(k) == Slot(b, line, k, c)
           D == UNION {{Re(slot(k)), Im(slot(k))} : k \in E}
           number(x) == CHOOSE k \in E : x \div 2 = slot(k)
           f == [x \in D |-> LocalTransform(reals, WholeReal(b, line), Spectral(line, number(x)))]
           after == WriteSpectral(b, cell, line, reals)
<1>1. after = Write(cell, f)
  BY DEF WriteSpectral
<1>2. c \in Nat \ {0} /\ Lines(b) \in Nat /\ Lines(b) * c \in Nat /\ Lines(b) * c <= PromotedLen(b)
      /\ PromotedLen(b) \in Nat
  BY Counts
<1>3. E \subseteq Int /\ line \in Int
  BY <1>2 DEF Elements
<1>4. ASSUME NEW k \in E
      PROVE  /\ Re(slot(k)) \in Scalars(b) /\ Im(slot(k)) \in Scalars(b)
             /\ Re(slot(k)) \div 2 = slot(k) /\ Im(slot(k)) \div 2 = slot(k)
             /\ \A l \in E : slot(k) = slot(l) => l = k
  <2>1. slot(k) \in 0..(Lines(b) * c - 1)
    BY <1>2, SlotIs
  <2>2. \A l \in E : slot(k) = slot(l) => l = k
    BY <1>2, OneSlot
  <2> HIDE DEF slot, c
  <2>3. \A z \in Nat : (2 * z) \div 2 = z /\ (2 * z + 1) \div 2 = z
    OBVIOUS
  <2>4. slot(k) \in Nat /\ slot(k) < PromotedLen(b)
    BY <1>2, <2>1
  <2>5. Re(slot(k)) \in Scalars(b) /\ Im(slot(k)) \in Scalars(b)
    BY <1>2, <2>4 DEF Re, Im, Scalars
  <2> QED BY <2>2, <2>3, <2>4, <2>5 DEF Re, Im
<1> HIDE DEF slot, E, c, after
<1>5. ASSUME NEW k \in E, NEW x, x = Re(slot(k)) \/ x = Im(slot(k))
      PROVE  x \in D /\ number(x) = k
  <2>1. x \in D
    BY <1>5
  <2>2. x \div 2 = slot(k) /\ \A l \in E : x \div 2 = slot(l) => l = k
    BY <1>4, <1>5
  <2> QED BY <2>1, <2>2
<1>6. \A x \in D : \E k \in E : x = Re(slot(k)) \/ x = Im(slot(k))
  OBVIOUS
<1>7. DOMAIN f = D /\ D \subseteq Scalars(b) /\ \A x \in D : f[x] \in Content
  <2>1. D \subseteq Scalars(b)
    BY <1>4, <1>6
  <2>2. \A x \in D : number(x) \in E
    <3> HIDE DEF D, number
    <3> QED BY <1>5, <1>6
  <2> HIDE DEF D, number
  <2>3. \A x \in D : f[x] = Garbage \/ f[x] = Spectral(line, number(x))
    BY DEF LocalTransform
  <2> HIDE DEF f
  <2>4. \A x \in D : f[x] \in Content
    <3>1. ASSUME NEW x \in D PROVE f[x] \in Content
      <4>1. number(x) \in Int
        BY <1>3, <2>2
      <4> QED BY <1>3, <2>3, <4>1, Contents
    <3> QED BY <3>1
  <2> QED BY <2>1, <2>4 DEF f
<1>8. /\ after \in Buffer(b)
      /\ \A x \in Scalars(b) : after[x] = IF x \in D THEN f[x] ELSE cell[x]
  <2> HIDE DEF f, D
  <2> QED BY <1>1, <1>7, Written
<1>9. ASSUME reals = WholeReal(b, line), NEW k \in E, NEW x, x = Re(slot(k)) \/ x = Im(slot(k))
      PROVE  after[x] = Spectral(line, k)
  <2>1. x \in D /\ number(x) = k /\ x \in Scalars(b)
    BY <1>4, <1>5, <1>9
  <2> HIDE DEF D, number
  <2>2. f[x] = Spectral(line, k)
    BY <1>9, <2>1 DEF LocalTransform
  <2> HIDE DEF f
  <2> QED BY <1>8, <2>1, <2>2
<1>10. reals = WholeReal(b, line) => SpectralAt(b, after, line, c)
  <2> HIDE DEF D, f, number
  <2> QED BY <1>9 DEF SpectralAt, slot, E, c
<1>11. ASSUME NEW x \in Scalars(b), \A k \in E : x # Re(slot(k)) /\ x # Im(slot(k))
       PROVE  after[x] = cell[x]
  <2>1. x \notin D
    BY <1>11
  <2> HIDE DEF D, f
  <2> QED BY <1>8, <2>1
<1> HIDE DEF D, f, number
<1> QED BY <1>8, <1>10, <1>11 DEF slot, E, c, after

(* Reals are written where the promoted line has its slots, and nowhere    *)
(* else.                                                                   *)
LEMMA PromotedWritten ==
  ASSUME NEW b, IsBuffer(b), b.stride > 1,
         NEW cell \in Buffer(b), NEW line \in Elements(Lines(b)), NEW spectrum
  PROVE  LET after == WriteReal(b, cell, line, spectrum, Re)
             slot(k) == Slot(b, line, k, b.n)
         IN  /\ after \in Buffer(b)
             /\ spectrum = WholeSpectral(b, line) => PromotedAt(b, after, line)
             /\ \A x \in Scalars(b) : (\A k \in Elements(b.n) : x # Re(slot(k))) => after[x] = cell[x]
<1> DEFINE n == b.n
           E == Elements(n)
           slot(k) == Slot(b, line, k, n)
           D == {Re(slot(k)) : k \in E}
           number(x) == CHOOSE k \in E : x = Re(slot(k))
           f == [x \in D |-> LocalTransform(spectrum, WholeSpectral(b, line), Real(line, number(x)))]
           after == WriteReal(b, cell, line, spectrum, Re)
<1>1. after = Write(cell, f)
  BY DEF WriteReal
<1>2. n \in Nat \ {0} /\ Lines(b) \in Nat /\ Reals(b) <= PromotedLen(b) /\ PromotedLen(b) \in Nat
      /\ Reals(b) = Lines(b) * n
  BY Counts DEF IsBuffer, Reals
<1>3. E \subseteq Int /\ line \in Int
  BY <1>2 DEF Elements
<1>4. ASSUME NEW k \in E
      PROVE  Re(slot(k)) \in Scalars(b) /\ \A l \in E : Re(slot(k)) = Re(slot(l)) => l = k
  <2>1. slot(k) \in 0..(Lines(b) * n - 1)
    BY <1>2, SlotIs
  <2>2. \A l \in E : slot(k) = slot(l) => l = k
    BY <1>2, OneSlot
  <2>3. ASSUME NEW l \in E PROVE slot(l) \in Int
    <3>1. slot(l) \in 0..(Lines(b) * n - 1)
      BY <1>2, SlotIs
    <3> QED BY <1>2, <3>1
  <2> HIDE DEF slot, n
  <2>4. slot(k) \in Nat /\ slot(k) < Reals(b) /\ Reals(b) \in Nat
    BY <1>2, <2>1
  <2>5. Re(slot(k)) \in Scalars(b)
    BY <1>2, <2>4 DEF Re, Scalars
  <2> QED BY <2>2, <2>3, <2>4, <2>5 DEF Re
<1> HIDE DEF slot, E, n, after
<1>5. \A k \in E : Re(slot(k)) \in D /\ number(Re(slot(k))) = k
  BY <1>4
<1>6. \A x \in D : \E k \in E : x = Re(slot(k))
  OBVIOUS
<1>7. DOMAIN f = D /\ D \subseteq Scalars(b) /\ \A x \in D : f[x] \in Content
  <2>1. D \subseteq Scalars(b)
    BY <1>4, <1>6
  <2>2. \A x \in D : number(x) \in E
    <3> HIDE DEF D, number
    <3> QED BY <1>5, <1>6
  <2> HIDE DEF D, number
  <2>3. \A x \in D : f[x] = Garbage \/ f[x] = Real(line, number(x))
    BY DEF LocalTransform
  <2> HIDE DEF f
  <2>4. \A x \in D : f[x] \in Content
    <3>1. ASSUME NEW x \in D PROVE f[x] \in Content
      <4>1. number(x) \in Int
        BY <1>3, <2>2
      <4> QED BY <1>3, <2>3, <4>1, Contents
    <3> QED BY <3>1
  <2> QED BY <2>1, <2>4 DEF f
<1>8. /\ after \in Buffer(b)
      /\ \A x \in Scalars(b) : after[x] = IF x \in D THEN f[x] ELSE cell[x]
  <2> HIDE DEF f, D
  <2> QED BY <1>1, <1>7, Written
<1>9. ASSUME spectrum = WholeSpectral(b, line), NEW k \in E
      PROVE  after[Re(slot(k))] = Real(line, k)
  <2> DEFINE x == Re(slot(k))
  <2>1. x \in D /\ number(x) = k /\ x \in Scalars(b)
    BY <1>4, <1>5
  <2> HIDE DEF D, number, x
  <2>2. f[x] = Real(line, k)
    BY <1>9, <2>1 DEF LocalTransform
  <2> HIDE DEF f
  <2>3. after[x] = Real(line, k)
    BY <1>8, <2>1, <2>2
  <2> QED BY <2>3 DEF x
<1>10. spectrum = WholeSpectral(b, line) => PromotedAt(b, after, line)
  <2> HIDE DEF D, f, number
  <2> QED BY <1>9 DEF PromotedAt, slot, E, n
<1>11. ASSUME NEW x \in Scalars(b), \A k \in E : x # Re(slot(k))
       PROVE  after[x] = cell[x]
  <2>1. x \notin D
    BY <1>11
  <2> HIDE DEF D, f
  <2> QED BY <1>8, <2>1
<1> HIDE DEF D, f, number
<1> QED BY <1>8, <1>10, <1>11 DEF slot, E, n, after

(* Reals are written where the packed line has its slots, and nowhere else. *)
LEMMA PackedWritten ==
  ASSUME NEW b, IsBuffer(b), NEW cell \in Buffer(b), NEW line \in Elements(Lines(b)), NEW spectrum
  PROVE  LET after == WriteReal(b, cell, line, spectrum, LAMBDA x : x)
             slot(k) == Slot(b, line, k, b.n)
         IN  /\ after \in Buffer(b)
             /\ spectrum = WholeSpectral(b, line) => PackedAt(b, after, line)
             /\ \A x \in Scalars(b) : (\A k \in Elements(b.n) : x # slot(k)) => after[x] = cell[x]
<1> DEFINE n == b.n
           E == Elements(n)
           slot(k) == Slot(b, line, k, n)
           D == {slot(k) : k \in E}
           number(x) == CHOOSE k \in E : x = slot(k)
           f == [x \in D |-> LocalTransform(spectrum, WholeSpectral(b, line), Real(line, number(x)))]
           after == WriteReal(b, cell, line, spectrum, LAMBDA x : x)
<1>1. after = Write(cell, f)
  BY DEF WriteReal
<1>2. n \in Nat \ {0} /\ Lines(b) \in Nat /\ Reals(b) <= 2 * PromotedLen(b) /\ PromotedLen(b) \in Nat
      /\ Reals(b) = Lines(b) * n
  BY Counts DEF IsBuffer, Reals
<1>3. E \subseteq Int /\ line \in Int
  BY <1>2 DEF Elements
<1>4. ASSUME NEW k \in E
      PROVE  slot(k) \in Scalars(b) /\ \A l \in E : slot(k) = slot(l) => l = k
  <2>1. slot(k) \in 0..(Lines(b) * n - 1)
    BY <1>2, SlotIs
  <2>2. \A l \in E : slot(k) = slot(l) => l = k
    BY <1>2, OneSlot
  <2>3. ASSUME NEW l \in E PROVE slot(l) \in Int
    <3>1. slot(l) \in 0..(Lines(b) * n - 1)
      BY <1>2, SlotIs
    <3> QED BY <1>2, <3>1
  <2> HIDE DEF slot, n
  <2>4. slot(k) \in Nat /\ slot(k) < Reals(b) /\ Reals(b) \in Nat
    BY <1>2, <2>1
  <2>5. slot(k) \in Scalars(b)
    BY <1>2, <2>4 DEF Re, Scalars
  <2> QED BY <2>2, <2>3, <2>4, <2>5 DEF Re
<1> HIDE DEF slot, E, n, after
<1>5. \A k \in E : slot(k) \in D /\ number(slot(k)) = k
  BY <1>4
<1>6. \A x \in D : \E k \in E : x = slot(k)
  OBVIOUS
<1>7. DOMAIN f = D /\ D \subseteq Scalars(b) /\ \A x \in D : f[x] \in Content
  <2>1. D \subseteq Scalars(b)
    BY <1>4, <1>6
  <2>2. \A x \in D : number(x) \in E
    <3> HIDE DEF D, number
    <3> QED BY <1>5, <1>6
  <2> HIDE DEF D, number
  <2>3. \A x \in D : f[x] = Garbage \/ f[x] = Real(line, number(x))
    BY DEF LocalTransform
  <2> HIDE DEF f
  <2>4. \A x \in D : f[x] \in Content
    <3>1. ASSUME NEW x \in D PROVE f[x] \in Content
      <4>1. number(x) \in Int
        BY <1>3, <2>2
      <4> QED BY <1>3, <2>3, <4>1, Contents
    <3> QED BY <3>1
  <2> QED BY <2>1, <2>4 DEF f
<1>8. /\ after \in Buffer(b)
      /\ \A x \in Scalars(b) : after[x] = IF x \in D THEN f[x] ELSE cell[x]
  <2> HIDE DEF f, D
  <2> QED BY <1>1, <1>7, Written
<1>9. ASSUME spectrum = WholeSpectral(b, line), NEW k \in E
      PROVE  after[slot(k)] = Real(line, k)
  <2> DEFINE x == slot(k)
  <2>1. x \in D /\ number(x) = k /\ x \in Scalars(b)
    BY <1>4, <1>5
  <2> HIDE DEF D, number, x
  <2>2. f[x] = Real(line, k)
    BY <1>9, <2>1 DEF LocalTransform
  <2> HIDE DEF f
  <2>3. after[x] = Real(line, k)
    BY <1>8, <2>1, <2>2
  <2> QED BY <2>3 DEF x
<1>10. spectrum = WholeSpectral(b, line) => PackedAt(b, after, line)
  <2> HIDE DEF D, f, number
  <2> QED BY <1>9 DEF PackedAt, slot, E, n
<1>11. ASSUME NEW x \in Scalars(b), \A k \in E : x # slot(k)
       PROVE  after[x] = cell[x]
  <2>1. x \notin D
    BY <1>11
  <2> HIDE DEF D, f
  <2> QED BY <1>8, <2>1
<1> HIDE DEF D, f, number
<1> QED BY <1>8, <1>10, <1>11 DEF slot, E, n, after

----------------------------------------------------------------------------
(* The loops of the conversions.                                           *)

(* The indexes of a loop, from 0 upwards and down to 0. *)
LEMMA Indexes ==
  ASSUME NEW m \in Nat
  PROVE  /\ (IF 0 <= m - 1 THEN [i \in 1..((m - 1) - 0 + 1) |-> 0 + i - 1] ELSE <<>>) = [i \in 1..m |-> i - 1]
         /\ (IF m - 1 >= 0 THEN [i \in 1..((m - 1) - 0 + 1) |-> (m - 1) - i + 1] ELSE <<>>) = [i \in 1..m |-> m - i]
<1>1. CASE m = 0
  <2>1. 1..0 = {}
    OBVIOUS
  <2>2. [i \in 1..0 |-> i - 1] = <<>> /\ [i \in 1..0 |-> 0 - i] = <<>>
    BY <2>1
  <2> QED BY <1>1, <2>2
<1>2. CASE m # 0
  <2>1. (m - 1) - 0 + 1 = m /\ 0 <= m - 1
    BY <1>2
  <2>2. \A i \in 1..m : 0 + i - 1 = i - 1 /\ (m - 1) - i + 1 = m - i
    OBVIOUS
  <2> QED BY <2>1, <2>2
<1> QED BY <1>1, <1>2

(* The reals of all lines, promoted from the back. *)
LEMMA PromoteKeeps ==
  ASSUME NEW b, IsBuffer(b), b.stride > 1, NEW cell \in Buffer(b)
  PROVE  LET after == Promote(b, cell)
         IN  /\ after \in Buffer(b)
             /\ \A j \in Elements(Reals(b)) : after[Re(j)] = cell[j]
<1> DEFINE m == Reals(b)
           T == Buffer(b)
           seq == [i \in 1..m |-> m - i]
           turn == [it \in (1..m) \X T |-> PromoteOne(it[2], seq[it[1]])]
           Done(c, t) == \A j \in Elements(m) : c[IF j >= m - t THEN Re(j) ELSE j] = cell[j]
           Inv == [t \in 0..m |-> {c \in T : Done(c, t)}]
           Fold(h) == h = [s \in SUBSET (1..m) |->
                             IF s = {} THEN cell
                             ELSE LET x == Max(s) IN PromoteOne(h[s \ {x}], seq[x])]
<1>1. /\ m \in Nat /\ PromotedLen(b) \in Nat /\ m <= PromotedLen(b)
      /\ \A i \in 1..m : seq[i] = m - i /\ seq[i] \in Elements(m)
  BY Counts DEF Elements
<1>2. ASSUME NEW c \in T, NEW i \in Elements(m)
      PROVE  /\ PromoteOne(c, i) \in T
             /\ PromoteOne(c, i)[Re(i)] = c[i]
             /\ \A x \in Scalars(b) : x # Re(i) /\ x # Im(i) => PromoteOne(c, i)[x] = c[x]
  <2>1. {Re(i), Im(i)} \subseteq Scalars(b) /\ i \in Scalars(b)
    BY <1>1 DEF Re, Im, Scalars, Elements
  <2> DEFINE f == [x \in {Re(i), Im(i)} |-> IF x = Re(i) THEN c[i] ELSE Zero]
  <2>2. \A x \in DOMAIN f : f[x] \in Content
    BY <2>1, Contents DEF Buffer
  <2>3. DOMAIN f = {Re(i), Im(i)} /\ f[Re(i)] = c[i]
    OBVIOUS
  <2> HIDE DEF f
  <2>4. /\ Write(c, f) \in Buffer(b)
        /\ \A x \in Scalars(b) : Write(c, f)[x] = IF x \in DOMAIN f THEN f[x] ELSE c[x]
    BY <2>1, <2>2, <2>3, Written
  <2>5. PromoteOne(c, i) = Write(c, f)
    BY DEF PromoteOne, f
  <2> QED BY <2>1, <2>3, <2>4, <2>5
<1>3. turn \in [(1..m) \X T -> T] /\ \A i \in 1..m : \A c \in T : turn[<<i, c>>] = PromoteOne(c, seq[i])
  <2> HIDE DEF seq, m, T
  <2> QED BY <1>1, <1>2
<1>4. KeptByTurns(Inv, m, T, cell, turn)
  <2>1. cell \in Inv[0]
    BY <1>1 DEF Elements
  <2>2. ASSUME NEW i \in 1..m, NEW c \in T, Done(c, i - 1)
        PROVE  Done(PromoteOne(c, seq[i]), i)
    <3> DEFINE k == m - i
               next == PromoteOne(c, k)
    <3>1. k \in Elements(m) /\ seq[i] = k
      BY <1>1
    <3>2. ASSUME NEW j \in Elements(m) PROVE next[IF j >= m - i THEN Re(j) ELSE j] = cell[j]
      <4> HIDE DEF next
      <4>1. j \in Nat /\ j < m /\ k \in Nat
        BY <1>1, <3>1 DEF Elements
      <4>2. Re(j) \in Scalars(b) /\ j \in Scalars(b)
        BY <1>1, <4>1 DEF Re, Scalars
      <4>3. CASE j = k
        <5>1. c[k] = cell[k]
          BY <1>1, <2>2, <3>1, <4>3
        <5> QED BY <1>2, <3>1, <4>3, <5>1 DEF next
      <4>4. CASE j > k
        <5>1. c[Re(j)] = cell[j]
          <6>1. j >= m - (i - 1)
            BY <1>1, <4>1, <4>4
          <6> QED BY <2>2, <6>1
        <5>2. Re(j) # Re(k) /\ Re(j) # Im(k)
          BY <4>1, <4>4 DEF Re, Im
        <5>3. j >= m - i
          BY <1>1, <4>1, <4>4
        <5> QED BY <1>2, <3>1, <4>2, <5>1, <5>2, <5>3 DEF next
      <4>5. CASE j < k
        <5>1. c[j] = cell[j]
          BY <1>1, <2>2, <4>1, <4>5
        <5>2. j # Re(k) /\ j # Im(k)
          BY <4>1, <4>5 DEF Re, Im
        <5>3. ~ (j >= m - i)
          BY <1>1, <4>1, <4>5
        <5> QED BY <1>2, <3>1, <4>2, <5>1, <5>2, <5>3 DEF next
      <4> QED BY <4>1, <4>3, <4>4, <4>5
    <3> QED BY <3>1, <3>2
  <2> HIDE DEF Done, m, T, seq, turn
  <2>3. ASSUME NEW i \in 1..m, NEW c \in T, c \in Inv[i - 1]
        PROVE  turn[<<i, c>>] \in Inv[i]
    <3>1. i - 1 \in 0..m /\ i \in 0..m
      BY <1>1
    <3>2. turn[<<i, c>>] \in T /\ turn[<<i, c>>] = PromoteOne(c, seq[i])
      BY <1>3
    <3> QED BY <2>2, <2>3, <3>1, <3>2
  <2> HIDE DEF Inv
  <2> QED BY <1>3, <2>1, <2>3 DEF KeptByTurns, T
<1>5. Promote(b, cell) = (CHOOSE h : Fold(h))[1..m]
  <2>1. Promote(b, cell) = FoldLeft(PromoteOne, cell, seq)
    <3>1. (IF m - 1 >= 0 THEN [i \in 1..((m - 1) - 0 + 1) |-> (m - 1) - i + 1] ELSE <<>>) = seq
      BY <1>1, Indexes
    <3> HIDE DEF seq, m
    <3> QED BY <3>1 DEF Promote, LoopDown, m
  <2>2. DOMAIN seq = 1..m
    OBVIOUS
  <2> HIDE DEF seq, m
  <2> QED BY <2>1, <2>2 DEF FoldLeft, MapThenFoldSet
<1>6. ASSUME NEW h, Fold(h) PROVE Runs(h, m, T, cell, turn)
  <2> HIDE DEF seq, turn, m, T
  <2>1. h[{}] = cell /\ \A s \in SUBSET (1..m) : s # {} => h[s] = PromoteOne(h[s \ {Max(s)}], seq[Max(s)])
    BY <1>6
  <2>2. \A s \in SUBSET (1..m) : s # {} => Max(s) \in 1..m
    BY <1>1, LastIndex
  <2> QED BY <1>3, <2>1, <2>2 DEF Runs
<1>7. \E h : Fold(h)
  <2> HIDE DEF seq, turn, m, T, Inv
  <2>1. PICK f \in [SUBSET (1..m) -> T] : Runs(f, m, T, cell, turn)
    BY <1>1, <1>4, LoopEnds
  <2>2. \A s \in SUBSET (1..m) : s # {} => Max(s) \in 1..m
    BY <1>1, LastIndex
  <2>3. f[{}] = cell /\ \A s \in SUBSET (1..m) : s # {} => f[s] = PromoteOne(f[s \ {Max(s)}], seq[Max(s)])
    BY <1>3, <2>1, <2>2 DEF Runs
  <2> QED BY <2>1, <2>3
<1>8. Promote(b, cell) \in T /\ Promote(b, cell) \in Inv[m]
  <2> HIDE DEF Fold, Inv, m, T, turn
  <2>1. PICK h : Fold(h) /\ h = CHOOSE g : Fold(g)
    BY <1>7
  <2>2. Promote(b, cell) = h[1..m] /\ Runs(h, m, T, cell, turn)
    BY <1>5, <1>6, <2>1
  <2>3. h[1..m] \in T /\ h[1..m] \in Inv[m]
    BY <1>1, <1>4, <2>2, LoopEnds
  <2> QED BY <2>2, <2>3
<1>9. \A j \in Elements(m) : j >= m - m
  BY <1>1 DEF Elements
<1> QED BY <1>1, <1>8, <1>9

----------------------------------------------------------------------------
(* What a line that is written leaves of the others.                       *)

(* Real and imaginary parts of different slots are different scalars.      *)
LEMMA Parts ==
  ASSUME NEW x \in Int, NEW y \in Int
  PROVE  /\ Re(x) = Re(y) => x = y
         /\ Im(x) = Im(y) => x = y
         /\ Re(x) # Im(y)
BY DEF Re, Im

(* Where the slots of a line are. *)
LEMMA SlotsInBuffer ==
  ASSUME NEW b, IsBuffer(b), NEW line \in Elements(Lines(b))
  PROVE  /\ line \in Nat
         /\ Elements(Complexes(b)) \subseteq Elements(b.n)
         /\ \A k \in Elements(Complexes(b)) :
              LET at == Slot(b, line, k, Complexes(b))
              IN  at \in Int /\ Re(at) \in Scalars(b) /\ Im(at) \in Scalars(b)
         /\ \A k \in Elements(b.n) :
              LET at == Slot(b, line, k, b.n)
              IN  /\ at \in Int /\ at \in Scalars(b)
                  /\ b.stride > 1 => Re(at) \in Scalars(b) /\ Im(at) \in Scalars(b)
<1>1. /\ Complexes(b) \in Nat \ {0} /\ Complexes(b) <= b.n /\ b.n \in Nat \ {0}
      /\ PromotedLen(b) \in Nat /\ Lines(b) \in Nat
      /\ Lines(b) * Complexes(b) \in Nat /\ Lines(b) * Complexes(b) <= PromotedLen(b)
      /\ Lines(b) * b.n \in Nat /\ Lines(b) * b.n <= 2 * PromotedLen(b)
      /\ b.stride > 1 => Lines(b) * b.n <= PromotedLen(b)
  BY Counts DEF Reals, IsBuffer
<1>2. line \in Nat /\ Elements(Complexes(b)) \subseteq Elements(b.n)
  BY <1>1 DEF Elements
<1>3. ASSUME NEW k \in Elements(Complexes(b))
      PROVE  LET at == Slot(b, line, k, Complexes(b))
             IN  at \in Int /\ Re(at) \in Scalars(b) /\ Im(at) \in Scalars(b)
  <2> DEFINE at == Slot(b, line, k, Complexes(b))
  <2>1. at \in 0..(Lines(b) * Complexes(b) - 1)
    BY <1>1, SlotIs
  <2> HIDE DEF at
  <2>2. at \in Int /\ Re(at) \in Scalars(b) /\ Im(at) \in Scalars(b)
    BY <1>1, <2>1 DEF Re, Im, Scalars
  <2> QED BY <2>2 DEF at
<1>4. ASSUME NEW k \in Elements(b.n)
      PROVE  LET at == Slot(b, line, k, b.n)
             IN  /\ at \in Int /\ at \in Scalars(b)
                 /\ b.stride > 1 => Re(at) \in Scalars(b) /\ Im(at) \in Scalars(b)
  <2> DEFINE at == Slot(b, line, k, b.n)
  <2>1. at \in 0..(Lines(b) * b.n - 1)
    BY <1>1, SlotIs
  <2> HIDE DEF at
  <2>2. at \in Int /\ at \in Scalars(b)
        /\ (b.stride > 1 => Re(at) \in Scalars(b) /\ Im(at) \in Scalars(b))
    BY <1>1, <2>1 DEF Re, Im, Scalars
  <2> QED BY <2>2 DEF at
<1> QED BY <1>2, <1>3, <1>4

(* Without a stride rows grow as they become spectra: a row ends before    *)
(* the spectra of later rows begin.                                        *)
LEMMA RowsApart ==
  ASSUME NEW b, IsBuffer(b), b.stride = 1,
         NEW line \in Elements(Lines(b)), NEW k \in Elements(b.n),
         NEW other \in Elements(Lines(b)), NEW l \in Elements(Complexes(b)),
         line < other
  PROVE  /\ Slot(b, line, k, b.n) # Re(Slot(b, other, l, Complexes(b)))
         /\ Slot(b, line, k, b.n) # Im(Slot(b, other, l, Complexes(b)))
<1> DEFINE n == b.n
           c == Complexes(b)
<1>1. n \in Nat /\ c \in Nat /\ n <= 2 * c /\ line \in Nat /\ other \in Nat
      /\ k \in Nat /\ k < n /\ l \in Nat
  BY Counts, SlotsInBuffer DEF IsBuffer, Elements
<1>2. \A x, y, len \in Nat : Slot(b, x, y, len) = x * len + y
  BY DEF Slot
<1>3. Slot(b, line, k, n) = line * n + k /\ Slot(b, other, l, c) = other * c + l
  BY <1>1, <1>2
<1> HIDE DEF n, c
<1>4. n * (line + 1) <= n * other
  BY <1>1, Monotone
<1>5. other * n <= other * (2 * c)
  BY <1>1, Monotone
<1>6. n * (line + 1) = line * n + n /\ n * other = other * n /\ other * (2 * c) = 2 * (other * c)
  BY <1>1
<1>7. line * n \in Nat /\ other * n \in Nat /\ other * c \in Nat
  BY <1>1
<1>8. line * n + k < 2 * (other * c + l)
  BY <1>1, <1>4, <1>5, <1>6, <1>7
<1> QED BY <1>1, <1>3, <1>7, <1>8 DEF Re, Im, n, c

(* A spectrum that is written leaves other spectra, and the lines that are *)
(* still to be transformed.                                                *)
LEMMA AfterSpectrum ==
  ASSUME NEW b, IsBuffer(b), NEW cell \in Buffer(b), NEW row \in Elements(Lines(b)), NEW reals,
         NEW line \in Elements(Lines(b)), line # row
  PROVE  LET after == WriteSpectral(b, cell, row, reals)
         IN  /\ SpectralAt(b, cell, line, Complexes(b)) => SpectralAt(b, after, line, Complexes(b))
             /\ row < line /\ b.stride > 1 /\ PromotedAt(b, cell, line) => PromotedAt(b, after, line)
             /\ line < row /\ b.stride = 1 /\ PackedAt(b, cell, line) => PackedAt(b, after, line)
<1> DEFINE c == Complexes(b)
           after == WriteSpectral(b, cell, row, reals)
           slot(k) == Slot(b, row, k, c)
<1>1. \A x \in Scalars(b) :
        (\A k \in Elements(c) : x # Re(slot(k)) /\ x # Im(slot(k))) => after[x] = cell[x]
  BY SpectrumWritten
<1>2. \A k \in Elements(c) : slot(k) \in Int
  BY SlotsInBuffer
<1>3. c \in Nat \ {0} /\ b.n \in Nat \ {0} /\ c <= b.n
  BY Counts DEF IsBuffer
<1> HIDE DEF slot, after
<1>4. ASSUME NEW k \in Elements(c)
      PROVE  LET at == Slot(b, line, k, c) IN after[Re(at)] = cell[Re(at)] /\ after[Im(at)] = cell[Im(at)]
  <2> DEFINE at == Slot(b, line, k, c)
  <2>1. \A l \in Elements(c) : at # slot(l)
    BY <1>3, OneSlot DEF slot
  <2>2. at \in Int /\ Re(at) \in Scalars(b) /\ Im(at) \in Scalars(b)
    BY SlotsInBuffer
  <2> HIDE DEF at, c
  <2>3. \A l \in Elements(c) : Re(at) # Re(slot(l)) /\ Re(at) # Im(slot(l))
                               /\ Im(at) # Re(slot(l)) /\ Im(at) # Im(slot(l))
    BY <1>2, <2>1, <2>2, Parts
  <2> QED BY <1>1, <2>2, <2>3 DEF at
<1>5. ASSUME row < line, b.stride > 1, NEW k \in Elements(b.n)
      PROVE  LET at == Slot(b, line, k, b.n) IN after[Re(at)] = cell[Re(at)]
  <2> DEFINE at == Slot(b, line, k, b.n)
  <2>1. \A l \in Elements(c) : at # slot(l)
    BY <1>3, <1>5, SlotsApart DEF slot
  <2>2. at \in Int /\ Re(at) \in Scalars(b)
    BY <1>5, SlotsInBuffer
  <2> HIDE DEF at, c
  <2>3. \A l \in Elements(c) : Re(at) # Re(slot(l)) /\ Re(at) # Im(slot(l))
    BY <1>2, <2>1, <2>2, Parts
  <2> QED BY <1>1, <2>2, <2>3 DEF at
<1>6. ASSUME line < row, b.stride = 1, NEW k \in Elements(b.n)
      PROVE  after[Slot(b, line, k, b.n)] = cell[Slot(b, line, k, b.n)]
  <2> DEFINE at == Slot(b, line, k, b.n)
  <2>1. \A l \in Elements(c) : at # Re(slot(l)) /\ at # Im(slot(l))
    BY <1>6, RowsApart DEF slot
  <2>2. at \in Scalars(b)
    BY SlotsInBuffer
  <2> HIDE DEF at, c
  <2> QED BY <1>1, <2>1, <2>2 DEF at
<1> QED BY <1>4, <1>5, <1>6 DEF SpectralAt, PromotedAt, PackedAt, after

(* So do the reals written in place of an expanded spectrum.               *)
LEMMA AfterPromoted ==
  ASSUME NEW b, IsBuffer(b), b.stride > 1, NEW cell \in Buffer(b), NEW row \in Elements(Lines(b)),
         NEW spectrum, NEW line \in Elements(Lines(b)), line # row
  PROVE  LET after == WriteReal(b, cell, row, spectrum, Re)
         IN  /\ SpectralAt(b, cell, line, b.n) => SpectralAt(b, after, line, b.n)
             /\ PromotedAt(b, cell, line) => PromotedAt(b, after, line)
<1> DEFINE n == b.n
           after == WriteReal(b, cell, row, spectrum, Re)
           slot(k) == Slot(b, row, k, n)
<1>1. \A x \in Scalars(b) : (\A k \in Elements(n) : x # Re(slot(k))) => after[x] = cell[x]
  BY PromotedWritten
<1>2. \A k \in Elements(n) : slot(k) \in Int
  BY SlotsInBuffer
<1>3. n \in Nat \ {0}
  BY DEF IsBuffer
<1> HIDE DEF slot, after
<1>4. ASSUME NEW k \in Elements(n)
      PROVE  LET at == Slot(b, line, k, n) IN after[Re(at)] = cell[Re(at)] /\ after[Im(at)] = cell[Im(at)]
  <2> DEFINE at == Slot(b, line, k, n)
  <2>1. \A l \in Elements(n) : at # slot(l)
    BY <1>3, OneSlot DEF slot
  <2>2. at \in Int /\ Re(at) \in Scalars(b) /\ Im(at) \in Scalars(b)
    BY SlotsInBuffer
  <2> HIDE DEF at, n
  <2>3. \A l \in Elements(n) : Re(at) # Re(slot(l)) /\ Im(at) # Re(slot(l))
    BY <1>2, <2>1, <2>2, Parts
  <2> QED BY <1>1, <2>2, <2>3 DEF at
<1>5. Elements(Complexes(b)) \subseteq Elements(n)
  BY SlotsInBuffer
<1> QED BY <1>4, <1>5 DEF SpectralAt, PromotedAt, after

(* And so do the reals of a row.                                           *)
LEMMA AfterPacked ==
  ASSUME NEW b, IsBuffer(b), b.stride = 1, NEW cell \in Buffer(b), NEW row \in Elements(Lines(b)),
         NEW spectrum, NEW line \in Elements(Lines(b)), line # row
  PROVE  LET after == WriteReal(b, cell, row, spectrum, LAMBDA x : x)
         IN  /\ row < line /\ SpectralAt(b, cell, line, Complexes(b))
                  => SpectralAt(b, after, line, Complexes(b))
             /\ PackedAt(b, cell, line) => PackedAt(b, after, line)
<1> DEFINE n == b.n
           c == Complexes(b)
           after == WriteReal(b, cell, row, spectrum, LAMBDA x : x)
           slot(k) == Slot(b, row, k, n)
<1>1. \A x \in Scalars(b) : (\A k \in Elements(n) : x # slot(k)) => after[x] = cell[x]
  BY PackedWritten
<1>2. n \in Nat \ {0}
  BY DEF IsBuffer
<1> HIDE DEF slot, after
<1>3. ASSUME NEW k \in Elements(n)
      PROVE  after[Slot(b, line, k, n)] = cell[Slot(b, line, k, n)]
  <2> DEFINE at == Slot(b, line, k, n)
  <2>1. \A l \in Elements(n) : at # slot(l)
    BY <1>2, OneSlot DEF slot
  <2>2. at \in Scalars(b)
    BY SlotsInBuffer
  <2> HIDE DEF at, n
  <2> QED BY <1>1, <2>1, <2>2 DEF at
<1>4. ASSUME row < line, NEW k \in Elements(c)
      PROVE  LET at == Slot(b, line, k, c) IN after[Re(at)] = cell[Re(at)] /\ after[Im(at)] = cell[Im(at)]
  <2> DEFINE at == Slot(b, line, k, c)
  <2>1. \A l \in Elements(n) : Re(at) # slot(l) /\ Im(at) # slot(l)
    BY <1>4, RowsApart DEF slot
  <2>2. Re(at) \in Scalars(b) /\ Im(at) \in Scalars(b)
    BY SlotsInBuffer
  <2> HIDE DEF at, n
  <2> QED BY <1>1, <2>1, <2>2 DEF at
<1> QED BY <1>3, <1>4 DEF SpectralAt, PackedAt, after

(* The spectra of all lines, from their promoted reals. *)
LEMMA StridedForwardKeeps ==
  ASSUME NEW b, IsBuffer(b), b.stride > 1, NEW cell \in Buffer(b),
         \A line \in Elements(Lines(b)) : PromotedAt(b, cell, line)
  PROVE  LET after == StridedForward(b, cell)
         IN  /\ after \in Buffer(b)
             /\ \A line \in Elements(Lines(b)) : SpectralAt(b, after, line, Complexes(b))
<1> DEFINE m == Lines(b)
           T == Buffer(b)
           seq == [i \in 1..m |-> i - 1]
           Turn(c, x) == WriteSpectral(b, c, x, PromotedLine(b, c, x))
           turn == [it \in (1..m) \X T |-> Turn(it[2], seq[it[1]])]
           Done(c, t) == \A line \in Elements(m) :
                            IF line < t THEN SpectralAt(b, c, line, Complexes(b)) ELSE PromotedAt(b, c, line)
           Inv == [t \in 0..m |-> {c \in T : Done(c, t)}]
           Fold(h) == h = [s \in SUBSET (1..m) |->
                             IF s = {} THEN cell
                             ELSE LET x == Max(s) IN Turn(h[s \ {x}], seq[x])]
<1>1. m \in Nat /\ \A i \in 1..m : seq[i] = i - 1 /\ seq[i] \in Elements(m)
  BY Counts DEF Elements
<1>2. ASSUME NEW c \in T, NEW i \in Elements(m) PROVE Turn(c, i) \in T
  BY SpectrumWritten
<1>3. turn \in [(1..m) \X T -> T] /\ \A i \in 1..m : \A c \in T : turn[<<i, c>>] = Turn(c, seq[i])
  <2> HIDE DEF seq, m, T, Turn
  <2> QED BY <1>1, <1>2
<1>4. KeptByTurns(Inv, m, T, cell, turn)
  <2>1. cell \in Inv[0]
    BY <1>1 DEF Elements
  <2>2. ASSUME NEW i \in 1..m, NEW c \in T, Done(c, i - 1)
        PROVE  Done(Turn(c, seq[i]), i)
    <3> DEFINE row == i - 1
               next == Turn(c, row)
    <3>1. row \in Elements(m) /\ seq[i] = row
      BY <1>1
    <3>2. ASSUME NEW line \in Elements(m)
          PROVE  IF line < i THEN SpectralAt(b, next, line, Complexes(b)) ELSE PromotedAt(b, next, line)
      <4>1. line \in Nat /\ line < m /\ row \in Nat /\ i \in Nat
        BY <1>1, <3>1 DEF Elements
      <4>2. CASE line = row
        <5>1. PromotedAt(b, c, line) /\ line < i
          <6>1. ~ (line < i - 1) /\ line < i
            BY <1>1, <4>1, <4>2
          <6> QED BY <2>2, <6>1
        <5>2. PromotedLine(b, c, row) = WholeReal(b, row)
          BY <4>2, <5>1, WholeLines
        <5>3. SpectralAt(b, next, line, Complexes(b))
          BY <3>1, <4>2, <5>2, SpectrumWritten
        <5> QED BY <5>1, <5>3
      <4>3. CASE line # row /\ line < i
        <5>1. SpectralAt(b, c, line, Complexes(b)) /\ line < row
          <6>1. line < i - 1 /\ line < row
            BY <1>1, <4>1, <4>3
          <6> QED BY <2>2, <6>1
        <5>2. SpectralAt(b, next, line, Complexes(b))
          BY <3>1, <4>3, <5>1, AfterSpectrum
        <5> QED BY <4>3, <5>2
      <4>4. CASE line # row /\ ~ (line < i)
        <5>1. PromotedAt(b, c, line) /\ row < line
          <6>1. ~ (line < i - 1) /\ row < line
            BY <1>1, <4>1, <4>4
          <6> QED BY <2>2, <6>1
        <5>2. PromotedAt(b, next, line)
          BY <3>1, <4>4, <5>1, AfterSpectrum
        <5> QED BY <4>4, <5>2
      <4> QED BY <4>2, <4>3, <4>4
    <3> QED BY <3>1, <3>2
  <2> HIDE DEF Done, m, T, seq, turn, Turn
  <2>3. ASSUME NEW i \in 1..m, NEW c \in T, c \in Inv[i - 1]
        PROVE  turn[<<i, c>>] \in Inv[i]
    <3>1. i - 1 \in 0..m /\ i \in 0..m
      BY <1>1
    <3>2. turn[<<i, c>>] \in T /\ turn[<<i, c>>] = Turn(c, seq[i])
      BY <1>3
    <3> QED BY <2>2, <2>3, <3>1, <3>2
  <2> HIDE DEF Inv
  <2> QED BY <1>3, <2>1, <2>3 DEF KeptByTurns, T
<1>5. StridedForward(b, cell) = (CHOOSE h : Fold(h))[1..m]
  <2>1. StridedForward(b, cell) = FoldLeft(LAMBDA c, line : WriteSpectral(b, c, line, PromotedLine(b, c, line)), cell, seq)
    <3>1. (IF 0 <= m - 1 THEN [i \in 1..((m - 1) - 0 + 1) |-> 0 + i - 1] ELSE <<>>) = seq
      BY <1>1, Indexes
    <3> HIDE DEF seq, m
    <3> QED BY <3>1, Zenon DEF StridedForward, Loop, m
  <2>2. DOMAIN seq = 1..m
    OBVIOUS
  <2> HIDE DEF seq, m
  <2> QED BY <2>1, <2>2 DEF FoldLeft, MapThenFoldSet
<1> HIDE DEF Turn
<1>6. ASSUME NEW h, Fold(h) PROVE Runs(h, m, T, cell, turn)
  <2> HIDE DEF seq, turn, m, T
  <2>1. h[{}] = cell /\ \A s \in SUBSET (1..m) : s # {} => h[s] = Turn(h[s \ {Max(s)}], seq[Max(s)])
    BY <1>6
  <2>2. \A s \in SUBSET (1..m) : s # {} => Max(s) \in 1..m
    BY <1>1, LastIndex
  <2> QED BY <1>3, <2>1, <2>2 DEF Runs
<1>7. \E h : Fold(h)
  <2> HIDE DEF seq, turn, m, T, Inv
  <2>1. PICK f \in [SUBSET (1..m) -> T] : Runs(f, m, T, cell, turn)
    BY <1>1, <1>4, LoopEnds
  <2>2. \A s \in SUBSET (1..m) : s # {} => Max(s) \in 1..m
    BY <1>1, LastIndex
  <2>3. f[{}] = cell /\ \A s \in SUBSET (1..m) : s # {} => f[s] = Turn(f[s \ {Max(s)}], seq[Max(s)])
    BY <1>3, <2>1, <2>2 DEF Runs
  <2> QED BY <2>1, <2>3
<1>8. StridedForward(b, cell) \in T /\ StridedForward(b, cell) \in Inv[m]
  <2> HIDE DEF Fold, Inv, m, T, turn
  <2>1. PICK h : Fold(h) /\ h = CHOOSE g : Fold(g)
    BY <1>7
  <2>2. StridedForward(b, cell) = h[1..m] /\ Runs(h, m, T, cell, turn)
    BY <1>5, <1>6, <2>1
  <2>3. h[1..m] \in T /\ h[1..m] \in Inv[m]
    BY <1>1, <1>4, <2>2, LoopEnds
  <2> QED BY <2>2, <2>3
<1>9. \A j \in Elements(m) : j < m
  BY <1>1 DEF Elements
<1> QED BY <1>1, <1>8, <1>9

(* The spectra of all rows, from the last to the first. *)
LEMMA ContiguousForwardKeeps ==
  ASSUME NEW b, IsBuffer(b), b.stride = 1, NEW cell \in Buffer(b),
         \A line \in Elements(Lines(b)) : PackedAt(b, cell, line)
  PROVE  LET after == ContiguousForward(b, cell)
         IN  /\ after \in Buffer(b)
             /\ \A line \in Elements(Lines(b)) : SpectralAt(b, after, line, Complexes(b))
<1> DEFINE m == Lines(b)
           T == Buffer(b)
           seq == [i \in 1..m |-> m - i]
           Turn(c, x) == WriteSpectral(b, c, x, PackedLine(b, c, x))
           turn == [it \in (1..m) \X T |-> Turn(it[2], seq[it[1]])]
           Done(c, t) == \A line \in Elements(m) :
                            IF line >= m - t THEN SpectralAt(b, c, line, Complexes(b)) ELSE PackedAt(b, c, line)
           Inv == [t \in 0..m |-> {c \in T : Done(c, t)}]
           Fold(h) == h = [s \in SUBSET (1..m) |->
                             IF s = {} THEN cell
                             ELSE LET x == Max(s) IN Turn(h[s \ {x}], seq[x])]
<1>1. m \in Nat /\ \A i \in 1..m : seq[i] = m - i /\ seq[i] \in Elements(m)
  BY Counts DEF Elements
<1>2. ASSUME NEW c \in T, NEW i \in Elements(m) PROVE Turn(c, i) \in T
  BY SpectrumWritten
<1>3. turn \in [(1..m) \X T -> T] /\ \A i \in 1..m : \A c \in T : turn[<<i, c>>] = Turn(c, seq[i])
  <2> HIDE DEF seq, m, T, Turn
  <2> QED BY <1>1, <1>2
<1>4. KeptByTurns(Inv, m, T, cell, turn)
  <2>1. cell \in Inv[0]
    BY <1>1 DEF Elements
  <2>2. ASSUME NEW i \in 1..m, NEW c \in T, Done(c, i - 1)
        PROVE  Done(Turn(c, seq[i]), i)
    <3> DEFINE row == m - i
               next == Turn(c, row)
    <3>1. row \in Elements(m) /\ seq[i] = row
      BY <1>1
    <3>2. ASSUME NEW line \in Elements(m)
          PROVE  IF line >= m - i THEN SpectralAt(b, next, line, Complexes(b)) ELSE PackedAt(b, next, line)
      <4>1. line \in Nat /\ line < m /\ row \in Nat /\ i \in Nat
        BY <1>1, <3>1 DEF Elements
      <4>2. CASE line = row
        <5>1. PackedAt(b, c, line) /\ line >= m - i
          <6>1. ~ (line >= m - (i - 1)) /\ line >= m - i
            BY <1>1, <4>1, <4>2
          <6> QED BY <2>2, <6>1
        <5>2. PackedLine(b, c, row) = WholeReal(b, row)
          BY <4>2, <5>1, WholeLines
        <5>3. SpectralAt(b, next, line, Complexes(b))
          BY <3>1, <4>2, <5>2, SpectrumWritten
        <5> QED BY <5>1, <5>3
      <4>3. CASE line # row /\ line >= m - i
        <5>1. SpectralAt(b, c, line, Complexes(b)) /\ row < line
          <6>1. line >= m - (i - 1) /\ row < line
            BY <1>1, <4>1, <4>3
          <6> QED BY <2>2, <6>1
        <5>2. SpectralAt(b, next, line, Complexes(b))
          BY <3>1, <4>3, <5>1, AfterSpectrum
        <5> QED BY <4>3, <5>2
      <4>4. CASE line # row /\ ~ (line >= m - i)
        <5>1. PackedAt(b, c, line) /\ line < row
          <6>1. ~ (line >= m - (i - 1)) /\ line < row
            BY <1>1, <4>1, <4>4
          <6> QED BY <2>2, <6>1
        <5>2. PackedAt(b, next, line)
          BY <3>1, <4>4, <5>1, AfterSpectrum
        <5> QED BY <4>4, <5>2
      <4> QED BY <4>2, <4>3, <4>4
    <3> QED BY <3>1, <3>2
  <2> HIDE DEF Done, m, T, seq, turn, Turn
  <2>3. ASSUME NEW i \in 1..m, NEW c \in T, c \in Inv[i - 1]
        PROVE  turn[<<i, c>>] \in Inv[i]
    <3>1. i - 1 \in 0..m /\ i \in 0..m
      BY <1>1
    <3>2. turn[<<i, c>>] \in T /\ turn[<<i, c>>] = Turn(c, seq[i])
      BY <1>3
    <3> QED BY <2>2, <2>3, <3>1, <3>2
  <2> HIDE DEF Inv
  <2> QED BY <1>3, <2>1, <2>3 DEF KeptByTurns, T
<1>5. ContiguousForward(b, cell) = (CHOOSE h : Fold(h))[1..m]
  <2>1. ContiguousForward(b, cell) = FoldLeft(LAMBDA c, row : WriteSpectral(b, c, row, PackedLine(b, c, row)), cell, seq)
    <3>1. (IF m - 1 >= 0 THEN [i \in 1..((m - 1) - 0 + 1) |-> (m - 1) - i + 1] ELSE <<>>) = seq
      BY <1>1, Indexes
    <3> HIDE DEF seq, m
    <3> QED BY <3>1, Zenon DEF ContiguousForward, LoopDown, m
  <2>2. DOMAIN seq = 1..m
    OBVIOUS
  <2> HIDE DEF seq, m
  <2> QED BY <2>1, <2>2 DEF FoldLeft, MapThenFoldSet
<1> HIDE DEF Turn
<1>6. ASSUME NEW h, Fold(h) PROVE Runs(h, m, T, cell, turn)
  <2> HIDE DEF seq, turn, m, T
  <2>1. h[{}] = cell /\ \A s \in SUBSET (1..m) : s # {} => h[s] = Turn(h[s \ {Max(s)}], seq[Max(s)])
    BY <1>6
  <2>2. \A s \in SUBSET (1..m) : s # {} => Max(s) \in 1..m
    BY <1>1, LastIndex
  <2> QED BY <1>3, <2>1, <2>2 DEF Runs
<1>7. \E h : Fold(h)
  <2> HIDE DEF seq, turn, m, T, Inv
  <2>1. PICK f \in [SUBSET (1..m) -> T] : Runs(f, m, T, cell, turn)
    BY <1>1, <1>4, LoopEnds
  <2>2. \A s \in SUBSET (1..m) : s # {} => Max(s) \in 1..m
    BY <1>1, LastIndex
  <2>3. f[{}] = cell /\ \A s \in SUBSET (1..m) : s # {} => f[s] = Turn(f[s \ {Max(s)}], seq[Max(s)])
    BY <1>3, <2>1, <2>2 DEF Runs
  <2> QED BY <2>1, <2>3
<1>8. ContiguousForward(b, cell) \in T /\ ContiguousForward(b, cell) \in Inv[m]
  <2> HIDE DEF Fold, Inv, m, T, turn
  <2>1. PICK h : Fold(h) /\ h = CHOOSE g : Fold(g)
    BY <1>7
  <2>2. ContiguousForward(b, cell) = h[1..m] /\ Runs(h, m, T, cell, turn)
    BY <1>5, <1>6, <2>1
  <2>3. h[1..m] \in T /\ h[1..m] \in Inv[m]
    BY <1>1, <1>4, <2>2, LoopEnds
  <2> QED BY <2>2, <2>3
<1>9. \A j \in Elements(m) : j >= m - m
  BY <1>1 DEF Elements
<1> QED BY <1>1, <1>8, <1>9

(* The promoted reals of all lines, from their expanded spectra. *)
LEMMA StridedReverseKeeps ==
  ASSUME NEW b, IsBuffer(b), b.stride > 1, NEW cell \in Buffer(b),
         \A line \in Elements(Lines(b)) : SpectralAt(b, cell, line, b.n)
  PROVE  LET after == StridedReverse(b, cell)
         IN  /\ after \in Buffer(b)
             /\ \A line \in Elements(Lines(b)) : PromotedAt(b, after, line)
<1> DEFINE m == Lines(b)
           T == Buffer(b)
           seq == [i \in 1..m |-> i - 1]
           Turn(c, x) == WriteReal(b, c, x, SpectralLine(b, c, x, b.n), Re)
           turn == [it \in (1..m) \X T |-> Turn(it[2], seq[it[1]])]
           Done(c, t) == \A line \in Elements(m) :
                            IF line < t THEN PromotedAt(b, c, line) ELSE SpectralAt(b, c, line, b.n)
           Inv == [t \in 0..m |-> {c \in T : Done(c, t)}]
           Fold(h) == h = [s \in SUBSET (1..m) |->
                             IF s = {} THEN cell
                             ELSE LET x == Max(s) IN Turn(h[s \ {x}], seq[x])]
<1>1. m \in Nat /\ \A i \in 1..m : seq[i] = i - 1 /\ seq[i] \in Elements(m)
  BY Counts DEF Elements
<1>2. ASSUME NEW c \in T, NEW i \in Elements(m) PROVE Turn(c, i) \in T
  BY PromotedWritten
<1>3. turn \in [(1..m) \X T -> T] /\ \A i \in 1..m : \A c \in T : turn[<<i, c>>] = Turn(c, seq[i])
  <2> HIDE DEF seq, m, T, Turn
  <2> QED BY <1>1, <1>2
<1>4. KeptByTurns(Inv, m, T, cell, turn)
  <2>1. cell \in Inv[0]
    BY <1>1 DEF Elements
  <2>2. ASSUME NEW i \in 1..m, NEW c \in T, Done(c, i - 1)
        PROVE  Done(Turn(c, seq[i]), i)
    <3> DEFINE row == i - 1
               next == Turn(c, row)
    <3>1. row \in Elements(m) /\ seq[i] = row
      BY <1>1
    <3>2. ASSUME NEW line \in Elements(m)
          PROVE  IF line < i THEN PromotedAt(b, next, line) ELSE SpectralAt(b, next, line, b.n)
      <4>1. line \in Nat /\ line < m /\ row \in Nat /\ i \in Nat
        BY <1>1, <3>1 DEF Elements
      <4>2. CASE line = row
        <5>1. SpectralAt(b, c, line, b.n) /\ line < i
          <6>1. ~ (line < i - 1) /\ line < i
            BY <1>1, <4>1, <4>2
          <6> QED BY <2>2, <6>1
        <5>2. SpectralLine(b, c, row, b.n) = WholeSpectral(b, row)
          BY <4>2, <5>1, WholeLines
        <5>3. PromotedAt(b, next, line)
          BY <3>1, <4>2, <5>2, PromotedWritten
        <5> QED BY <5>1, <5>3
      <4>3. CASE line # row /\ line < i
        <5>1. PromotedAt(b, c, line) /\ line < row
          <6>1. line < i - 1 /\ line < row
            BY <1>1, <4>1, <4>3
          <6> QED BY <2>2, <6>1
        <5>2. PromotedAt(b, next, line)
          BY <3>1, <4>3, <5>1, AfterPromoted
        <5> QED BY <4>3, <5>2
      <4>4. CASE line # row /\ ~ (line < i)
        <5>1. SpectralAt(b, c, line, b.n) /\ row < line
          <6>1. ~ (line < i - 1) /\ row < line
            BY <1>1, <4>1, <4>4
          <6> QED BY <2>2, <6>1
        <5>2. SpectralAt(b, next, line, b.n)
          BY <3>1, <4>4, <5>1, AfterPromoted
        <5> QED BY <4>4, <5>2
      <4> QED BY <4>2, <4>3, <4>4
    <3> QED BY <3>1, <3>2
  <2> HIDE DEF Done, m, T, seq, turn, Turn
  <2>3. ASSUME NEW i \in 1..m, NEW c \in T, c \in Inv[i - 1]
        PROVE  turn[<<i, c>>] \in Inv[i]
    <3>1. i - 1 \in 0..m /\ i \in 0..m
      BY <1>1
    <3>2. turn[<<i, c>>] \in T /\ turn[<<i, c>>] = Turn(c, seq[i])
      BY <1>3
    <3> QED BY <2>2, <2>3, <3>1, <3>2
  <2> HIDE DEF Inv
  <2> QED BY <1>3, <2>1, <2>3 DEF KeptByTurns, T
<1>5. StridedReverse(b, cell) = (CHOOSE h : Fold(h))[1..m]
  <2>1. StridedReverse(b, cell) = FoldLeft(LAMBDA c, line : WriteReal(b, c, line, SpectralLine(b, c, line, b.n), Re), cell, seq)
    <3>1. (IF 0 <= m - 1 THEN [i \in 1..((m - 1) - 0 + 1) |-> 0 + i - 1] ELSE <<>>) = seq
      BY <1>1, Indexes
    <3> HIDE DEF seq, m
    <3> QED BY <3>1, Zenon DEF StridedReverse, Loop, m
  <2>2. DOMAIN seq = 1..m
    OBVIOUS
  <2> HIDE DEF seq, m
  <2> QED BY <2>1, <2>2 DEF FoldLeft, MapThenFoldSet
<1> HIDE DEF Turn
<1>6. ASSUME NEW h, Fold(h) PROVE Runs(h, m, T, cell, turn)
  <2> HIDE DEF seq, turn, m, T
  <2>1. h[{}] = cell /\ \A s \in SUBSET (1..m) : s # {} => h[s] = Turn(h[s \ {Max(s)}], seq[Max(s)])
    BY <1>6
  <2>2. \A s \in SUBSET (1..m) : s # {} => Max(s) \in 1..m
    BY <1>1, LastIndex
  <2> QED BY <1>3, <2>1, <2>2 DEF Runs
<1>7. \E h : Fold(h)
  <2> HIDE DEF seq, turn, m, T, Inv
  <2>1. PICK f \in [SUBSET (1..m) -> T] : Runs(f, m, T, cell, turn)
    BY <1>1, <1>4, LoopEnds
  <2>2. \A s \in SUBSET (1..m) : s # {} => Max(s) \in 1..m
    BY <1>1, LastIndex
  <2>3. f[{}] = cell /\ \A s \in SUBSET (1..m) : s # {} => f[s] = Turn(f[s \ {Max(s)}], seq[Max(s)])
    BY <1>3, <2>1, <2>2 DEF Runs
  <2> QED BY <2>1, <2>3
<1>8. StridedReverse(b, cell) \in T /\ StridedReverse(b, cell) \in Inv[m]
  <2> HIDE DEF Fold, Inv, m, T, turn
  <2>1. PICK h : Fold(h) /\ h = CHOOSE g : Fold(g)
    BY <1>7
  <2>2. StridedReverse(b, cell) = h[1..m] /\ Runs(h, m, T, cell, turn)
    BY <1>5, <1>6, <2>1
  <2>3. h[1..m] \in T /\ h[1..m] \in Inv[m]
    BY <1>1, <1>4, <2>2, LoopEnds
  <2> QED BY <2>2, <2>3
<1>9. \A j \in Elements(m) : j < m
  BY <1>1 DEF Elements
<1> QED BY <1>1, <1>8, <1>9

(* The reals of all rows, from the first to the last. *)
LEMMA ContiguousReverseKeeps ==
  ASSUME NEW b, IsBuffer(b), b.stride = 1, NEW cell \in Buffer(b),
         \A line \in Elements(Lines(b)) : SpectralAt(b, cell, line, Complexes(b))
  PROVE  LET after == ContiguousReverse(b, cell)
         IN  /\ after \in Buffer(b)
             /\ \A line \in Elements(Lines(b)) : PackedAt(b, after, line)
<1> DEFINE m == Lines(b)
           T == Buffer(b)
           seq == [i \in 1..m |-> i - 1]
           Turn(c, x) == WriteReal(b, c, x, SpectralLine(b, c, x, Complexes(b)), LAMBDA y : y)
           turn == [it \in (1..m) \X T |-> Turn(it[2], seq[it[1]])]
           Done(c, t) == \A line \in Elements(m) :
                            IF line < t THEN PackedAt(b, c, line) ELSE SpectralAt(b, c, line, Complexes(b))
           Inv == [t \in 0..m |-> {c \in T : Done(c, t)}]
           Fold(h) == h = [s \in SUBSET (1..m) |->
                             IF s = {} THEN cell
                             ELSE LET x == Max(s) IN Turn(h[s \ {x}], seq[x])]
<1>1. m \in Nat /\ \A i \in 1..m : seq[i] = i - 1 /\ seq[i] \in Elements(m)
  BY Counts DEF Elements
<1>2. ASSUME NEW c \in T, NEW i \in Elements(m) PROVE Turn(c, i) \in T
  BY PackedWritten
<1>3. turn \in [(1..m) \X T -> T] /\ \A i \in 1..m : \A c \in T : turn[<<i, c>>] = Turn(c, seq[i])
  <2> HIDE DEF seq, m, T, Turn
  <2> QED BY <1>1, <1>2
<1>4. KeptByTurns(Inv, m, T, cell, turn)
  <2>1. cell \in Inv[0]
    BY <1>1 DEF Elements
  <2>2. ASSUME NEW i \in 1..m, NEW c \in T, Done(c, i - 1)
        PROVE  Done(Turn(c, seq[i]), i)
    <3> DEFINE row == i - 1
               next == Turn(c, row)
    <3>1. row \in Elements(m) /\ seq[i] = row
      BY <1>1
    <3>2. ASSUME NEW line \in Elements(m)
          PROVE  IF line < i THEN PackedAt(b, next, line) ELSE SpectralAt(b, next, line, Complexes(b))
      <4>1. line \in Nat /\ line < m /\ row \in Nat /\ i \in Nat
        BY <1>1, <3>1 DEF Elements
      <4>2. CASE line = row
        <5>1. SpectralAt(b, c, line, Complexes(b)) /\ line < i
          <6>1. ~ (line < i - 1) /\ line < i
            BY <1>1, <4>1, <4>2
          <6> QED BY <2>2, <6>1
        <5>2. SpectralLine(b, c, row, Complexes(b)) = WholeSpectral(b, row)
          BY <4>2, <5>1, WholeLines
        <5>3. PackedAt(b, next, line)
          BY <3>1, <4>2, <5>2, PackedWritten
        <5> QED BY <5>1, <5>3
      <4>3. CASE line # row /\ line < i
        <5>1. PackedAt(b, c, line) /\ line < row
          <6>1. line < i - 1 /\ line < row
            BY <1>1, <4>1, <4>3
          <6> QED BY <2>2, <6>1
        <5>2. PackedAt(b, next, line)
          BY <3>1, <4>3, <5>1, AfterPacked
        <5> QED BY <4>3, <5>2
      <4>4. CASE line # row /\ ~ (line < i)
        <5>1. SpectralAt(b, c, line, Complexes(b)) /\ row < line
          <6>1. ~ (line < i - 1) /\ row < line
            BY <1>1, <4>1, <4>4
          <6> QED BY <2>2, <6>1
        <5>2. SpectralAt(b, next, line, Complexes(b))
          BY <3>1, <4>4, <5>1, AfterPacked
        <5> QED BY <4>4, <5>2
      <4> QED BY <4>2, <4>3, <4>4
    <3> QED BY <3>1, <3>2
  <2> HIDE DEF Done, m, T, seq, turn, Turn
  <2>3. ASSUME NEW i \in 1..m, NEW c \in T, c \in Inv[i - 1]
        PROVE  turn[<<i, c>>] \in Inv[i]
    <3>1. i - 1 \in 0..m /\ i \in 0..m
      BY <1>1
    <3>2. turn[<<i, c>>] \in T /\ turn[<<i, c>>] = Turn(c, seq[i])
      BY <1>3
    <3> QED BY <2>2, <2>3, <3>1, <3>2
  <2> HIDE DEF Inv
  <2> QED BY <1>3, <2>1, <2>3 DEF KeptByTurns, T
<1>5. ContiguousReverse(b, cell) = (CHOOSE h : Fold(h))[1..m]
  <2>1. ContiguousReverse(b, cell) = FoldLeft(LAMBDA c, row : WriteReal(b, c, row, SpectralLine(b, c, row, Complexes(b)), LAMBDA y : y), cell, seq)
    <3>1. (IF 0 <= m - 1 THEN [i \in 1..((m - 1) - 0 + 1) |-> 0 + i - 1] ELSE <<>>) = seq
      BY <1>1, Indexes
    <3> HIDE DEF seq, m
    <3> QED BY <3>1, Zenon DEF ContiguousReverse, Loop, m
  <2>2. DOMAIN seq = 1..m
    OBVIOUS
  <2> HIDE DEF seq, m
  <2> QED BY <2>1, <2>2 DEF FoldLeft, MapThenFoldSet
<1> HIDE DEF Turn
<1>6. ASSUME NEW h, Fold(h) PROVE Runs(h, m, T, cell, turn)
  <2> HIDE DEF seq, turn, m, T
  <2>1. h[{}] = cell /\ \A s \in SUBSET (1..m) : s # {} => h[s] = Turn(h[s \ {Max(s)}], seq[Max(s)])
    BY <1>6
  <2>2. \A s \in SUBSET (1..m) : s # {} => Max(s) \in 1..m
    BY <1>1, LastIndex
  <2> QED BY <1>3, <2>1, <2>2 DEF Runs
<1>7. \E h : Fold(h)
  <2> HIDE DEF seq, turn, m, T, Inv
  <2>1. PICK f \in [SUBSET (1..m) -> T] : Runs(f, m, T, cell, turn)
    BY <1>1, <1>4, LoopEnds
  <2>2. \A s \in SUBSET (1..m) : s # {} => Max(s) \in 1..m
    BY <1>1, LastIndex
  <2>3. f[{}] = cell /\ \A s \in SUBSET (1..m) : s # {} => f[s] = Turn(f[s \ {Max(s)}], seq[Max(s)])
    BY <1>3, <2>1, <2>2 DEF Runs
  <2> QED BY <2>1, <2>3
<1>8. ContiguousReverse(b, cell) \in T /\ ContiguousReverse(b, cell) \in Inv[m]
  <2> HIDE DEF Fold, Inv, m, T, turn
  <2>1. PICK h : Fold(h) /\ h = CHOOSE g : Fold(g)
    BY <1>7
  <2>2. ContiguousReverse(b, cell) = h[1..m] /\ Runs(h, m, T, cell, turn)
    BY <1>5, <1>6, <2>1
  <2>3. h[1..m] \in T /\ h[1..m] \in Inv[m]
    BY <1>1, <1>4, <2>2, LoopEnds
  <2> QED BY <2>2, <2>3
<1>9. \A j \in Elements(m) : j < m
  BY <1>1 DEF Elements
<1> QED BY <1>1, <1>8, <1>9

(* The real parts of a buffer, moved to the front. *)
LEMMA ProjectKeeps ==
  ASSUME NEW b, IsBuffer(b), b.stride > 1, NEW cell \in Buffer(b)
  PROVE  LET after == Project(b, cell)
         IN  /\ after \in Buffer(b)
             /\ \A j \in Elements(Reals(b)) : after[j] = cell[Re(j)]
<1> DEFINE m == Reals(b)
           T == Buffer(b)
           seq == [i \in 1..m |-> i - 1]
           Turn(c, x) == Write(c, [y \in {x} |-> c[Re(x)]])
           turn == [it \in (1..m) \X T |-> Turn(it[2], seq[it[1]])]
           Done(c, t) == \A j \in Elements(m) : c[IF j < t THEN j ELSE Re(j)] = cell[Re(j)]
           Inv == [t \in 0..m |-> {c \in T : Done(c, t)}]
           Fold(h) == h = [s \in SUBSET (1..m) |->
                             IF s = {} THEN cell
                             ELSE LET x == Max(s) IN Turn(h[s \ {x}], seq[x])]
<1>0. ASSUME NEW c \in T, NEW i \in Elements(m)
      PROVE  /\ Turn(c, i) \in T /\ Turn(c, i)[i] = c[Re(i)]
             /\ \A x \in Scalars(b) : x # i => Turn(c, i)[x] = c[x]
             /\ i \in Scalars(b) /\ Re(i) \in Scalars(b)
  <2>1. i \in Scalars(b) /\ Re(i) \in Scalars(b)
    BY Counts DEF Re, Scalars, Elements
  <2> DEFINE f == [y \in {i} |-> c[Re(i)]]
  <2>2. DOMAIN f = {i} /\ f[i] = c[Re(i)] /\ f[i] \in Content
    BY <2>1 DEF Buffer
  <2> HIDE DEF f
  <2>3. /\ Write(c, f) \in Buffer(b)
        /\ \A x \in Scalars(b) : Write(c, f)[x] = IF x \in DOMAIN f THEN f[x] ELSE c[x]
    BY <2>1, <2>2, Written
  <2>4. Turn(c, i) = Write(c, f)
    BY DEF f
  <2> QED BY <2>1, <2>2, <2>3, <2>4
<1>1. m \in Nat /\ \A i \in 1..m : seq[i] = i - 1 /\ seq[i] \in Elements(m)
  BY Counts DEF Elements
<1>2. ASSUME NEW c \in T, NEW i \in Elements(m) PROVE Turn(c, i) \in T
  BY <1>0
<1>3. turn \in [(1..m) \X T -> T] /\ \A i \in 1..m : \A c \in T : turn[<<i, c>>] = Turn(c, seq[i])
  <2> HIDE DEF seq, m, T, Turn
  <2> QED BY <1>1, <1>2
<1>4. KeptByTurns(Inv, m, T, cell, turn)
  <2>1. cell \in Inv[0]
    BY <1>1 DEF Elements
  <2>2. ASSUME NEW i \in 1..m, NEW c \in T, Done(c, i - 1)
        PROVE  Done(Turn(c, seq[i]), i)
    <3> DEFINE k == i - 1
               next == Turn(c, k)
    <3>1. k \in Elements(m) /\ seq[i] = k
      BY <1>1
    <3>2. /\ next[k] = c[Re(k)]
          /\ \A x \in Scalars(b) : x # k => next[x] = c[x]
          /\ \A j \in Elements(m) : j \in Scalars(b) /\ Re(j) \in Scalars(b)
      BY <1>0, <3>1
    <3> HIDE DEF next
    <3>3. ASSUME NEW j \in Elements(m) PROVE next[IF j < i THEN j ELSE Re(j)] = cell[Re(j)]
      <4>1. j \in Nat /\ j < m /\ k \in Nat /\ i \in Nat
        BY <1>1, <3>1 DEF Elements
      <4>2. CASE j = k
        <5>1. ~ (j < i - 1) /\ j < i
          BY <4>1, <4>2
        <5>2. c[Re(k)] = cell[Re(k)]
          BY <2>2, <4>2, <5>1
        <5> QED BY <3>2, <4>2, <5>1, <5>2
      <4>3. CASE j < k
        <5>1. j < i - 1 /\ j < i /\ j # k
          BY <4>1, <4>3
        <5>2. c[j] = cell[Re(j)]
          BY <2>2, <5>1
        <5> QED BY <3>2, <5>1, <5>2
      <4>4. CASE j > k
        <5>1. ~ (j < i - 1) /\ ~ (j < i) /\ Re(j) # k
          BY <4>1, <4>4 DEF Re
        <5>2. c[Re(j)] = cell[Re(j)]
          BY <2>2, <5>1
        <5> QED BY <3>2, <5>1, <5>2
      <4> QED BY <4>1, <4>2, <4>3, <4>4
    <3> QED BY <3>1, <3>3 DEF next
  <2> HIDE DEF Done, m, T, seq, turn, Turn
  <2>3. ASSUME NEW i \in 1..m, NEW c \in T, c \in Inv[i - 1]
        PROVE  turn[<<i, c>>] \in Inv[i]
    <3>1. i - 1 \in 0..m /\ i \in 0..m
      BY <1>1
    <3>2. turn[<<i, c>>] \in T /\ turn[<<i, c>>] = Turn(c, seq[i])
      BY <1>3
    <3> QED BY <2>2, <2>3, <3>1, <3>2
  <2> HIDE DEF Inv
  <2> QED BY <1>3, <2>1, <2>3 DEF KeptByTurns, T
<1>5. Project(b, cell) = (CHOOSE h : Fold(h))[1..m]
  <2>1. Project(b, cell) = FoldLeft(LAMBDA c, i : Write(c, [x \in {i} |-> c[Re(i)]]), cell, seq)
    <3>1. (IF 0 <= m - 1 THEN [i \in 1..((m - 1) - 0 + 1) |-> 0 + i - 1] ELSE <<>>) = seq
      BY <1>1, Indexes
    <3> HIDE DEF seq, m
    <3> QED BY <3>1, Zenon DEF Project, Loop, m
  <2>2. DOMAIN seq = 1..m
    OBVIOUS
  <2> HIDE DEF seq, m
  <2> QED BY <2>1, <2>2 DEF FoldLeft, MapThenFoldSet
<1> HIDE DEF Turn
<1>6. ASSUME NEW h, Fold(h) PROVE Runs(h, m, T, cell, turn)
  <2> HIDE DEF seq, turn, m, T
  <2>1. h[{}] = cell /\ \A s \in SUBSET (1..m) : s # {} => h[s] = Turn(h[s \ {Max(s)}], seq[Max(s)])
    BY <1>6
  <2>2. \A s \in SUBSET (1..m) : s # {} => Max(s) \in 1..m
    BY <1>1, LastIndex
  <2> QED BY <1>3, <2>1, <2>2 DEF Runs
<1>7. \E h : Fold(h)
  <2> HIDE DEF seq, turn, m, T, Inv
  <2>1. PICK f \in [SUBSET (1..m) -> T] : Runs(f, m, T, cell, turn)
    BY <1>1, <1>4, LoopEnds
  <2>2. \A s \in SUBSET (1..m) : s # {} => Max(s) \in 1..m
    BY <1>1, LastIndex
  <2>3. f[{}] = cell /\ \A s \in SUBSET (1..m) : s # {} => f[s] = Turn(f[s \ {Max(s)}], seq[Max(s)])
    BY <1>3, <2>1, <2>2 DEF Runs
  <2> QED BY <2>1, <2>3
<1>8. Project(b, cell) \in T /\ Project(b, cell) \in Inv[m]
  <2> HIDE DEF Fold, Inv, m, T, turn
  <2>1. PICK h : Fold(h) /\ h = CHOOSE g : Fold(g)
    BY <1>7
  <2>2. Project(b, cell) = h[1..m] /\ Runs(h, m, T, cell, turn)
    BY <1>5, <1>6, <2>1
  <2>3. h[1..m] \in T /\ h[1..m] \in Inv[m]
    BY <1>1, <1>4, <2>2, LoopEnds
  <2> QED BY <2>2, <2>3
<1>9. \A j \in Elements(m) : j < m
  BY <1>1 DEF Elements
<1> QED BY <1>1, <1>8, <1>9

(* The blocks of spectra, moved to where the lines of reals are. *)
LEMMA ExpandKeeps ==
  ASSUME NEW b, IsBuffer(b), b.stride > 1, NEW cell \in Buffer(b)
  PROVE  LET after == Expand(b, cell)
         IN  /\ after \in Buffer(b)
             /\ \A o \in Elements(b.groups) : \A y \in Elements(2 * (Complexes(b) * b.stride)) :
                  after[2 * (o * (b.n * b.stride)) + y] = cell[2 * (o * (Complexes(b) * b.stride)) + y]
<1> DEFINE m == b.groups
           size == Complexes(b) * b.stride
           room == b.n * b.stride
           T == Buffer(b)
           seq == [i \in 1..m |-> m - i]
           Turn(c, x) == MoveBlock(b, c, x)
           turn == [it \in (1..m) \X T |-> Turn(it[2], seq[it[1]])]
           Done(c, t) == \A o \in Elements(m) : \A y \in Elements(2 * size) :
                            c[2 * (IF o >= m - t THEN o * room ELSE o * size) + y] = cell[2 * (o * size) + y]
           Inv == [t \in 0..m |-> {c \in T : Done(c, t)}]
           Fold(h) == h = [s \in SUBSET (1..m) |->
                             IF s = {} THEN cell
                             ELSE LET x == Max(s) IN Turn(h[s \ {x}], seq[x])]
<1>0. m \in Nat /\ size \in Nat \ {0} /\ room \in Nat \ {0} /\ size <= room /\ m * room \in Nat
      /\ m * room <= PromotedLen(b) /\ PromotedLen(b) \in Nat
  <2>1. Complexes(b) \in Nat \ {0} /\ b.n \in Nat \ {0} /\ b.stride \in Nat \ {0} /\ m \in Nat
        /\ Complexes(b) <= b.n
    BY Counts DEF IsBuffer
  <2>2. b.stride * Complexes(b) <= b.stride * b.n
    BY <2>1, Monotone
  <2>3. size \in Nat \ {0} /\ room \in Nat \ {0} /\ size <= room
    BY <2>1, <2>2
  <2>4. Reals(b) = m * room
    BY <2>1 DEF Reals, Lines
  <2> QED BY <2>1, <2>3, <2>4, Counts
<1> HIDE DEF size, room
<1>12. \A o, p \in Nat : o < p => o * room + room <= p * room /\ o * size + size <= p * size
  <2> TAKE o, p \in Nat
  <2> SUFFICES ASSUME o < p PROVE o * room + room <= p * room /\ o * size + size <= p * size
    OBVIOUS
  <2>1. room * (o + 1) <= room * p /\ size * (o + 1) <= size * p
    BY <1>0, Monotone
  <2>2. /\ room * (o + 1) = o * room + room /\ room * p = p * room
        /\ size * (o + 1) = o * size + size /\ size * p = p * size
    BY <1>0
  <2> QED BY <2>1, <2>2
<1>11. \A o \in Elements(m) :
         /\ o * room \in Nat /\ o * size \in Nat /\ o * size <= o * room
         /\ \A y \in Elements(2 * size) :
              2 * (o * room) + y \in Scalars(b) /\ 2 * (o * size) + y \in Scalars(b)
  <2> TAKE o \in Elements(m)
  <2>1. o \in Nat /\ o < m
    BY <1>0 DEF Elements
  <2>2. o * room \in Nat /\ o * size \in Nat
    BY <1>0, <2>1
  <2>3. o * size <= o * room
    BY <1>0, <2>1, Monotone
  <2>4. o * room + room <= m * room
    BY <1>0, <1>12, <2>1
  <2>5. ASSUME NEW y \in Elements(2 * size)
        PROVE  2 * (o * room) + y \in Scalars(b) /\ 2 * (o * size) + y \in Scalars(b)
    <3>1. y \in Nat /\ y < 2 * size
      BY <1>0 DEF Elements
    <3> QED BY <1>0, <2>2, <2>3, <2>4, <3>1 DEF Scalars
  <2> QED BY <2>2, <2>3, <2>5
<1>10. ASSUME NEW c \in T, NEW o \in Elements(m)
      PROVE  /\ Turn(c, o) \in T
             /\ \A y \in Elements(2 * size) : Turn(c, o)[2 * (o * room) + y] = c[2 * (o * size) + y]
             /\ \A x \in Scalars(b) :
                  x < 2 * (o * room) \/ x >= 2 * (o * room) + 2 * size => Turn(c, o)[x] = c[x]
  <2> DEFINE from == 2 * (o * size)
             to == 2 * (o * room)
             D == to..(to + 2 * size - 1)
             f == [x \in D |-> c[(x - to) + from]]
  <2>1. o \in Nat /\ o * room \in Nat /\ o * size \in Nat
    BY <1>0, <1>11 DEF Elements
  <2>2. \A y \in Elements(2 * size) : to + y \in Scalars(b) /\ from + y \in Scalars(b)
    BY <1>11
  <2>3. from \in Nat /\ to \in Nat
    BY <2>1
  <2>4. Turn(c, o) = Write(c, f)
    <3>1. Re(o * Complexes(b) * b.stride) = from /\ Re(o * b.n * b.stride) = to
          /\ Re(Complexes(b) * b.stride) = 2 * size
      <4>1. Complexes(b) \in Nat /\ b.n \in Nat /\ b.stride \in Nat
        BY Counts DEF IsBuffer
      <4>2. o * Complexes(b) * b.stride = o * size /\ o * b.n * b.stride = o * room
        BY <2>1, <4>1 DEF size, room
      <4> QED BY <4>2 DEF Re, size
    <3> HIDE DEF from, to
    <3> QED BY <3>1 DEF MoveBlock
  <2> HIDE DEF from, to, Turn
  <2>5. \A x \in D : x - to \in Elements(2 * size) /\ x = to + (x - to) /\ (x - to) + from = from + (x - to)
    BY <1>0, <2>3 DEF Elements
  <2>6. D \subseteq Scalars(b) /\ \A x \in D : (x - to) + from \in Scalars(b)
    <3> HIDE DEF D
    <3> QED BY <2>2, <2>5
  <2>7. DOMAIN f = D /\ \A x \in D : f[x] = c[(x - to) + from]
    OBVIOUS
  <2>8. \A x \in D : f[x] \in Content
    <3> HIDE DEF D, f
    <3> QED BY <2>6, <2>7 DEF Buffer
  <2>9. /\ Turn(c, o) \in Buffer(b)
        /\ \A x \in Scalars(b) : Turn(c, o)[x] = IF x \in D THEN f[x] ELSE c[x]
    <3> HIDE DEF f, D
    <3> QED BY <2>4, <2>6, <2>7, <2>8, Written
  <2>10. ASSUME NEW y \in Elements(2 * size) PROVE Turn(c, o)[to + y] = c[from + y]
    <3>1. to + y \in D /\ ((to + y) - to) + from = from + y
      BY <1>0, <2>3 DEF Elements
    <3> HIDE DEF f, D
    <3> QED BY <2>2, <2>7, <2>9, <3>1
  <2>11. ASSUME NEW x \in Scalars(b), x < to \/ x >= to + 2 * size PROVE Turn(c, o)[x] = c[x]
    <3>1. x \notin D
      BY <1>0, <2>3, <2>11 DEF Scalars
    <3> HIDE DEF f, D
    <3> QED BY <2>9, <3>1
  <2> QED BY <2>9, <2>10, <2>11 DEF from, to
<1>1. m \in Nat /\ \A i \in 1..m : seq[i] = m - i /\ seq[i] \in Elements(m)
  BY <1>0 DEF Elements
<1>2. ASSUME NEW c \in T, NEW i \in Elements(m) PROVE Turn(c, i) \in T
  BY <1>10
<1>3. turn \in [(1..m) \X T -> T] /\ \A i \in 1..m : \A c \in T : turn[<<i, c>>] = Turn(c, seq[i])
  <2> HIDE DEF seq, m, T, Turn
  <2> QED BY <1>1, <1>2
<1>4. KeptByTurns(Inv, m, T, cell, turn)
  <2>1. cell \in Inv[0]
    BY <1>1 DEF Elements
  <2>2. ASSUME NEW i \in 1..m, NEW c \in T, Done(c, i - 1)
        PROVE  Done(Turn(c, seq[i]), i)
    <3> DEFINE k == m - i
               next == Turn(c, k)
    <3>1. k \in Elements(m) /\ seq[i] = k /\ k \in Nat
      BY <1>1 DEF Elements
    <3>2. /\ \A y \in Elements(2 * size) : next[2 * (k * room) + y] = c[2 * (k * size) + y]
          /\ \A x \in Scalars(b) :
               x < 2 * (k * room) \/ x >= 2 * (k * room) + 2 * size => next[x] = c[x]
      BY <1>10, <3>1
    <3> HIDE DEF next, Turn
    <3>3. ASSUME NEW o \in Elements(m), NEW y \in Elements(2 * size)
          PROVE  next[2 * (IF o >= m - i THEN o * room ELSE o * size) + y] = cell[2 * (o * size) + y]
      <4>1. o \in Nat /\ o < m /\ y \in Nat /\ y < 2 * size
        BY <1>0 DEF Elements
      <4>2. /\ o * room \in Nat /\ o * size \in Nat /\ o * size <= o * room
            /\ 2 * (o * room) + y \in Scalars(b) /\ 2 * (o * size) + y \in Scalars(b)
        BY <1>11
      <4>3. k * room \in Nat /\ k * size \in Nat /\ k * size <= k * room
        BY <1>11, <3>1
      <4>4. CASE o = k
        <5>1. o >= m - i /\ ~ (o >= m - (i - 1))
          BY <1>1, <4>1, <4>4
        <5>2. c[2 * (o * size) + y] = cell[2 * (o * size) + y]
          BY <2>2, <5>1
        <5> QED BY <3>2, <4>4, <5>1, <5>2
      <4>5. CASE o > k
        <5>1. o >= m - i /\ o >= m - (i - 1)
          BY <1>1, <4>1, <4>5
        <5>2. c[2 * (o * room) + y] = cell[2 * (o * size) + y]
          BY <2>2, <5>1
        <5>3. k * room + room <= o * room
          BY <1>12, <3>1, <4>1, <4>5
        <5>4. 2 * (o * room) + y >= 2 * (k * room) + 2 * size
          BY <1>0, <4>1, <4>2, <4>3, <5>3
        <5> QED BY <3>2, <4>2, <5>1, <5>2, <5>4
      <4>6. CASE o < k
        <5>1. ~ (o >= m - i) /\ ~ (o >= m - (i - 1))
          BY <1>1, <4>1, <4>6
        <5>2. c[2 * (o * size) + y] = cell[2 * (o * size) + y]
          BY <2>2, <5>1
        <5>3. o * size + size <= k * size
          BY <1>12, <3>1, <4>1, <4>6
        <5>4. 2 * (o * size) + y < 2 * (k * room)
          BY <1>0, <4>1, <4>2, <4>3, <5>3
        <5> QED BY <3>2, <4>2, <5>1, <5>2, <5>4
      <4> QED BY <3>1, <4>1, <4>4, <4>5, <4>6
    <3> QED BY <3>1, <3>3 DEF next
  <2> HIDE DEF Done, m, T, seq, turn, Turn
  <2>3. ASSUME NEW i \in 1..m, NEW c \in T, c \in Inv[i - 1]
        PROVE  turn[<<i, c>>] \in Inv[i]
    <3>1. i - 1 \in 0..m /\ i \in 0..m
      BY <1>1
    <3>2. turn[<<i, c>>] \in T /\ turn[<<i, c>>] = Turn(c, seq[i])
      BY <1>3
    <3> QED BY <2>2, <2>3, <3>1, <3>2
  <2> HIDE DEF Inv
  <2> QED BY <1>3, <2>1, <2>3 DEF KeptByTurns, T
<1>5. Expand(b, cell) = (CHOOSE h : Fold(h))[1..m]
  <2>1. Expand(b, cell) = FoldLeft(LAMBDA c, outer : MoveBlock(b, c, outer), cell, seq)
    <3>1. (IF m - 1 >= 0 THEN [i \in 1..((m - 1) - 0 + 1) |-> (m - 1) - i + 1] ELSE <<>>) = seq
      BY <1>1, Indexes
    <3> HIDE DEF seq, m
    <3> QED BY <3>1, Zenon DEF Expand, LoopDown, m
  <2>2. DOMAIN seq = 1..m
    OBVIOUS
  <2> HIDE DEF seq, m
  <2> QED BY <2>1, <2>2 DEF FoldLeft, MapThenFoldSet
<1> HIDE DEF Turn
<1>6. ASSUME NEW h, Fold(h) PROVE Runs(h, m, T, cell, turn)
  <2> HIDE DEF seq, turn, m, T
  <2>1. h[{}] = cell /\ \A s \in SUBSET (1..m) : s # {} => h[s] = Turn(h[s \ {Max(s)}], seq[Max(s)])
    BY <1>6
  <2>2. \A s \in SUBSET (1..m) : s # {} => Max(s) \in 1..m
    BY <1>1, LastIndex
  <2> QED BY <1>3, <2>1, <2>2 DEF Runs
<1>7. \E h : Fold(h)
  <2> HIDE DEF seq, turn, m, T, Inv
  <2>1. PICK f \in [SUBSET (1..m) -> T] : Runs(f, m, T, cell, turn)
    BY <1>1, <1>4, LoopEnds
  <2>2. \A s \in SUBSET (1..m) : s # {} => Max(s) \in 1..m
    BY <1>1, LastIndex
  <2>3. f[{}] = cell /\ \A s \in SUBSET (1..m) : s # {} => f[s] = Turn(f[s \ {Max(s)}], seq[Max(s)])
    BY <1>3, <2>1, <2>2 DEF Runs
  <2> QED BY <2>1, <2>3
<1>8. Expand(b, cell) \in T /\ Expand(b, cell) \in Inv[m]
  <2> HIDE DEF Fold, Inv, m, T, turn
  <2>1. PICK h : Fold(h) /\ h = CHOOSE g : Fold(g)
    BY <1>7
  <2>2. Expand(b, cell) = h[1..m] /\ Runs(h, m, T, cell, turn)
    BY <1>5, <1>6, <2>1
  <2>3. h[1..m] \in T /\ h[1..m] \in Inv[m]
    BY <1>1, <1>4, <2>2, LoopEnds
  <2> QED BY <2>2, <2>3
<1>9. \A j \in Elements(m) : j >= m - m
  BY <1>1 DEF Elements
<1> QED BY <1>1, <1>8, <1>9 DEF size, room

----------------------------------------------------------------------------
(* The conversions.                                                        *)

(* Within one allocation every line becomes its spectrum: for any length,  *)
(* number of lines and stride, no element is overwritten before its line   *)
(* was read, and no spectrum after it was written.                         *)
THEOREM SpectraStayWhole ==
  ASSUME NEW b, IsBuffer(b), NEW cell \in Buffer(b),
         \A line \in Elements(Lines(b)) : PackedAt(b, cell, line)
  PROVE  LET after == ConvertRealToComplex(b, cell)
         IN  /\ after \in Buffer(b)
             /\ \A line \in Elements(Lines(b)) : SpectralAt(b, after, line, Complexes(b))
<1>1. CASE b.stride > 1
  <2> DEFINE promoted == Promote(b, cell)
  <2>1. promoted \in Buffer(b) /\ \A j \in Elements(Reals(b)) : promoted[Re(j)] = cell[j]
    BY <1>1, PromoteKeeps
  <2> HIDE DEF promoted
  <2>2. ASSUME NEW line \in Elements(Lines(b)) PROVE PromotedAt(b, promoted, line)
    <3>1. ASSUME NEW k \in Elements(b.n) PROVE promoted[Re(Slot(b, line, k, b.n))] = Real(line, k)
      <4> DEFINE at == Slot(b, line, k, b.n)
      <4>1. at \in Elements(Reals(b))
        <5>1. b.n \in Nat \ {0} /\ at \in 0..(Lines(b) * b.n - 1)
          BY SlotIs DEF IsBuffer
        <5> QED BY <5>1 DEF Elements, Reals
      <4>2. cell[at] = Real(line, k)
        BY DEF PackedAt
      <4> HIDE DEF at
      <4>3. promoted[Re(at)] = Real(line, k)
        BY <2>1, <4>1, <4>2
      <4> QED BY <4>3 DEF at
    <3> QED BY <3>1 DEF PromotedAt
  <2>3. /\ StridedForward(b, promoted) \in Buffer(b)
        /\ \A line \in Elements(Lines(b)) : SpectralAt(b, StridedForward(b, promoted), line, Complexes(b))
    BY <1>1, <2>1, <2>2, StridedForwardKeeps
  <2> QED BY <1>1, <2>3 DEF ConvertRealToComplex, promoted
<1>2. CASE ~ (b.stride > 1)
  <2>1. b.stride = 1
    BY <1>2 DEF IsBuffer
  <2>2. /\ ContiguousForward(b, cell) \in Buffer(b)
        /\ \A line \in Elements(Lines(b)) : SpectralAt(b, ContiguousForward(b, cell), line, Complexes(b))
    BY <2>1, ContiguousForwardKeeps
  <2> QED BY <1>2, <2>2 DEF ConvertRealToComplex
<1> QED BY <1>1, <1>2

(* The spectra that the owner keeps are in front of what the buffer is     *)
(* resized with.                                                           *)
LEMMA InstallKeeps ==
  ASSUME NEW b, IsBuffer(b), NEW cell \in Buffer(b),
         \A line \in Elements(Lines(b)) : SpectralAt(b, cell, line, Complexes(b))
  PROVE  LET after == InstallComplexStorage(b, cell)
         IN  /\ after \in Buffer(b)
             /\ \A line \in Elements(Lines(b)) : SpectralAt(b, after, line, Complexes(b))
<1> DEFINE c == Complexes(b)
           limit == 2 * Lines(b) * c
           f == [x \in {x \in Scalars(b) : x >= limit} |-> Zero]
           after == InstallComplexStorage(b, cell)
<1>1. c \in Nat \ {0} /\ Lines(b) \in Nat /\ Lines(b) * c \in Nat /\ limit = 2 * (Lines(b) * c)
  BY Counts
<1>2. after = Write(cell, f)
  BY DEF InstallComplexStorage
<1>3. DOMAIN f \subseteq Scalars(b) /\ \A x \in DOMAIN f : f[x] \in Content /\ x >= limit
  BY Contents
<1> HIDE DEF f
<1>4. after \in Buffer(b) /\ \A x \in Scalars(b) : x < limit => after[x] = cell[x]
  <2>1. \A x \in Scalars(b) : x < limit => x \notin DOMAIN f
    BY <1>1, <1>3 DEF Scalars
  <2>2. /\ Write(cell, f) \in Buffer(b)
        /\ \A x \in Scalars(b) : Write(cell, f)[x] = IF x \in DOMAIN f THEN f[x] ELSE cell[x]
    BY <1>3, Written
  <2> HIDE DEF limit, after
  <2> QED BY <1>2, <2>1, <2>2
<1> HIDE DEF after, limit
<1>5. ASSUME NEW line \in Elements(Lines(b)), NEW k \in Elements(c)
      PROVE  /\ after[Re(Slot(b, line, k, c))] = Spectral(line, k)
             /\ after[Im(Slot(b, line, k, c))] = Spectral(line, k)
  <2> DEFINE at == Slot(b, line, k, c)
  <2>1. at \in 0..(Lines(b) * c - 1)
    BY <1>1, SlotIs
  <2>2. Re(at) \in Scalars(b) /\ Im(at) \in Scalars(b)
    BY SlotsInBuffer
  <2>3. cell[Re(at)] = Spectral(line, k) /\ cell[Im(at)] = Spectral(line, k)
    BY DEF SpectralAt
  <2> HIDE DEF at, c
  <2>4. Re(at) < limit /\ Im(at) < limit
    BY <1>1, <2>1 DEF Re, Im
  <2> QED BY <1>4, <2>2, <2>3, <2>4 DEF at
<1> QED BY <1>4, <1>5 DEF SpectralAt, after

(* And the way back: every spectrum is found whole, and every line comes   *)
(* to lie where it was.                                                    *)
THEOREM LinesComeBack ==
  ASSUME NEW b, IsBuffer(b), NEW cell \in Buffer(b),
         \A line \in Elements(Lines(b)) : SpectralAt(b, cell, line, Complexes(b))
  PROVE  LET after == ConvertComplexToReal(b, cell)
         IN  /\ after \in Buffer(b)
             /\ \A line \in Elements(Lines(b)) : PackedAt(b, after, line)
<1>1. CASE b.stride > 1
  <2> DEFINE expanded == Expand(b, cell)
             reversed == StridedReverse(b, expanded)
             n == b.n
             c == Complexes(b)
             s == b.stride
  <2>0. n \in Nat \ {0} /\ c \in Nat \ {0} /\ s \in Nat \ {0} /\ c <= n /\ b.groups \in Nat
    BY Counts DEF IsBuffer
  <2>1. /\ expanded \in Buffer(b)
        /\ \A o \in Elements(b.groups) : \A y \in Elements(2 * (c * s)) :
             expanded[2 * (o * (n * s)) + y] = cell[2 * (o * (c * s)) + y]
    BY <1>1, ExpandKeeps
  <2> HIDE DEF expanded
  <2>2. ASSUME NEW line \in Elements(Lines(b)) PROVE SpectralAt(b, expanded, line, n)
    <3>1. ASSUME NEW k \in Elements(c)
          PROVE  /\ expanded[Re(Slot(b, line, k, n))] = cell[Re(Slot(b, line, k, c))]
                 /\ expanded[Im(Slot(b, line, k, n))] = cell[Im(Slot(b, line, k, c))]
      <4> DEFINE o == line \div s
                 i == line % s
                 y == 2 * (k * s + i)
      <4>1. k \in Elements(n)
        BY SlotsInBuffer
      <4>2. /\ o \in 0..(b.groups - 1) /\ i \in 0..(s - 1)
            /\ Slot(b, line, k, c) = (o * c + k) * s + i
            /\ Slot(b, line, k, n) = (o * n + k) * s + i
        BY <2>0, <4>1, SlotIs
      <4> HIDE DEF o, i
      <4>3. k \in Nat /\ k < c /\ o \in Elements(b.groups) /\ o \in Nat
        BY <2>0, <4>2 DEF Elements
      <4>4. k * s \in Nat /\ k * s + s <= c * s /\ c * s \in Nat
        <5>1. s * (k + 1) <= s * c
          BY <2>0, <4>3, Monotone
        <5>2. s * (k + 1) = k * s + s /\ s * c = c * s /\ k * s \in Nat /\ c * s \in Nat
          BY <2>0, <4>3
        <5> QED BY <5>1, <5>2
      <4>5. y \in Elements(2 * (c * s)) /\ y + 1 \in Elements(2 * (c * s))
        <5> HIDE DEF s, c
        <5> QED BY <2>0, <4>2, <4>4 DEF Elements
      <4>6. (o * c + k) * s = o * (c * s) + k * s /\ (o * n + k) * s = o * (n * s) + k * s
        BY <2>0, <4>3
      <4>7. o * (c * s) \in Nat /\ o * (n * s) \in Nat
        BY <2>0, <4>3
      <4> HIDE DEF s, c, n
      <4>8. /\ Re((o * c + k) * s + i) = 2 * (o * (c * s)) + y
            /\ Im((o * c + k) * s + i) = 2 * (o * (c * s)) + (y + 1)
            /\ Re((o * n + k) * s + i) = 2 * (o * (n * s)) + y
            /\ Im((o * n + k) * s + i) = 2 * (o * (n * s)) + (y + 1)
        BY <4>2, <4>4, <4>6, <4>7 DEF Re, Im
      <4> HIDE DEF y
      <4>9. /\ expanded[2 * (o * (n * s)) + y] = cell[2 * (o * (c * s)) + y]
            /\ expanded[2 * (o * (n * s)) + (y + 1)] = cell[2 * (o * (c * s)) + (y + 1)]
        BY <2>1, <4>3, <4>5
      <4> QED BY <4>2, <4>8, <4>9
    <3>2. SpectralAt(b, cell, line, c)
      OBVIOUS
    <3> QED BY <3>1, <3>2 DEF SpectralAt
  <2>3. reversed \in Buffer(b) /\ \A line \in Elements(Lines(b)) : PromotedAt(b, reversed, line)
    BY <1>1, <2>1, <2>2, StridedReverseKeeps
  <2> HIDE DEF reversed
  <2>4. Project(b, reversed) \in Buffer(b) /\ \A j \in Elements(Reals(b)) : Project(b, reversed)[j] = reversed[Re(j)]
    BY <1>1, <2>3, ProjectKeeps
  <2>5. ASSUME NEW line \in Elements(Lines(b)) PROVE PackedAt(b, Project(b, reversed), line)
    <3>1. ASSUME NEW k \in Elements(n) PROVE Project(b, reversed)[Slot(b, line, k, n)] = Real(line, k)
      <4> DEFINE at == Slot(b, line, k, n)
      <4>1. at \in Elements(Reals(b))
        <5>1. at \in 0..(Lines(b) * n - 1)
          BY <2>0, SlotIs
        <5> QED BY <5>1 DEF Elements, Reals
      <4>2. reversed[Re(at)] = Real(line, k)
        BY <2>3 DEF PromotedAt
      <4> HIDE DEF at
      <4>3. Project(b, reversed)[at] = Real(line, k)
        BY <2>4, <4>1, <4>2
      <4> QED BY <4>3 DEF at
    <3> QED BY <3>1 DEF PackedAt
  <2> QED BY <1>1, <2>4, <2>5 DEF ConvertComplexToReal, reversed, expanded
<1>2. CASE ~ (b.stride > 1)
  <2>1. b.stride = 1
    BY <1>2 DEF IsBuffer
  <2>2. /\ ContiguousReverse(b, cell) \in Buffer(b)
        /\ \A line \in Elements(Lines(b)) : PackedAt(b, ContiguousReverse(b, cell), line)
    BY <2>1, ContiguousReverseKeeps
  <2> QED BY <1>2, <2>2 DEF ConvertComplexToReal
<1> QED BY <1>1, <1>2

(* The buffer as the caller has filled it. *)
LEMMA InputIsWhole ==
  ASSUME NEW b, IsBuffer(b)
  PROVE  Input(b) \in Buffer(b) /\ \A line \in Elements(Lines(b)) : PackedAt(b, Input(b), line)
<1> DEFINE L == Elements(Lines(b))
           E == Elements(b.n)
           slot(p) == Slot(b, p[1], p[2], b.n)
           at(x) == CHOOSE p \in L \X E : x = slot(p)
<1>1. L \subseteq Int /\ E \subseteq Int
  BY Counts DEF Elements, IsBuffer
<1>2. ASSUME NEW line \in L, NEW k \in E
      PROVE  /\ Slot(b, line, k, b.n) \in Scalars(b)
             /\ at(Slot(b, line, k, b.n)) = <<line, k>>
  <2>1. Slot(b, line, k, b.n) \in Scalars(b)
    BY SlotsInBuffer
  <2>2. \A p \in L \X E : slot(p) = Slot(b, line, k, b.n) => p = <<line, k>>
    <3> TAKE p \in L \X E
    <3> HAVE slot(p) = Slot(b, line, k, b.n)
    <3>1. p[1] \in L /\ p[2] \in E /\ p = <<p[1], p[2]>>
      OBVIOUS
    <3>2. b.n \in Nat \ {0}
      BY DEF IsBuffer
    <3>3. p[1] = line /\ p[2] = k
      BY <3>1, <3>2, OneSlot
    <3> QED BY <3>1, <3>3
  <2>3. <<line, k>> \in L \X E /\ Slot(b, line, k, b.n) = slot(<<line, k>>)
    OBVIOUS
  <2> HIDE DEF L, E, slot
  <2> QED BY <2>1, <2>2, <2>3
<1>3. ASSUME NEW x \in Scalars(b), \E line \in L, k \in E : x = Slot(b, line, k, b.n)
      PROVE  at(x) \in L \X E
  <2> HIDE DEF L, E, at
  <2> QED BY <1>2, <1>3
<1>4. Input(b) = [x \in Scalars(b) |-> IF \E line \in L, k \in E : x = Slot(b, line, k, b.n)
                                       THEN Real(at(x)[1], at(x)[2]) ELSE Zero]
  BY DEF Input
<1> HIDE DEF L, E, at
<1>5. Input(b) \in Buffer(b)
  <2>1. ASSUME NEW x \in Scalars(b) PROVE Input(b)[x] \in Content
    <3>1. CASE \E line \in L, k \in E : x = Slot(b, line, k, b.n)
      <4>1. at(x)[1] \in Int /\ at(x)[2] \in Int
        BY <1>1, <1>3, <3>1
      <4> QED BY <1>4, <3>1, <4>1, Contents
    <3>2. CASE ~ \E line \in L, k \in E : x = Slot(b, line, k, b.n)
      BY <1>4, <3>2, Contents
    <3> QED BY <3>1, <3>2
  <2> QED BY <1>4, <2>1 DEF Buffer
<1>6. ASSUME NEW line \in L, NEW k \in E PROVE Input(b)[Slot(b, line, k, b.n)] = Real(line, k)
  BY <1>2, <1>4
<1> QED BY <1>5, <1>6 DEF PackedAt, L, E

(* The invariant RepackKeepsTheLines of the run, for every bound.          *)
THEOREM LinesAlwaysKept == Spec => []RepackKeepsTheLines
<1>1. InputType => RepackKeepsTheLines
  <2> SUFFICES ASSUME InputType, input.kind = "buffer" PROVE RepackKeepsTheLines
    BY DEF RepackKeepsTheLines, SpectrumInPlace, RoundTrip
  <2>1. IsBuffer(input)
    <3>1. input \in Buffers
      BY DEF InputType
    <3> QED BY <3>1, BoundAssumption DEF Buffers, IsBuffer
  <2> DEFINE forward == ConvertRealToComplex(input, Input(input))
             installed == InstallComplexStorage(input, forward)
             back == ConvertComplexToReal(input, installed)
  <2>2. /\ forward \in Buffer(input)
        /\ \A line \in Elements(Lines(input)) : SpectralAt(input, forward, line, Complexes(input))
    BY <2>1, InputIsWhole, SpectraStayWhole
  <2> HIDE DEF forward
  <2>3. /\ installed \in Buffer(input)
        /\ \A line \in Elements(Lines(input)) : SpectralAt(input, installed, line, Complexes(input))
    BY <2>1, <2>2, InstallKeeps
  <2> HIDE DEF installed
  <2>4. \A line \in Elements(Lines(input)) : PackedAt(input, back, line)
    BY <2>1, <2>3, LinesComeBack
  <2> HIDE DEF back
  <2>5. SpectrumInPlace
    BY <2>2, WholeLines DEF SpectrumInPlace, forward
  <2>6. RoundTrip
    <3>1. \A line \in Elements(Lines(input)) : PackedLine(input, back, line) = WholeReal(input, line)
      BY <2>4, WholeLines
    <3> QED BY <3>1 DEF RoundTrip, back, installed, forward
  <2> QED BY <2>5, <2>6 DEF RepackKeepsTheLines
<1>2. InputType /\ [Next]_<<input, work>> => InputType'
  BY SameInput DEF InputType
<1> QED BY <1>1, <1>2, InputTypeInit, PTL DEF Spec
===============================================================================
