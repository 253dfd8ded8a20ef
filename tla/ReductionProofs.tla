---------------------------- MODULE ReductionProofs ----------------------------
(***************************************************************************)
(* What the remembered reductions of Reductions tell: the turns of two     *)
(* ranks differ by at most one, and a rank that has seen its reduction     *)
(* complete keeps seeing the same words however far the others go on.      *)
(***************************************************************************)
EXTENDS Reductions, TLAPS

(* How many entries are remembered after one more. *)
OneMore(n) == IF n < 3 THEN n + 1 ELSE 3

(* Entries, whatever their places and words are, are numbered one after    *)
(* another, from 1 on.                                                     *)
LogType ==
  /\ \E E : log \in [Rank -> Seq(E)]
  /\ \A r \in Rank :
       /\ Len(log[r]) <= 3 /\ Turn(r) \in 0..3
       /\ Len(log[r]) < 3 => Turn(r) = Len(log[r])
       /\ \A i \in 1..Len(log[r]) : log[r][i].turn = (Turn(r) + 5 - i) % 4

(* Nobody is more than one reduction ahead of another. *)
LogClose ==
  \A p, q \in Rank :
    /\ Ahead(q, p) \in {0, 1, 3}
    /\ Ahead(q, p) = 0 => Len(log[q]) = Len(log[p])
    /\ Ahead(q, p) = 1 => Len(log[q]) = OneMore(Len(log[p]))

LogInv == LogType /\ LogClose

LEMMA TurnType ==
  ASSUME LogType, NEW r \in Rank
  PROVE  Turn(r) \in 0..3 /\ Len(log[r]) \in 0..3
<1>1. PICK E : log \in [Rank -> Seq(E)]
  BY DEF LogType
<1>2. log[r] \in Seq(E) /\ Len(log[r]) <= 3
  BY <1>1 DEF LogType
<1> DEFINE n == Len(log[r])
<1>3. n \in Nat /\ n <= 3
  BY <1>2
<1> HIDE DEF n
<1>4. n \in 0..3
  BY <1>3
<1> QED BY <1>4 DEF n, LogType

(* What a rank remembers after it has entered a reduction. *)
LEMMA EnterLog ==
  ASSUME LogType, NEW r \in Rank, NEW p, NEW w, Enter(r, p, w)
  PROVE  /\ \E E : log' \in [Rank -> Seq(E)]
         /\ \A q \in Rank : q # r => log'[q] = log[q]
         /\ log'[r][1] = [turn |-> (Turn(r) + 1) % 4, place |-> p, word |-> w]
         /\ Len(log'[r]) = OneMore(Len(log[r]))
         /\ \A i \in 1..2 : i <= Len(log[r]) => log'[r][i + 1] = log[r][i]
<1> DEFINE e == [turn |-> (Turn(r) + 1) % 4, place |-> p, word |-> w]
           more == <<e>> \o log[r]
           n == IF Len(more) < 3 THEN Len(more) ELSE 3
<1>0. PICK E : log \in [Rank -> Seq(E)]
  BY DEF LogType
<1> DEFINE Entry == E \union {e}
<1>1. log[r] \in Seq(Entry) /\ Len(log[r]) \in 0..3
  <2>1. log[r] \in Seq(E)
    BY <1>0
  <2> QED BY <2>1, TurnType
<1>2. log \in [Rank -> Seq(Entry)]
  <2>1. \A q \in Rank : log[q] \in Seq(Entry)
    <3>1. \A q \in Rank : log[q] \in Seq(E)
      BY <1>0
    <3> QED BY <3>1
  <2> QED BY <1>0, <2>1
<1>3. <<e>> \in Seq(Entry) /\ Len(<<e>>) = 1 /\ <<e>>[1] = e
  OBVIOUS
<1> HIDE DEF e, Entry
<1>4. /\ more \in Seq(Entry) /\ Len(more) = Len(log[r]) + 1 /\ more[1] = e
      /\ \A i \in 1..Len(log[r]) : more[i + 1] = log[r][i]
  BY <1>1, <1>3
<1> HIDE DEF more
<1>5. n \in 1..3 /\ n <= Len(more) /\ n = OneMore(Len(log[r]))
  BY <1>1, <1>4 DEF OneMore
<1> HIDE DEF n
<1>6. /\ SubSeq(more, 1, n) \in Seq(Entry) /\ Len(SubSeq(more, 1, n)) = n
      /\ \A i \in 1..n : SubSeq(more, 1, n)[i] = more[i]
  BY <1>4, <1>5
<1>7. log' = [log EXCEPT ![r] = SubSeq(more, 1, n)]
  BY DEF Enter, Remembered, more, n, e
<1>8. log'[r] = SubSeq(more, 1, n) /\ log' \in [Rank -> Seq(Entry)]
        /\ \A q \in Rank : q # r => log'[q] = log[q]
  BY <1>2, <1>6, <1>7
<1>9. log'[r][1] = e /\ Len(log'[r]) = OneMore(Len(log[r]))
  BY <1>4, <1>5, <1>6, <1>8
<1>10. ASSUME NEW i \in 1..2, i <= Len(log[r]) PROVE log'[r][i + 1] = log[r][i]
  <2>1. i + 1 \in 1..n /\ i \in 1..Len(log[r])
    BY <1>1, <1>5, <1>10 DEF OneMore
  <2> QED BY <1>4, <1>6, <1>8, <2>1
<1> QED BY <1>8, <1>9, <1>10 DEF e

(* The turns of all ranks after r has entered a reduction. *)
LEMMA EnterTurn ==
  ASSUME LogType, NEW r \in Rank, NEW p, NEW w, Enter(r, p, w)
  PROVE  /\ Turn(r)' = (Turn(r) + 1) % 4
         /\ \A q \in Rank : q # r => Turn(q)' = Turn(q)
<1>1. /\ \A q \in Rank : q # r => log'[q] = log[q]
      /\ log'[r][1] = [turn |-> (Turn(r) + 1) % 4, place |-> p, word |-> w]
      /\ Len(log'[r]) = OneMore(Len(log[r]))
  BY EnterLog
<1>2. Len(log[r]) \in 0..3
  BY TurnType
<1>3. log'[r] # <<>>
  <2>1. Len(log'[r]) # 0
    BY <1>1, <1>2 DEF OneMore
  <2> QED BY <2>1
<1>4. Turn(r)' = (Turn(r) + 1) % 4
  BY <1>1, <1>3 DEF Turn
<1> QED BY <1>1, <1>4 DEF Turn

(* Who was ahead of whom, and is now. *)
LEMMA EnterAhead ==
  ASSUME LogType, NEW r \in Rank, NEW p, NEW w, Enter(r, p, w),
         NEW q \in Rank, NEW s \in Rank
  PROVE  /\ q # r /\ s # r => Ahead(q, s)' = Ahead(q, s)
         /\ q # r => Ahead(q, r)' = (Ahead(q, r) + 3) % 4 /\ Ahead(r, q)' = (Ahead(r, q) + 1) % 4
<1>1. /\ Turn(r)' = (Turn(r) + 1) % 4
      /\ \A x \in Rank : x # r => Turn(x)' = Turn(x)
  BY EnterTurn
<1>2. Turn(r) \in 0..3 /\ Turn(q) \in 0..3 /\ Turn(s) \in 0..3
  BY TurnType
<1> QED BY <1>1, <1>2 DEF Ahead

LEMMA AheadType ==
  ASSUME LogType, NEW p \in Rank, NEW q \in Rank
  PROVE  /\ Ahead(q, p) \in 0..3 /\ Ahead(p, p) = 0
         /\ Ahead(q, p) = 0 <=> Ahead(p, q) = 0
         /\ Ahead(q, p) = 1 <=> Ahead(p, q) = 3
         /\ Ahead(q, p) = 0 <=> Turn(q) = Turn(p)
<1>1. Turn(p) \in 0..3 /\ Turn(q) \in 0..3
  BY TurnType
<1> QED BY <1>1 DEF Ahead

(* A rank that another is ahead of has a complete reduction; the other has *)
(* none yet.                                                               *)
LEMMA LedIsComplete ==
  ASSUME LogInv, NEW p \in Rank, NEW q \in Rank, Ahead(q, p) = 1
  PROVE  Complete(p) /\ ~ Complete(q)
<1>1. LogType /\ LogClose
  BY DEF LogInv
<1>2. ASSUME NEW x \in Rank PROVE Ahead(x, p) \in {0, 1}
  <2>1. Turn(x) \in 0..3 /\ Turn(p) \in 0..3 /\ Turn(q) \in 0..3
    BY <1>1, TurnType
  <2>2. Ahead(x, p) \in {0, 1, 3} /\ Ahead(q, x) \in {0, 1, 3}
    BY <1>1 DEF LogClose
  <2> QED BY <2>1, <2>2 DEF Ahead
<1>3. Ahead(p, q) = 3
  BY <1>1, AheadType
<1> QED BY <1>2, <1>3 DEF Complete

(* Ranks with a complete reduction each are at the same one. *)
LEMMA BothComplete ==
  ASSUME LogInv, NEW p \in Rank, NEW q \in Rank, Complete(p), Complete(q)
  PROVE  Ahead(q, p) = 0
<1>1. Ahead(q, p) \in {0, 1} /\ Ahead(p, q) \in {0, 1}
  BY DEF Complete
<1> QED BY <1>1, AheadType DEF LogInv

(* Ranks at the same reduction see the same of it. *)
LEMMA SameTurn ==
  ASSUME LogType, NEW p \in Rank, NEW q \in Rank, Ahead(q, p) = 0
  PROVE  /\ Complete(p) = Complete(q)
         /\ Words(p) = Words(q)
         /\ WordsBefore(p) = WordsBefore(q)
         /\ \A x \in Rank : Ahead(x, p) = Ahead(x, q) /\ Ahead(p, x) = Ahead(q, x)
<1>1. Turn(q) = Turn(p)
  BY AheadType
<1>2. \A x \in Rank : Ahead(x, p) = Ahead(x, q) /\ Ahead(p, x) = Ahead(q, x)
  BY <1>1 DEF Ahead
<1>3. Complete(p) = Complete(q)
  BY <1>2 DEF Complete
<1>4. \A x \in Rank : WordOf(x, p) = WordOf(x, q)
  BY <1>2 DEF WordOf
<1>5. Words(p) = Words(q)
  BY <1>4 DEF Words
<1>6. WordsBefore(p) = WordsBefore(q)
  BY <1>2 DEF WordsBefore
<1> QED BY <1>2, <1>3, <1>5, <1>6

(* Entering keeps the logs in step. *)
LEMMA EnterClose ==
  ASSUME LogInv, NEW r \in Rank, NEW p, NEW w, Enter(r, p, w), Complete(r)
  PROVE  LogInv'
<1>0. LogType /\ LogClose
  BY DEF LogInv
<1>1. /\ \E E : log' \in [Rank -> Seq(E)]
      /\ \A q \in Rank : q # r => log'[q] = log[q]
      /\ log'[r][1] = [turn |-> (Turn(r) + 1) % 4, place |-> p, word |-> w]
      /\ Len(log'[r]) = OneMore(Len(log[r]))
      /\ \A i \in 1..2 : i <= Len(log[r]) => log'[r][i + 1] = log[r][i]
  BY <1>0, EnterLog
<1>2. Turn(r)' = (Turn(r) + 1) % 4 /\ \A q \in Rank : q # r => Turn(q)' = Turn(q)
  BY <1>0, EnterTurn
<1>3. Turn(r) \in 0..3 /\ Len(log[r]) \in 0..3
  BY <1>0, TurnType
<1>4. LogType'
  <2>1. ASSUME NEW q \in Rank
        PROVE  /\ Len(log'[q]) <= 3
               /\ Turn(q)' \in 0..3
               /\ Len(log'[q]) < 3 => Turn(q)' = Len(log'[q])
               /\ \A i \in 1..Len(log'[q]) : log'[q][i].turn = (Turn(q)' + 5 - i) % 4
    <3>1. CASE q # r
      <4>1. log'[q] = log[q] /\ Turn(q)' = Turn(q)
        BY <1>1, <1>2, <3>1
      <4> QED BY <1>0, <4>1 DEF LogType
    <3>2. CASE q = r
      <4>1. Len(log[r]) < 3 => Turn(r) = Len(log[r])
        BY <1>0 DEF LogType
      <4>2. Len(log'[r]) <= 3 /\ (Len(log'[r]) < 3 => Turn(r)' = Len(log'[r]))
        <5>1. Len(log'[r]) = OneMore(Len(log[r])) /\ Turn(r)' = (Turn(r) + 1) % 4
          BY <1>1, <1>2
        <5> QED BY <1>3, <4>1, <5>1 DEF OneMore
      <4>3. ASSUME NEW i \in 1..Len(log'[r]) PROVE log'[r][i].turn = (Turn(r)' + 5 - i) % 4
        <5>1. CASE i = 1
          <6>1. log'[r][1].turn = (Turn(r) + 1) % 4
            BY <1>1
          <6> QED BY <1>2, <1>3, <5>1, <6>1
        <5>2. CASE i # 1
          <6>1. i - 1 \in 1..2 /\ i - 1 <= Len(log[r])
            BY <1>1, <1>3, <5>2 DEF OneMore
          <6>2. log'[r][(i - 1) + 1] = log[r][i - 1]
            BY <1>1, <6>1
          <6>3. (i - 1) + 1 = i /\ i - 1 \in 1..Len(log[r])
            BY <1>1, <1>3, <6>1 DEF OneMore
          <6>4. log[r][i - 1].turn = (Turn(r) + 5 - (i - 1)) % 4
            BY <1>0, <6>3 DEF LogType
          <6>5. log'[r][i].turn = (Turn(r) + 5 - (i - 1)) % 4
            BY <6>2, <6>3, <6>4
          <6> QED BY <1>2, <1>3, <6>1, <6>5
        <5> QED BY <5>1, <5>2
      <4>4. Turn(r)' \in 0..3
        BY <1>2, <1>3
      <4> QED BY <3>2, <4>2, <4>3, <4>4
    <3> QED BY <3>1, <3>2
  <2> QED BY <1>1, <2>1 DEF LogType
<1>5. LogClose'
  <2>1. ASSUME NEW q \in Rank, NEW s \in Rank
        PROVE  /\ Ahead(s, q)' \in {0, 1, 3}
               /\ Ahead(s, q)' = 0 => Len(log'[s]) = Len(log'[q])
               /\ Ahead(s, q)' = 1 => Len(log'[s]) = OneMore(Len(log'[q]))
    <3>1. CASE q # r /\ s # r
      <4>1. Ahead(s, q)' = Ahead(s, q) /\ log'[q] = log[q] /\ log'[s] = log[s]
        BY <1>0, <1>1, <3>1, EnterAhead
      <4> QED BY <1>0, <4>1 DEF LogClose
    <3>2. CASE q = r /\ s = r
      <4>1. Ahead(r, r)' = 0
        BY <1>2, <1>3 DEF Ahead
      <4> QED BY <3>2, <4>1
    <3>3. CASE q = r /\ s # r
      <4>1. Ahead(s, r)' = (Ahead(s, r) + 3) % 4 /\ log'[s] = log[s]
        BY <1>0, <1>1, <3>3, EnterAhead
      <4>2. Ahead(s, r) \in {0, 1}
        BY DEF Complete
      <4>3. Ahead(s, r) = 1 => Len(log[s]) = OneMore(Len(log[r]))
        BY <1>0 DEF LogClose
      <4>4. Ahead(s, r)' \in {0, 3} /\ (Ahead(s, r)' = 0 => Ahead(s, r) = 1)
        BY <4>1, <4>2
      <4> QED BY <1>1, <3>3, <4>1, <4>3, <4>4
    <3>4. CASE q # r /\ s = r
      <4>1. Ahead(r, q)' = (Ahead(r, q) + 1) % 4 /\ log'[q] = log[q]
        BY <1>0, <1>1, <3>4, EnterAhead
      <4>2. Ahead(q, r) \in {0, 1}
        BY DEF Complete
      <4>3. Ahead(r, q) \in {0, 3}
        BY <1>0, <4>2, AheadType
      <4>4. Ahead(r, q)' \in {0, 1} /\ (Ahead(r, q)' = 1 => Ahead(r, q) = 0)
              /\ (Ahead(r, q)' = 0 => Ahead(r, q) = 3)
        BY <4>1, <4>3
      <4>5. Ahead(r, q) = 0 => Len(log[r]) = Len(log[q])
        BY <1>0 DEF LogClose
      <4>6. Ahead(r, q) = 3 => Ahead(q, r) = 1
        BY <1>0, AheadType
      <4>7. Ahead(q, r) = 1 => Len(log[q]) = OneMore(Len(log[r]))
        BY <1>0 DEF LogClose
      <4> QED BY <1>1, <3>4, <4>1, <4>4, <4>5, <4>6, <4>7
    <3> QED BY <3>1, <3>2, <3>3, <3>4
  <2> QED BY <2>1 DEF LogClose
<1> QED BY <1>4, <1>5 DEF LogInv

(* A rank with a complete reduction keeps seeing the same of it. *)
LEMMA Stable ==
  ASSUME LogInv, NEW r \in Rank, NEW p, NEW w, Enter(r, p, w), Complete(r),
         NEW s \in Rank, s # r, Complete(s)
  PROVE  /\ Complete(s)' /\ log'[s] = log[s]
         /\ Len(log[s]) >= 1 => Words(s)' = Words(s)
         /\ Len(log[s]) >= 2 => WordsBefore(s)' = WordsBefore(s)
<1>0. LogType /\ LogClose
  BY DEF LogInv
<1>1. /\ \A q \in Rank : q # r => log'[q] = log[q]
      /\ \A i \in 1..2 : i <= Len(log[r]) => log'[r][i + 1] = log[r][i]
  BY <1>0, EnterLog
<1>2. Ahead(r, s) = 0
  BY BothComplete
<1>3. Ahead(r, s)' = 1
  <2>1. Ahead(r, s)' = (Ahead(r, s) + 1) % 4
    BY <1>0, EnterAhead
  <2> QED BY <1>2, <2>1
<1>4. Len(log[r]) = Len(log[s]) /\ Len(log[r]) \in 0..3
  BY <1>0, <1>2, TurnType DEF LogClose
<1>5. \A x \in Rank : x # r => Ahead(x, s)' = Ahead(x, s)
  BY <1>0, EnterAhead
<1>6. Complete(s)'
  BY <1>3, <1>5 DEF Complete
<1>7. ASSUME Len(log[s]) >= 1 PROVE Words(s)' = Words(s)
  <2>1. log'[r][2] = log[r][1]
    BY <1>1, <1>4, <1>7
  <2>2. ASSUME NEW x \in Rank PROVE WordOf(x, s)' = WordOf(x, s)
    <3>1. CASE x = r
      BY <1>2, <1>3, <2>1, <3>1 DEF WordOf
    <3>2. CASE x # r
      BY <1>1, <1>5, <3>2 DEF WordOf
    <3> QED BY <3>1, <3>2
  <2> QED BY <2>2 DEF Words
<1>8. ASSUME Len(log[s]) >= 2 PROVE WordsBefore(s)' = WordsBefore(s)
  <2>1. log'[r][3] = log[r][2]
    BY <1>1, <1>4, <1>8
  <2>2. ASSUME NEW x \in Rank PROVE (log[x][2 + Ahead(x, s)].word)' = log[x][2 + Ahead(x, s)].word
    <3>1. CASE x = r
      BY <1>2, <1>3, <2>1, <3>1
    <3>2. CASE x # r
      BY <1>1, <1>5, <3>2
    <3> QED BY <3>1, <3>2
  <2> QED BY <2>2 DEF WordsBefore
<1> QED BY <1>1, <1>6, <1>7, <1>8

(* Neither do the single words of it change. *)
LEMMA StableWords ==
  ASSUME LogInv, NEW r \in Rank, NEW p, NEW w, Enter(r, p, w), Complete(r),
         NEW s \in Rank, s # r, Complete(s), Len(log[s]) >= 1
  PROVE  \A q \in Rank : WordOf(q, s)' = WordOf(q, s)
<1>0. LogType /\ LogClose
  BY DEF LogInv
<1>1. /\ \A q \in Rank : q # r => log'[q] = log[q]
      /\ \A i \in 1..2 : i <= Len(log[r]) => log'[r][i + 1] = log[r][i]
  BY <1>0, EnterLog
<1>2. Ahead(r, s) = 0
  BY BothComplete
<1>3. Ahead(r, s)' = 1
  <2>1. Ahead(r, s)' = (Ahead(r, s) + 1) % 4
    BY <1>0, EnterAhead
  <2> QED BY <1>2, <2>1
<1>4. Len(log[r]) = Len(log[s]) /\ Len(log[r]) \in 0..3
  BY <1>0, <1>2, TurnType DEF LogClose
<1>5. log'[r][2] = log[r][1]
  BY <1>1, <1>4
<1>6. \A x \in Rank : x # r => Ahead(x, s)' = Ahead(x, s)
  BY <1>0, EnterAhead
<1>7. ASSUME NEW q \in Rank PROVE WordOf(q, s)' = WordOf(q, s)
  <2>1. CASE q = r
    BY <1>2, <1>3, <1>5, <2>1 DEF WordOf
  <2>2. CASE q # r
    BY <1>1, <1>6, <2>2 DEF WordOf
  <2> QED BY <2>1, <2>2
<1> QED BY <1>7

(* What a rank has contributed is among the words it sees. *)
LEMMA OwnWord ==
  ASSUME LogType, NEW r \in Rank
  PROVE  /\ Own(r).word \in Words(r)
         /\ log[r][2].word \in WordsBefore(r)
         /\ \A q \in Rank : Ahead(q, r) = 0 => Own(q).word \in Words(r) /\ log[q][2].word \in WordsBefore(r)
         /\ \A q \in Rank : Ahead(q, r) = 1 => log[q][2].word \in Words(r) /\ log[q][3].word \in WordsBefore(r)
<1>1. \A q \in Rank : WordOf(q, r) \in Words(r) /\ log[q][2 + Ahead(q, r)].word \in WordsBefore(r)
  BY DEF Words, WordsBefore
<1>2. Ahead(r, r) = 0
  BY AheadType
<1> QED BY <1>1, <1>2 DEF WordOf, Own

----------------------------------------------------------------------------
(* Matching.                                                               *)

(* What ranks remember of the same reductions has the same places. *)
LogsMatch ==
  \A p, q \in Rank :
    /\ Ahead(q, p) = 0 => \A i \in 1..3 : i <= Len(log[p]) => log[q][i].place = log[p][i].place
    /\ Ahead(q, p) = 1 => \A i \in 1..2 : i <= Len(log[p]) => log[q][i + 1].place = log[p][i].place

(* A rank that enters where those ahead of it are keeps the match. *)
LEMMA EnterMatch ==
  ASSUME LogInv, LogsMatch, NEW r \in Rank, NEW p, NEW w,
         Enter(r, p, w), Complete(r),
         \A q \in Rank : Ahead(q, r) = 1 => Own(q).place = p
  PROVE  LogsMatch'
<1>0. LogType /\ LogClose
  BY DEF LogInv
<1>1. /\ \A q \in Rank : q # r => log'[q] = log[q]
      /\ log'[r][1] = [turn |-> (Turn(r) + 1) % 4, place |-> p, word |-> w]
      /\ Len(log'[r]) = OneMore(Len(log[r]))
      /\ \A i \in 1..2 : i <= Len(log[r]) => log'[r][i + 1] = log[r][i]
  BY <1>0, EnterLog
<1>2. Len(log[r]) \in 0..3 /\ log'[r][1].place = p
  BY <1>0, <1>1, TurnType
<1>3. ASSUME NEW q \in Rank, NEW s \in Rank
      PROVE  /\ Ahead(s, q)' = 0 => \A i \in 1..3 : i <= Len(log'[q]) => log'[s][i].place = log'[q][i].place
             /\ Ahead(s, q)' = 1 => \A i \in 1..2 : i <= Len(log'[q]) => log'[s][i + 1].place = log'[q][i].place
  <2>1. CASE q # r /\ s # r
    <3>1. Ahead(s, q)' = Ahead(s, q) /\ log'[q] = log[q] /\ log'[s] = log[s]
      BY <1>0, <1>1, <2>1, EnterAhead
    <3> QED BY <3>1 DEF LogsMatch
  <2>2. CASE q = r /\ s = r
    <3>1. LogInv'
      BY EnterClose
    <3>2. Turn(r)' = (Turn(r) + 1) % 4 /\ Turn(r) \in 0..3
      BY <1>0, EnterTurn, TurnType
    <3>3. Ahead(r, r)' = 0
      BY <3>2 DEF Ahead
    <3> QED BY <2>2, <3>3
  <2>3. CASE q = r /\ s # r
    <3>1. Ahead(s, r)' = (Ahead(s, r) + 3) % 4 /\ log'[s] = log[s]
      BY <1>0, <1>1, <2>3, EnterAhead
    <3>2. Ahead(s, r) \in {0, 1}
      BY DEF Complete
    <3>3. Ahead(s, r)' # 1 /\ (Ahead(s, r)' = 0 => Ahead(s, r) = 1)
      BY <3>1, <3>2
    <3>4. ASSUME Ahead(s, r) = 1, NEW i \in 1..3, i <= Len(log'[r])
          PROVE  log'[s][i].place = log'[r][i].place
      <4>1. CASE i = 1
        BY <1>2, <3>1, <3>4, <4>1 DEF Own
      <4>2. CASE i # 1
        <5>1. i - 1 \in 1..2 /\ i - 1 <= Len(log[r]) /\ (i - 1) + 1 = i
          BY <1>1, <1>2, <3>4, <4>2 DEF OneMore
        <5>2. log'[r][(i - 1) + 1] = log[r][i - 1]
          BY <1>1, <5>1
        <5>3. log[s][(i - 1) + 1].place = log[r][i - 1].place
          BY <3>4, <5>1 DEF LogsMatch
        <5> QED BY <3>1, <5>1, <5>2, <5>3
      <4> QED BY <4>1, <4>2
    <3> QED BY <2>3, <3>3, <3>4
  <2>4. CASE q # r /\ s = r
    <3>1. Ahead(r, q)' = (Ahead(r, q) + 1) % 4 /\ log'[q] = log[q]
      BY <1>0, <1>1, <2>4, EnterAhead
    <3>2. Ahead(q, r) \in {0, 1}
      BY DEF Complete
    <3>3. Ahead(r, q) \in {0, 3} /\ (Ahead(r, q) = 3 => Ahead(q, r) = 1)
      BY <1>0, <3>2, AheadType
    <3>4. (Ahead(r, q)' = 1 => Ahead(r, q) = 0) /\ (Ahead(r, q)' = 0 => Ahead(q, r) = 1)
      BY <3>1, <3>3
    <3>5. ASSUME Ahead(r, q) = 0, NEW i \in 1..2, i <= Len(log[q])
          PROVE  log'[r][i + 1].place = log[q][i].place
      <4>1. Len(log[r]) = Len(log[q])
        BY <1>0, <3>5 DEF LogClose
      <4>2. log[r][i].place = log[q][i].place
        BY <3>5 DEF LogsMatch
      <4>3. log'[r][i + 1] = log[r][i]
        BY <1>1, <3>5, <4>1
      <4> QED BY <4>2, <4>3
    <3>6. ASSUME Ahead(q, r) = 1, NEW i \in 1..3, i <= Len(log[q])
          PROVE  log'[r][i].place = log[q][i].place
      <4>0. Len(log[q]) = OneMore(Len(log[r]))
        BY <1>0, <3>6 DEF LogClose
      <4>1. CASE i = 1
        BY <1>2, <3>1, <3>6, <4>1 DEF Own
      <4>2. CASE i # 1
        <5>1. i - 1 \in 1..2 /\ i - 1 <= Len(log[r]) /\ (i - 1) + 1 = i
          BY <1>1, <1>2, <3>6, <4>0, <4>2 DEF OneMore
        <5>2. log'[r][(i - 1) + 1] = log[r][i - 1]
          BY <1>1, <5>1
        <5>3. log[q][(i - 1) + 1].place = log[r][i - 1].place
          BY <3>6, <5>1 DEF LogsMatch
        <5> QED BY <3>1, <5>1, <5>2, <5>3
      <4> QED BY <4>1, <4>2
    <3> QED BY <2>4, <3>1, <3>4, <3>5, <3>6
  <2> QED BY <2>1, <2>2, <2>3, <2>4
<1> QED BY <1>3 DEF LogsMatch

(* Then the numbers of two entries tell whether their places have to match. *)
LEMMA MatchingLogs ==
  ASSUME LogInv, LogsMatch
  PROVE  ReductionsMatch
<1>0. LogType /\ LogClose
  BY DEF LogInv
<1>1. ASSUME NEW p \in Rank, NEW q \in Rank, NEW i \in 1..Len(log[p]), NEW j \in 1..Len(log[q]),
             log[p][i].turn = log[q][j].turn, Ahead(q, p) \in {0, 1}
      PROVE  log[p][i].place = log[q][j].place
  <2>1. Turn(p) \in 0..3 /\ Turn(q) \in 0..3 /\ Len(log[p]) \in 0..3 /\ Len(log[q]) \in 0..3
    BY <1>0, TurnType
  <2>2. i \in 1..3 /\ j \in 1..3 /\ i <= Len(log[p]) /\ j <= Len(log[q])
    <3> DEFINE m == Len(log[p])
               n == Len(log[q])
    <3>1. m \in 0..3 /\ n \in 0..3 /\ i \in 1..m /\ j \in 1..n
      BY <2>1
    <3> HIDE DEF m, n
    <3>2. i \in 1..3 /\ j \in 1..3 /\ i <= m /\ j <= n
      BY <3>1
    <3> QED BY <3>2 DEF m, n
  <2>3. log[p][i].turn = (Turn(p) + 5 - i) % 4 /\ log[q][j].turn = (Turn(q) + 5 - j) % 4
    BY <1>0 DEF LogType
  <2>4. (Turn(p) + 5 - i) % 4 = (Turn(q) + 5 - j) % 4
    BY <1>1, <2>3
  <2>5. CASE Ahead(q, p) = 0
    <3>1. Turn(p) = Turn(q)
      BY <1>0, <2>5, AheadType
    <3>2. Turn(p) \in 0..3 /\ (Turn(p) + 5 - i) % 4 = (Turn(p) + 5 - j) % 4
      BY <2>1, <2>4, <3>1
    <3>3. i = j
      BY <2>2, <3>2
    <3> QED BY <2>2, <2>5, <3>3 DEF LogsMatch
  <2>6. CASE Ahead(q, p) = 1
    <3> DEFINE a == Turn(p)
               b == Turn(q)
    <3>1. a \in 0..3 /\ b \in 0..3 /\ (b + 4 - a) % 4 = 1 /\ (a + 5 - i) % 4 = (b + 5 - j) % 4
      BY <2>1, <2>4, <2>6 DEF Ahead
    <3> HIDE DEF a, b
    <3>2. b = a + 1 \/ (a = 3 /\ b = 0)
      BY <3>1
    <3>3. j = i + 1 /\ i \in 1..2
      BY <2>2, <3>1, <3>2
    <3> QED BY <2>2, <2>6, <3>3 DEF LogsMatch
  <2> QED BY <1>1, <2>5, <2>6
<1>2. ASSUME NEW p \in Rank, NEW q \in Rank, NEW x \in Entries(p), NEW y \in Entries(q), x.turn = y.turn
      PROVE  x.place = y.place
  <2>0. PICK E : log \in [Rank -> Seq(E)]
    BY <1>0 DEF LogType
  <2>1. PICK i \in 1..Len(log[p]) : x = log[p][i]
    BY <2>0 DEF Entries
  <2>2. PICK j \in 1..Len(log[q]) : y = log[q][j]
    BY <2>0 DEF Entries
  <2>3. CASE Ahead(q, p) \in {0, 1}
    BY <1>1, <1>2, <2>1, <2>2, <2>3
  <2>4. CASE Ahead(q, p) = 3
    <3>1. Ahead(p, q) \in {0, 1}
      BY <1>0, <2>4, AheadType
    <3> QED BY <1>1, <1>2, <2>1, <2>2, <3>1
  <2> QED BY <1>0, <2>3, <2>4 DEF LogClose
<1> QED BY <1>2 DEF ReductionsMatch

(* With no reductions at all everything is in step. *)
LEMMA NothingEntered ==
  ASSUME NoReductions
  PROVE  LogInv /\ LogsMatch /\ \A r \in Rank : Complete(r)
<1>1. \A r \in Rank : log[r] = <<>> /\ Turn(r) = 0 /\ Len(log[r]) = 0
  BY DEF NoReductions, Turn
<1>2. \A p, q \in Rank : Ahead(q, p) = 0
  BY <1>1 DEF Ahead
<1>3. log \in [Rank -> Seq({})]
  BY DEF NoReductions
<1>4. LogType
  BY <1>1, <1>3 DEF LogType
<1>5. LogClose
  BY <1>1, <1>2 DEF LogClose
<1>6. LogsMatch
  BY <1>1, <1>2 DEF LogsMatch
<1> QED BY <1>2, <1>4, <1>5, <1>6 DEF LogInv, Complete

(* What ranks have contributed to a reduction they all have entered has its *)
(* place, and so has what they contributed to the one before.              *)
LEMMA MatchingEntries ==
  ASSUME LogInv, LogsMatch, NEW q \in Rank, NEW r \in Rank, Ahead(q, r) \in {0, 1}
  PROVE  /\ Len(log[r]) >= 1 => /\ 1 + Ahead(q, r) \in 1..Len(log[q])
                                /\ log[q][1 + Ahead(q, r)].place = log[r][1].place
         /\ Len(log[r]) >= 2 => /\ 2 + Ahead(q, r) \in 1..Len(log[q])
                                /\ log[q][2 + Ahead(q, r)].place = log[r][2].place
<1> DEFINE m == Len(log[r])
           n == Len(log[q])
<1>1. m \in 0..3 /\ n \in 0..3
  BY TurnType DEF LogInv
<1>2. /\ Ahead(q, r) = 0 => n = m
      /\ Ahead(q, r) = 1 => n = OneMore(m)
  BY DEF LogInv, LogClose
<1>3. /\ Ahead(q, r) = 0 => \A i \in 1..3 : i <= m => log[q][i].place = log[r][i].place
      /\ Ahead(q, r) = 1 => \A i \in 1..2 : i <= m => log[q][i + 1].place = log[r][i].place
  BY DEF LogsMatch
<1> HIDE DEF m, n
<1>4. ASSUME m >= 1 PROVE 1 + Ahead(q, r) \in 1..n /\ log[q][1 + Ahead(q, r)].place = log[r][1].place
  <2>1. CASE Ahead(q, r) = 0
    BY <1>1, <1>2, <1>3, <1>4, <2>1
  <2>2. CASE Ahead(q, r) = 1
    BY <1>1, <1>2, <1>3, <1>4, <2>2 DEF OneMore
  <2> QED BY <2>1, <2>2
<1>5. ASSUME m >= 2 PROVE 2 + Ahead(q, r) \in 1..n /\ log[q][2 + Ahead(q, r)].place = log[r][2].place
  <2>1. CASE Ahead(q, r) = 0
    BY <1>1, <1>2, <1>3, <1>5, <2>1
  <2>2. CASE Ahead(q, r) = 1
    BY <1>1, <1>2, <1>3, <1>5, <2>2 DEF OneMore
  <2> QED BY <2>1, <2>2
<1> QED BY <1>4, <1>5 DEF m, n

----------------------------------------------------------------------------
(* Scripts.                                                                *)

(* A part of a script from place a to place b: its places are in P, each   *)
(* is followed by one that E allows, and those of S are among them.        *)
Walk(s, a, b, P, E, S) ==
  /\ s \in Seq(P) /\ Len(s) >= 1 /\ s[1] = a /\ s[Len(s)] = b
  /\ \A i \in 1..(Len(s) - 1) : <<s[i], s[i + 1]>> \in E
  /\ \A x \in S : \E i \in 1..Len(s) : s[i] = x

LEMMA JoinWalks ==
  ASSUME NEW P, NEW E, NEW s, NEW t, NEW a, NEW b, NEW c, NEW d, NEW S, NEW T,
         Walk(s, a, b, P, E, S), Walk(t, c, d, P, E, T), <<b, c>> \in E
  PROVE  Walk(s \o t, a, d, P, E, S \union T)
<1> DEFINE u == s \o t
           m == Len(s)
           n == Len(t)
<1>1. s \in Seq(P) /\ t \in Seq(P) /\ m \in Nat /\ n \in Nat /\ m >= 1 /\ n >= 1
  BY DEF Walk
<1>2. /\ u \in Seq(P) /\ Len(u) = m + n
      /\ \A i \in 1..m : u[i] = s[i]
      /\ \A i \in 1..n : u[m + i] = t[i]
  BY <1>1
<1>3. \A i \in (m + 1)..(m + n) : u[i] = t[i - m] /\ i - m \in 1..n
  <2>1. ASSUME NEW i \in (m + 1)..(m + n) PROVE u[i] = t[i - m] /\ i - m \in 1..n
    <3>1. i - m \in 1..n /\ m + (i - m) = i
      BY <1>1
    <3>2. u[m + (i - m)] = t[i - m]
      BY <1>2, <3>1
    <3> QED BY <3>1, <3>2
  <2> QED BY <2>1
<1>4. s[1] = a /\ s[m] = b /\ t[1] = c /\ t[n] = d
  BY DEF Walk
<1> HIDE DEF u, m, n
<1>5. u[1] = a /\ u[m] = b /\ u[m + 1] = c /\ u[m + n] = d
  BY <1>1, <1>2, <1>4
<1>6. ASSUME NEW i \in 1..(m + n - 1) PROVE <<u[i], u[i + 1]>> \in E
  <2>1. CASE i \in 1..(m - 1)
    <3>1. i \in 1..m /\ i + 1 \in 1..m
      BY <1>1, <2>1
    <3>2. <<s[i], s[i + 1]>> \in E
      BY <2>1 DEF Walk, m
    <3> QED BY <1>2, <3>1, <3>2
  <2>2. CASE i = m
    BY <1>5, <2>2
  <2>3. CASE i \in (m + 1)..(m + n - 1)
    <3>1. i \in (m + 1)..(m + n) /\ i + 1 \in (m + 1)..(m + n)
      BY <1>1, <2>3
    <3>2. u[i] = t[i - m] /\ u[i + 1] = t[(i + 1) - m]
      BY <1>3, <3>1
    <3>3. (i + 1) - m = (i - m) + 1 /\ i - m \in 1..(n - 1)
      BY <1>1, <2>3
    <3>4. <<t[i - m], t[(i - m) + 1]>> \in E
      BY <3>3 DEF Walk, n
    <3> QED BY <3>2, <3>3, <3>4
  <2> QED BY <1>1, <2>1, <2>2, <2>3
<1>7. ASSUME NEW x \in S \union T PROVE \E i \in 1..(m + n) : u[i] = x
  <2>1. CASE x \in S
    <3>1. PICK i \in 1..m : s[i] = x
      BY <2>1 DEF Walk, m
    <3>2. i \in 1..(m + n) /\ u[i] = x
      BY <1>1, <1>2, <3>1
    <3> QED BY <3>2
  <2>2. CASE x \in T
    <3>1. PICK i \in 1..n : t[i] = x
      BY <2>2 DEF Walk, n
    <3>2. u[m + i] = x
      BY <1>2, <3>1
    <3>3. m + i \in 1..(m + n)
      BY <1>1, <3>1
    <3> QED BY <3>2, <3>3
  <2> QED BY <2>1, <2>2
<1>8. Len(u) >= 1 /\ u[Len(u)] = d /\ Len(u) - 1 = m + n - 1
  BY <1>1, <1>2, <1>5
<1>9. Walk(u, a, d, P, E, S \union T)
  BY <1>2, <1>5, <1>6, <1>7, <1>8 DEF Walk
<1> QED BY <1>9 DEF u

(* Parts given place by place. *)

LEMMA Walk1 ==
  ASSUME NEW P, NEW E, NEW p1 \in P
  PROVE  Walk(<<p1>>, p1, p1, P, E, {p1})
<1> DEFINE s == <<p1>>
<1>1. s \in Seq(P) /\ Len(s) = 1
  OBVIOUS
<1>2. s[1] = p1
  OBVIOUS
<1> HIDE DEF s
<1>3. \A i \in 1..0 : <<s[i], s[i + 1]>> \in E
  BY <1>2
<1>4. \A x \in {p1} : \E i \in 1..1 : s[i] = x
  BY <1>2
<1>5. Walk(s, p1, p1, P, E, {p1})
  BY <1>1, <1>2, <1>3, <1>4 DEF Walk
<1> QED BY <1>5 DEF s

LEMMA Walk2 ==
  ASSUME NEW P, NEW E, NEW p1 \in P, NEW p2 \in P, <<p1, p2>> \in E
  PROVE  Walk(<<p1, p2>>, p1, p2, P, E, {p1, p2})
<1> DEFINE s == <<p1, p2>>
<1>1. s \in Seq(P) /\ Len(s) = 2
  OBVIOUS
<1>2. s[1] = p1 /\ s[2] = p2
  OBVIOUS
<1> HIDE DEF s
<1>3. \A i \in 1..1 : <<s[i], s[i + 1]>> \in E
  BY <1>2
<1>4. \A x \in {p1, p2} : \E i \in 1..2 : s[i] = x
  BY <1>2
<1>5. Walk(s, p1, p2, P, E, {p1, p2})
  BY <1>1, <1>2, <1>3, <1>4 DEF Walk
<1> QED BY <1>5 DEF s

LEMMA Walk3 ==
  ASSUME NEW P, NEW E, NEW p1 \in P, NEW p2 \in P, NEW p3 \in P, <<p1, p2>> \in E,
         <<p2, p3>> \in E
  PROVE  Walk(<<p1, p2, p3>>, p1, p3, P, E, {p1, p2, p3})
<1> DEFINE s == <<p1, p2, p3>>
<1>1. s \in Seq(P) /\ Len(s) = 3
  OBVIOUS
<1>2. s[1] = p1 /\ s[2] = p2 /\ s[3] = p3
  OBVIOUS
<1> HIDE DEF s
<1>3. \A i \in 1..2 : <<s[i], s[i + 1]>> \in E
  BY <1>2
<1>4. \A x \in {p1, p2, p3} : \E i \in 1..3 : s[i] = x
  BY <1>2
<1>5. Walk(s, p1, p3, P, E, {p1, p2, p3})
  BY <1>1, <1>2, <1>3, <1>4 DEF Walk
<1> QED BY <1>5 DEF s

LEMMA Walk4 ==
  ASSUME NEW P, NEW E, NEW p1 \in P, NEW p2 \in P, NEW p3 \in P, NEW p4 \in P,
         <<p1, p2>> \in E, <<p2, p3>> \in E, <<p3, p4>> \in E
  PROVE  Walk(<<p1, p2, p3, p4>>, p1, p4, P, E, {p1, p2, p3, p4})
<1> DEFINE s == <<p1, p2, p3, p4>>
<1>1. s \in Seq(P) /\ Len(s) = 4
  OBVIOUS
<1>2. s[1] = p1 /\ s[2] = p2 /\ s[3] = p3 /\ s[4] = p4
  OBVIOUS
<1> HIDE DEF s
<1>3. \A i \in 1..3 : <<s[i], s[i + 1]>> \in E
  BY <1>2
<1>4. \A x \in {p1, p2, p3, p4} : \E i \in 1..4 : s[i] = x
  BY <1>2
<1>5. Walk(s, p1, p4, P, E, {p1, p2, p3, p4})
  BY <1>1, <1>2, <1>3, <1>4 DEF Walk
<1> QED BY <1>5 DEF s

LEMMA Walk6 ==
  ASSUME NEW P, NEW E, NEW p1 \in P, NEW p2 \in P, NEW p3 \in P, NEW p4 \in P, NEW p5 \in P,
         NEW p6 \in P, <<p1, p2>> \in E, <<p2, p3>> \in E, <<p3, p4>> \in E, <<p4, p5>> \in E,
         <<p5, p6>> \in E
  PROVE  Walk(<<p1, p2, p3, p4, p5, p6>>, p1, p6, P, E, {p1, p2, p3, p4, p5, p6})
<1> DEFINE s == <<p1, p2, p3, p4, p5, p6>>
<1>1. s \in Seq(P) /\ Len(s) = 6
  OBVIOUS
<1>2. s[1] = p1 /\ s[2] = p2 /\ s[3] = p3 /\ s[4] = p4 /\ s[5] = p5 /\ s[6] = p6
  OBVIOUS
<1> HIDE DEF s
<1>3. \A i \in 1..5 : <<s[i], s[i + 1]>> \in E
  BY <1>2
<1>4. \A x \in {p1, p2, p3, p4, p5, p6} : \E i \in 1..6 : s[i] = x
  BY <1>2
<1>5. Walk(s, p1, p6, P, E, {p1, p2, p3, p4, p5, p6})
  BY <1>1, <1>2, <1>3, <1>4 DEF Walk
<1> QED BY <1>5 DEF s

LEMMA Walk8 ==
  ASSUME NEW P, NEW E, NEW p1 \in P, NEW p2 \in P, NEW p3 \in P, NEW p4 \in P, NEW p5 \in P,
         NEW p6 \in P, NEW p7 \in P, NEW p8 \in P, <<p1, p2>> \in E, <<p2, p3>> \in E,
         <<p3, p4>> \in E, <<p4, p5>> \in E, <<p5, p6>> \in E, <<p6, p7>> \in E,
         <<p7, p8>> \in E
  PROVE  Walk(<<p1, p2, p3, p4, p5, p6, p7, p8>>, p1, p8, P, E, {p1, p2, p3, p4, p5, p6, p7, p8})
<1> DEFINE s == <<p1, p2, p3, p4, p5, p6, p7, p8>>
<1>1. s \in Seq(P) /\ Len(s) = 8
  OBVIOUS
<1>2. s[1] = p1 /\ s[2] = p2 /\ s[3] = p3 /\ s[4] = p4 /\ s[5] = p5 /\ s[6] = p6 /\ s[7] = p7 /\ s[8] = p8
  OBVIOUS
<1> HIDE DEF s
<1>3. \A i \in 1..7 : <<s[i], s[i + 1]>> \in E
  BY <1>2
<1>4. \A x \in {p1, p2, p3, p4, p5, p6, p7, p8} : \E i \in 1..8 : s[i] = x
  BY <1>2
<1>5. Walk(s, p1, p8, P, E, {p1, p2, p3, p4, p5, p6, p7, p8})
  BY <1>1, <1>2, <1>3, <1>4 DEF Walk
<1> QED BY <1>5 DEF s
(* What the places of a whole script are, and which follows which.         *)
LEMMA WalkPlaces ==
  ASSUME NEW s, NEW a, NEW b, NEW P, NEW E, NEW S, Walk(s, a, b, P, E, S)
  PROVE  LET all == {s[i] : i \in 1..Len(s)}
         IN  /\ a \in all /\ b \in all /\ S \subseteq all /\ all \subseteq P
             /\ \A p \in all \ {b} :
                  LET next == s[(CHOOSE i \in DOMAIN s : s[i] = p) + 1]
                  IN  /\ p \in {s[i] : i \in 1..(Len(s) - 1)}
                      /\ next \in all /\ <<p, next>> \in E
<1> DEFINE n == Len(s)
           all == {s[i] : i \in 1..n}
<1>1. /\ s \in Seq(P) /\ n \in Nat /\ n >= 1 /\ s[1] = a /\ s[n] = b
      /\ \A i \in 1..(n - 1) : <<s[i], s[i + 1]>> \in E
      /\ \A x \in S : \E i \in 1..n : s[i] = x
      /\ DOMAIN s = 1..n
  BY DEF Walk
<1>2. ASSUME NEW p \in all \ {b}
      PROVE  LET next == s[(CHOOSE i \in DOMAIN s : s[i] = p) + 1]
             IN  /\ p \in {s[i] : i \in 1..(n - 1)}
                 /\ next \in all /\ <<p, next>> \in E
  <2> DEFINE k == CHOOSE i \in DOMAIN s : s[i] = p
  <2>1. k \in 1..n /\ s[k] = p
    BY <1>1
  <2> HIDE DEF k, n
  <2>2. k \in 1..(n - 1) /\ k + 1 \in 1..n
    BY <1>1, <2>1
  <2>3. p \in {s[i] : i \in 1..(n - 1)} /\ s[k + 1] \in all /\ <<p, s[k + 1]>> \in E
    BY <1>1, <2>1, <2>2
  <2> QED BY <2>3 DEF k, n
<1> HIDE DEF n
<1>3. 1 \in 1..n /\ n \in 1..n
  BY <1>1
<1>4. a \in all /\ b \in all /\ S \subseteq all /\ all \subseteq P
  BY <1>1, <1>3
<1> QED BY <1>2, <1>4 DEF n
===============================================================================
