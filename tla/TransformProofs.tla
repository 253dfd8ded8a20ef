---------------------------- MODULE TransformProofs ----------------------------
(***************************************************************************)
(* Proofs about distributed transforms, for every set of plans with any    *)
(* number of stages, any number of ranks, members, calls and failures.     *)
(***************************************************************************)
EXTENDS TransformInvariant, SequenceTheorems, WellFoundedInduction

----------------------------------------------------------------------------
(* Lists of parts.                                                         *)

(* Every non-empty set of naturals has a least element.                    *)
LEMMA LeastNatural ==
  ASSUME NEW S \in SUBSET Nat, S # {}
  PROVE  \E x \in S : \A y \in S : x <= y
<1>1. PICK x \in S : \A y \in S : ~ (<<y, x>> \in OpToRel(<, Nat))
  BY WFMin, NatLessThanWellFounded, Zenon
<1>2. ASSUME NEW y \in S PROVE x <= y
  <2>1. x \in Nat /\ y \in Nat
    OBVIOUS
  <2>2. ~ (y < x)
    BY <1>1, <2>1 DEF OpToRel
  <2> QED BY <2>1, <2>2
<1> QED BY <1>2

(* f joins the parts of g up to each of them. *)
Joins(f, g, n) == f = [i \in 1..n |-> IF i = 1 THEN g[i] ELSE f[i - 1] \o g[i]]

(* The parts of a list up to any of them can be joined. *)
LEMMA JoinsExist ==
  ASSUME NEW n \in Nat, NEW g
  PROVE  \E f : Joins(f, g, n)
<1> DEFINE Bad == {m \in 0..n : ~ \E f : Joins(f, g, m)}
<1>1. ASSUME NEW m \in Bad, \A k \in Bad : m <= k PROVE FALSE
  <2>1. CASE m = 0
    <3>1. Joins([i \in 1..0 |-> <<>>], g, 0)
      BY DEF Joins
    <3> QED BY <2>1, <3>1
  <2>2. CASE m # 0
    <3>1. m - 1 \in 0..n /\ m - 1 \notin Bad /\ m \in 1..n
      BY <1>1, <2>2
    <3>2. PICK f : Joins(f, g, m - 1)
      BY <3>1
    <3> DEFINE h == [i \in 1..m |-> IF i < m THEN f[i] ELSE IF i = 1 THEN g[i] ELSE f[i - 1] \o g[i]]
    <3>3. ASSUME NEW i \in 1..m PROVE h[i] = IF i = 1 THEN g[i] ELSE h[i - 1] \o g[i]
      <4>1. CASE i = m
        BY <3>1, <3>3, <4>1
      <4>2. CASE i < m
        <5>1. i \in 1..(m - 1) /\ (i # 1 => i - 1 \in 1..m /\ i - 1 < m)
          BY <3>1, <4>2
        <5>2. f[i] = IF i = 1 THEN g[i] ELSE f[i - 1] \o g[i]
          BY <3>2, <5>1 DEF Joins
        <5> QED BY <4>2, <5>1, <5>2
      <4> QED BY <3>1, <4>1, <4>2
    <3>4. h = [i \in 1..m |-> IF i = 1 THEN g[i] ELSE h[i - 1] \o g[i]]
      <4>1. h = [i \in 1..m |-> h[i]]
        OBVIOUS
      <4> HIDE DEF h
      <4> QED BY <3>3, <4>1
    <3>5. Joins(h, g, m)
      <4> HIDE DEF h
      <4> QED BY <3>4 DEF Joins
    <3> QED BY <3>5
  <2> QED BY <2>1, <2>2
<1>2. Bad = {}
  <2>1. Bad \in SUBSET Nat
    OBVIOUS
  <2>2. ASSUME Bad # {} PROVE \E m \in Bad : \A k \in Bad : m <= k
    <3> HIDE DEF Bad
    <3> QED BY <2>1, <2>2, LeastNatural
  <2> QED BY <1>1, <2>2
<1> QED BY <1>2

(* Flattened, a list of parts has whatever joining one part after another   *)
(* keeps: Inv[i] after the first i.                                        *)
LEMMA FlattenKeeps ==
  ASSUME NEW n \in Nat, NEW g, g = [k \in 1..n |-> g[k]],
         NEW Inv, <<>> \in Inv[0],
         n >= 1 => g[1] \in Inv[1],
         \A i \in 2..n : \A s \in Inv[i - 1] : s \o g[i] \in Inv[i]
  PROVE  Ext!FlattenSeq(g) \in Inv[n]
<1>1. Len(g) = n /\ (n = 0 => g = <<>>)
  <2>1. g \in Seq({g[k] : k \in 1..n}) /\ DOMAIN g = 1..n
    <3> DEFINE T == {g[k] : k \in 1..n}
    <3>1. g \in [1..n -> T]
      OBVIOUS
    <3>2. DOMAIN g = 1..n
      OBVIOUS
    <3> HIDE DEF T
    <3>3. g \in Seq(T)
      BY <3>1, SeqDef
    <3> QED BY <3>2, <3>3 DEF T
  <2> QED BY <2>1
<1>2. CASE n = 0
  <2>1. Ext!FlattenSeq(g) = g
    BY <1>1, <1>2 DEF Ext!FlattenSeq
  <2> QED BY <1>1, <1>2, <2>1
<1>3. CASE n # 0
  <2>1. Ext!FlattenSeq(g) = (CHOOSE f : Joins(f, g, n))[n]
    BY <1>1, <1>3 DEF Ext!FlattenSeq, Joins
  <2>2. PICK f : f = (CHOOSE h : Joins(h, g, n)) /\ Joins(f, g, n)
    BY JoinsExist
  <2> DEFINE Bad == {i \in 1..n : f[i] \notin Inv[i]}
  <2>3. ASSUME NEW i \in Bad, \A k \in Bad : i <= k PROVE FALSE
    <3>1. f[i] = IF i = 1 THEN g[i] ELSE f[i - 1] \o g[i]
      BY <2>2 DEF Joins
    <3>2. CASE i = 1
      BY <1>3, <2>3, <3>1, <3>2
    <3>3. CASE i # 1
      <4>1. i \in 2..n /\ i - 1 \in 1..n /\ ~ (i <= i - 1)
        BY <3>3
      <4>2. f[i - 1] \in Inv[i - 1]
        BY <2>3, <4>1
      <4>3. f[i - 1] \o g[i] \in Inv[i]
        BY <4>1, <4>2
      <4>4. f[i] \in Inv[i]
        BY <3>1, <3>3, <4>3
      <4> QED BY <2>3, <4>4
    <3> QED BY <3>2, <3>3
  <2>4. Bad = {}
    <3>1. Bad \in SUBSET Nat
      OBVIOUS
    <3>2. ASSUME Bad # {} PROVE \E m \in Bad : \A k \in Bad : m <= k
      <4> HIDE DEF Bad
      <4> QED BY <3>1, <3>2, LeastNatural
    <3> QED BY <2>3, <3>2
  <2>5. n \in 1..n
    BY <1>3
  <2> QED BY <2>1, <2>2, <2>4, <2>5
<1> QED BY <1>2, <1>3

(* So does a list that is joined of parts that all have it.                *)
LEMMA FlattenAll ==
  ASSUME NEW n \in Nat, NEW g, g = [k \in 1..n |-> g[k]],
         NEW B, <<>> \in B, \A s, t \in B : s \o t \in B, \A k \in 1..n : g[k] \in B
  PROVE  Ext!FlattenSeq(g) \in B
<1> DEFINE Inv == [i \in 0..n |-> B]
<1>1. \A i \in 0..n : Inv[i] = B
  OBVIOUS
<1>2. <<>> \in Inv[0] /\ (n >= 1 => g[1] \in Inv[1])
  BY <1>1
<1>3. \A i \in 2..n : \A s \in Inv[i - 1] : s \o g[i] \in Inv[i]
  <2>1. \A i \in 2..n : i - 1 \in 0..n /\ i \in 0..n /\ i \in 1..n
    OBVIOUS
  <2> HIDE DEF Inv
  <2> QED BY <1>1, <2>1
<1>4. Ext!FlattenSeq(g) \in Inv[n]
  <2> HIDE DEF Inv
  <2> QED BY <1>2, <1>3, FlattenKeeps
<1> QED BY <1>1, <1>4

----------------------------------------------------------------------------
(* Parts of scripts.                                                       *)

(* Steps of a part of a script. *)
Inner(x) ==
  /\ Named(x) /\ ~ TurnsDown(x)
  /\ x.do # "refuse"
  /\ x.do = "convert" => x.caught = "result"

Part(p, s) ==
  /\ \E E : s \in Seq(E)
  /\ Answered(p, s)
  /\ \A k \in 1..Len(s) : Inner(s[k])

(* Steps that one result is to answer for: what follows one that may fail  *)
(* is local.                                                               *)
Answerable(p, s) ==
  /\ \E E : s \in Seq(E)
  /\ \A k \in 1..Len(s) :
       /\ Named(s[k]) /\ s[k].do # "refuse"
       /\ s[k].do = "agree" => s[k].place[1] \notin BeforeStart \union {"member preflight"}
       /\ s[k].do \in {"stage", "convert"} => \A i \in (k + 1)..Len(s) : ~ Meeting(p, s[i])

(* Agreements with certain names, and what parts and fronts may have.      *)
Agreement(names) == [do : {"agree"}, place : names \X Int, caught : {"no"}]

InnerName ==
  {"selection", "input", "threshold", "other input", "original route", "reduced route", "stages",
   "distributed", "route", "directions", "kinds", "layout stages", "graph", "pencils",
   "reduced input", "real pencils", "complex pencils", "lines",
   "transition allocation", "plan construction", "forward plan", "forward requirements",
   "backward plan", "backward requirements", "local plans",
   "validation preparation", "max reduction", "sum reduction", "spectrum"}
MemberName == InnerName \union {"header", "ready", "minimum", "maximum", "preflight"}
AnyName == MemberName \union {"member preflight", "transport"}

ResultName ==
  {"stage", "transition result", "transitions", "conversion", "converted", "zero", "callback",
   "member execution"}

(* The steps of two parts one after the other.                             *)
LEMMA JoinedSteps ==
  ASSUME NEW s, NEW t, \E E : s \in Seq(E), \E E : t \in Seq(E)
  PROVE  /\ \E E : s \o t \in Seq(E)
         /\ Len(s) \in Nat /\ Len(t) \in Nat /\ Len(s \o t) = Len(s) + Len(t)
         /\ \A k \in 1..Len(s) : (s \o t)[k] = s[k]
         /\ \A k \in 1..Len(t) : (s \o t)[Len(s) + k] = t[k]
         /\ \A k \in 1..(Len(s) + Len(t)) : k \in 1..Len(s) \/ (k - Len(s) \in 1..Len(t) /\ (s \o t)[k] = t[k - Len(s)])
<1>1. PICK E : s \in Seq(E)
  OBVIOUS
<1>2. PICK F : t \in Seq(F)
  OBVIOUS
<1>3. s \in Seq(E \union F) /\ t \in Seq(E \union F)
  BY <1>1, <1>2
<1>4. s \o t \in Seq(E \union F)
  BY <1>3
<1> QED BY <1>3, <1>4

(* Joining is associative.                                                 *)
LEMMA JoinsAssociate ==
  ASSUME NEW s, NEW t, NEW u, \E E : s \in Seq(E), \E E : t \in Seq(E), \E E : u \in Seq(E)
  PROVE  (s \o t) \o u = s \o (t \o u)
<1>1. PICK E : s \in Seq(E)
  OBVIOUS
<1>2. PICK F : t \in Seq(F)
  OBVIOUS
<1>3. PICK G : u \in Seq(G)
  OBVIOUS
<1> DEFINE U == (E \union F) \union G
<1>4. s \in Seq(U) /\ t \in Seq(U) /\ u \in Seq(U)
  BY <1>1, <1>2, <1>3
<1> HIDE DEF U
<1> QED BY ONLY <1>4, ConcatAssociative

(* A join is answered for when each part is.                               *)
LEMMA JoinAnswered ==
  ASSUME NEW p, NEW s, NEW t, \E E : s \in Seq(E), \E E : t \in Seq(E), Answered(p, s), Answered(p, t)
  PROVE  Answered(p, s \o t)
<1> DEFINE u == s \o t
           m == Len(s)
           n == Len(t)
<1>1. /\ m \in Nat /\ n \in Nat /\ Len(u) = m + n
      /\ \A k \in 1..m : u[k] = s[k]
      /\ \A k \in 1..n : u[m + k] = t[k]
      /\ \A k \in 1..(m + n) : k \in 1..m \/ (k - m \in 1..n /\ u[k] = t[k - m])
  BY JoinedSteps
<1> HIDE DEF u, m, n
<1>2. ASSUME NEW k \in 1..Len(u), MayFail(u[k])
      PROVE  \E h \in (k + 1)..Len(u) : u[h].do = "result" /\ \A i \in (k + 1)..(h - 1) : ~ Meeting(p, u[i])
  <2>1. CASE k \in 1..m
    <3>1. PICK h \in (k + 1)..m : s[h].do = "result" /\ \A i \in (k + 1)..(h - 1) : ~ Meeting(p, s[i])
      BY <1>1, <1>2, <2>1 DEF Answered, m
    <3>2. h \in 1..m /\ h \in (k + 1)..Len(u) /\ \A i \in (k + 1)..(h - 1) : i \in 1..m
      BY <1>1, <2>1
    <3>3. u[h].do = "result" /\ \A i \in (k + 1)..(h - 1) : ~ Meeting(p, u[i])
      BY <1>1, <3>1, <3>2
    <3> QED BY <3>2, <3>3
  <2>2. CASE k \notin 1..m
    <3>0. k - m \in 1..n /\ u[k] = t[k - m]
      BY <1>1, <2>2
    <3>1. PICK h \in (k - m + 1)..n : t[h].do = "result" /\ \A i \in (k - m + 1)..(h - 1) : ~ Meeting(p, t[i])
      BY <1>2, <3>0 DEF Answered, n
    <3>2. h \in 1..n /\ m + h \in (k + 1)..Len(u)
      BY <1>1, <3>0
    <3>3. ASSUME NEW i \in (k + 1)..(m + h - 1) PROVE ~ Meeting(p, u[i])
      <4>1. i - m \in (k - m + 1)..(h - 1) /\ i - m \in 1..n /\ m + (i - m) = i
        BY <1>1, <3>0, <3>2
      <4>2. u[i] = t[i - m]
        BY <1>1, <4>1
      <4> QED BY <3>1, <4>1, <4>2
    <3>4. u[m + h].do = "result"
      BY <1>1, <3>1, <3>2
    <3> QED BY <1>1, <3>2, <3>3, <3>4
  <2> QED BY <2>1, <2>2
<1> QED BY <1>2 DEF Answered, u

(* A join of parts is a part.                                              *)
LEMMA JoinParts ==
  ASSUME NEW p, NEW s, NEW t, Part(p, s), Part(p, t)
  PROVE  Part(p, s \o t)
<1>1. (\E E : s \in Seq(E)) /\ (\E E : t \in Seq(E)) /\ Answered(p, s) /\ Answered(p, t)
  BY DEF Part
<1>2. Answered(p, s \o t)
  BY <1>1, JoinAnswered
<1>3. \A k \in 1..Len(s \o t) : Inner((s \o t)[k])
  <2>1. /\ Len(s \o t) = Len(s) + Len(t)
        /\ \A k \in 1..Len(s) : (s \o t)[k] = s[k]
        /\ \A k \in 1..(Len(s) + Len(t)) : k \in 1..Len(s) \/ (k - Len(s) \in 1..Len(t) /\ (s \o t)[k] = t[k - Len(s)])
    BY <1>1, JoinedSteps
  <2> QED BY <2>1 DEF Part
<1> QED BY <1>1, <1>2, <1>3, JoinedSteps DEF Part

(* Steps at which the spectrum of member m is looked at.                   *)
Sees(s, m) == \E k \in 1..Len(s) : s[k].do = "agree" /\ s[k].place = <<"spectrum", m>>

(* They stay whatever is done before and after them.                       *)
LEMMA JoinSees ==
  ASSUME NEW s, NEW t, \E E : s \in Seq(E), \E E : t \in Seq(E), NEW m, Sees(s, m) \/ Sees(t, m)
  PROVE  Sees(s \o t, m)
<1>1. /\ Len(s) \in Nat /\ Len(t) \in Nat /\ Len(s \o t) = Len(s) + Len(t)
      /\ \A k \in 1..Len(s) : (s \o t)[k] = s[k]
      /\ \A k \in 1..Len(t) : (s \o t)[Len(s) + k] = t[k]
  BY JoinedSteps
<1>2. CASE Sees(s, m)
  <2>1. PICK k \in 1..Len(s) : s[k].do = "agree" /\ s[k].place = <<"spectrum", m>>
    BY <1>2 DEF Sees
  <2>2. k \in 1..Len(s \o t) /\ (s \o t)[k] = s[k]
    BY <1>1
  <2> QED BY <2>1, <2>2 DEF Sees
<1>3. CASE Sees(t, m)
  <2>1. PICK k \in 1..Len(t) : t[k].do = "agree" /\ t[k].place = <<"spectrum", m>>
    BY <1>3 DEF Sees
  <2>2. Len(s) + k \in 1..Len(s \o t) /\ (s \o t)[Len(s) + k] = t[k]
    BY <1>1
  <2> QED BY <2>1, <2>2 DEF Sees
<1> QED BY <1>2, <1>3

(* A join sees what one of its parts sees.                                 *)
LEMMA JoinPartSees ==
  ASSUME NEW p, NEW s, NEW t, Part(p, s), Part(p, t), NEW m, Sees(s, m) \/ Sees(t, m)
  PROVE  Part(p, s \o t) /\ Sees(s \o t, m)
<1>1. (\E E : s \in Seq(E)) /\ (\E E : t \in Seq(E))
  BY DEF Part
<1> QED BY <1>1, JoinSees, JoinParts

(* Nothing to do is a part.                                                *)
LEMMA NoPart ==
  ASSUME NEW p
  PROVE  Part(p, <<>>)
<1>1. <<>> \in Seq({}) /\ Len(<<>>) = 0
  OBVIOUS
<1> QED BY <1>1 DEF Part, Answered

(* A choice of parts is a part.                                            *)
LEMMA PartIf ==
  ASSUME NEW p, NEW c \in BOOLEAN, NEW s, c => Part(p, s)
  PROVE  Part(p, If(c, s))
BY NoPart DEF If

(* Parts for a range of indexes.                                           *)
LEMMA FlattenParts ==
  ASSUME NEW p, NEW n \in Int, NEW g, g = [k \in 1..n |-> g[k]], \A k \in 1..n : Part(p, g[k])
  PROVE  Part(p, Ext!FlattenSeq(g))
<1> DEFINE U == UNION {{g[k][i] : i \in 1..Len(g[k])} : k \in 1..n}
           B == {s \in Seq(U) : Part(p, s)}
<1>1. \A k \in 1..n : g[k] \in B
  <2> SUFFICES ASSUME NEW k \in 1..n PROVE g[k] \in Seq(U)
    OBVIOUS
  <2>1. PICK E : g[k] \in Seq(E)
    BY DEF Part
  <2>2. \A i \in 1..Len(g[k]) : g[k][i] \in U
    OBVIOUS
  <2> HIDE DEF U
  <2> QED BY <2>1, <2>2
<1>2. <<>> \in B
  BY NoPart
<1>3. \A s, t \in B : s \o t \in B
  BY JoinParts
<1>4. PICK m \in Nat : 1..n = 1..m
  <2>1. CASE n >= 0
    BY <2>1
  <2>2. CASE n < 0
    <3>1. 1..n = 1..0
      BY <2>2
    <3> QED BY <3>1
  <2> QED BY <2>1, <2>2
<1>5. Ext!FlattenSeq(g) \in B
  <2> HIDE DEF B
  <2>1. g = [k \in 1..m |-> g[k]] /\ \A k \in 1..m : g[k] \in B
    BY <1>1, <1>4
  <2> QED BY <1>2, <1>3, <2>1, FlattenAll
<1> QED BY <1>5

(* Agreements for a range of indexes.                                      *)
LEMMA FlattenSteps ==
  ASSUME NEW X, NEW n \in Int, NEW g, g = [k \in 1..n |-> g[k]], \A k \in 1..n : g[k] \in Seq(X)
  PROVE  Ext!FlattenSeq(g) \in Seq(X)
<1>1. <<>> \in Seq(X) /\ \A s, t \in Seq(X) : s \o t \in Seq(X)
  OBVIOUS
<1>2. PICK m \in Nat : 1..n = 1..m
  <2>1. CASE n >= 0
    BY <2>1
  <2>2. CASE n < 0
    <3>1. 1..n = 1..0
      BY <2>2
    <3> QED BY <3>1
  <2> QED BY <2>1, <2>2
<1>3. g = [k \in 1..m |-> g[k]] /\ \A k \in 1..m : g[k] \in Seq(X)
  BY <1>2
<1> DEFINE B == Seq(X)
<1>4. <<>> \in B /\ (\A s, t \in B : s \o t \in B) /\ \A k \in 1..m : g[k] \in B
  BY <1>1, <1>3
<1> HIDE DEF B
<1>5. Ext!FlattenSeq(g) \in B
  BY <1>3, <1>4, FlattenAll
<1> QED BY <1>5 DEF B

(* Single agreements.                                                      *)
LEMMA AgreeIs ==
  ASSUME NEW names, NEW name \in names, NEW m \in Int
  PROVE  Agree(name, m) \in Agreement(names)
BY DEF Agree, Agreement

(* Agreements are parts, and one result can answer for them.               *)
LEMMA AgreementsPart ==
  ASSUME NEW p, NEW s \in Seq(Agreement(InnerName))
  PROVE  Part(p, s) /\ Answerable(p, s)
<1>1. \A k \in 1..Len(s) :
        /\ s[k].do = "agree" /\ s[k].caught = "no"
        /\ s[k].place[1] \in InnerName /\ s[k].place # OK
        /\ {"do", "place", "caught"} \subseteq DOMAIN s[k]
  <2>1. \A x \in Agreement(InnerName) :
          /\ x.do = "agree" /\ x.caught = "no" /\ x.place[1] \in InnerName /\ x.place # OK
          /\ {"do", "place", "caught"} \subseteq DOMAIN x
    <3>1. \A y \in InnerName \X Int : y[1] \in InnerName /\ y # OK
      <4>1. \A y \in InnerName \X Int : y[1] \in InnerName
        OBVIOUS
      <4>2. OK[1] = "ok" /\ "ok" \notin InnerName
        BY DEF OK, InnerName
      <4> QED BY <4>1, <4>2
    <3>2. \A x \in Agreement(InnerName) :
            /\ x.do = "agree" /\ x.caught = "no" /\ x.place \in InnerName \X Int
            /\ {"do", "place", "caught"} \subseteq DOMAIN x
      BY DEF Agreement
    <3> QED BY <3>1, <3>2
  <2>2. \A k \in 1..Len(s) : s[k] \in Agreement(InnerName)
    OBVIOUS
  <2> QED BY <2>1, <2>2
<1>2. \A k \in 1..Len(s) : Inner(s[k]) /\ ~ MayFail(s[k])
  BY <1>1 DEF Inner, MayFail, Named, Refusing, TurnsDown, InnerName, BeforeStart
<1>3. Part(p, s)
  <2>1. Answered(p, s)
    BY <1>2 DEF Answered
  <2> QED BY <1>2, <2>1 DEF Part
<1>4. Answerable(p, s)
  BY <1>1 DEF Answerable, Named, Refusing, InnerName, BeforeStart
<1> QED BY <1>3, <1>4

(* Single steps.                                                           *)
LEMMA OneStep ==
  ASSUME NEW p, NEW x, Inner(x), ~ MayFail(x)
  PROVE  Part(p, <<x>>)
<1>1. <<x>> \in Seq({x}) /\ Len(<<x>>) = 1 /\ <<x>>[1] = x
  OBVIOUS
<1>2. \A k \in 1..Len(<<x>>) : <<x>>[k] = x
  BY <1>1
<1> QED BY <1>1, <1>2 DEF Part, Answered

(* Single steps that nobody answers for are parts.                         *)
LEMMA LocalParts ==
  ASSUME NEW p
  PROVE  /\ \A i, d, from, to : Part(p, <<Stage(i, d, from, to)>>)
         /\ \A i, d, buf : Part(p, <<Move(i, d, buf)>>)
         /\ \A from, to : Part(p, <<Copy(from, to)>>)
         /\ \A buf : Part(p, <<Zero(buf)>>)
         /\ \A d, m : Part(p, <<Finish(d, m)>>)
         /\ \A name \in {"poison", "take", "put back"} : \A m : Part(p, <<InPlace(name, m)>>)
<1>1. \A i, d, from, to : Inner(Stage(i, d, from, to)) /\ ~ MayFail(Stage(i, d, from, to))
  BY DEF Stage, Inner, MayFail, Named, Refusing, TurnsDown, OK
<1>2. \A i, d, buf : Inner(Move(i, d, buf)) /\ ~ MayFail(Move(i, d, buf))
  BY DEF Move, Inner, MayFail, Named, Refusing, TurnsDown, OK
<1>3. \A from, to : Inner(Copy(from, to)) /\ ~ MayFail(Copy(from, to))
  BY DEF Copy, Inner, MayFail, Named, Refusing, TurnsDown
<1>4. \A buf : Inner(Zero(buf)) /\ ~ MayFail(Zero(buf))
  BY DEF Zero, Inner, MayFail, Named, Refusing, TurnsDown
<1>5. \A d, m : Inner(Finish(d, m)) /\ ~ MayFail(Finish(d, m))
  BY DEF Finish, Inner, MayFail, Named, Refusing, TurnsDown
<1>6. \A name \in {"poison", "take", "put back"} : \A m : Inner(InPlace(name, m)) /\ ~ MayFail(InPlace(name, m))
  BY DEF InPlace, Inner, MayFail, Named, Refusing, TurnsDown
<1> QED BY <1>1, <1>2, <1>3, <1>4, <1>5, <1>6, OneStep

(* A result is neither refused alone nor turns a call down.                *)
LEMMA ResultStep ==
  ASSUME NEW name \in ResultName, NEW m, NEW guarded
  PROVE  /\ Inner(Result(name, m)) /\ ~ MayFail(Result(name, m)) /\ Result(name, m).do = "result"
         /\ LET x == [Result(name, m) EXCEPT !.guarded = guarded]
            IN  Inner(x) /\ ~ MayFail(x) /\ x.do = "result"
BY DEF Result, Inner, MayFail, Named, Refusing, TurnsDown, OK, ResultName, Silent, Judged

(* Single steps that one result can answer for.                            *)
LEMMA OneAnswerable ==
  ASSUME NEW p, NEW x, Named(x), x.do \notin {"refuse", "agree"}
  PROVE  Answerable(p, <<x>>)
<1>1. <<x>> \in Seq({x}) /\ Len(<<x>>) = 1 /\ <<x>>[1] = x
  OBVIOUS
<1>2. \A k \in 1..Len(<<x>>) : <<x>>[k] = x /\ (k + 1)..Len(<<x>>) = {}
  BY <1>1
<1> QED BY <1>1, <1>2 DEF Answerable

(* Local steps can be answered for by a result.                            *)
LEMMA LocalAnswerable ==
  ASSUME NEW p
  PROVE  /\ \A i, d, from, to : Answerable(p, <<Stage(i, d, from, to)>>)
         /\ \A i, d, buf : Answerable(p, <<Move(i, d, buf)>>)
         /\ \A from, to : Answerable(p, <<Copy(from, to)>>)
         /\ \A buf : Answerable(p, <<Zero(buf)>>)
         /\ \A d, m : Answerable(p, <<Convert(d, m)>>)
<1>1. \A i, d, from, to : Named(Stage(i, d, from, to)) /\ Stage(i, d, from, to).do = "stage"
  BY DEF Stage, Named, Refusing, OK
<1>2. \A i, d, buf : Named(Move(i, d, buf)) /\ Move(i, d, buf).do = "move"
  BY DEF Move, Named, Refusing, OK
<1>3. \A from, to : Named(Copy(from, to)) /\ Copy(from, to).do = "copy"
  BY DEF Copy, Named, Refusing
<1>4. \A buf : Named(Zero(buf)) /\ Zero(buf).do = "zero"
  BY DEF Zero, Named, Refusing
<1>5. \A d, m : Named(Convert(d, m)) /\ Convert(d, m).do = "convert"
  BY DEF Convert, Named, Refusing, OK
<1> QED BY <1>1, <1>2, <1>3, <1>4, <1>5, OneAnswerable

(* Agreements before a part that a result can answer for.                  *)
LEMMA AgreementsBefore ==
  ASSUME NEW p, NEW s \in Seq(Agreement(InnerName)), NEW t, Answerable(p, t)
  PROVE  Answerable(p, s \o t)
<1>1. (\E E : s \in Seq(E)) /\ (\E E : t \in Seq(E))
  BY DEF Answerable
<1>2. \A k \in 1..Len(s) : s[k].do = "agree" /\ Named(s[k]) /\ s[k].place[1] \notin BeforeStart \union {"member preflight"}
  <2>1. \A x \in Agreement(InnerName) : x.do = "agree"
    BY DEF Agreement
  <2>2. \A k \in 1..Len(s) : s[k] \in Agreement(InnerName)
    OBVIOUS
  <2> QED BY <2>1, <2>2, AgreementsPart DEF Answerable
<1> DEFINE u == s \o t
           m == Len(s)
           n == Len(t)
<1>3. /\ m \in Nat /\ n \in Nat /\ Len(u) = m + n
      /\ \A k \in 1..m : u[k] = s[k]
      /\ \A k \in 1..n : u[m + k] = t[k]
      /\ \A k \in 1..(m + n) : k \in 1..m \/ (k - m \in 1..n /\ u[k] = t[k - m])
      /\ \E E : u \in Seq(E)
  BY <1>1, JoinedSteps
<1>4. \A k \in 1..n :
        /\ Named(t[k]) /\ t[k].do # "refuse"
        /\ t[k].do = "agree" => t[k].place[1] \notin BeforeStart \union {"member preflight"}
        /\ t[k].do \in {"stage", "convert"} => \A i \in (k + 1)..n : ~ Meeting(p, t[i])
  BY DEF Answerable
<1>5. \A k \in 1..m : s[k].do = "agree" /\ Named(s[k]) /\ s[k].place[1] \notin BeforeStart \union {"member preflight"}
  BY <1>2
<1> HIDE DEF u, m, n
<1>6. ASSUME NEW k \in 1..Len(u)
      PROVE  /\ Named(u[k]) /\ u[k].do # "refuse"
             /\ u[k].do = "agree" => u[k].place[1] \notin BeforeStart \union {"member preflight"}
             /\ u[k].do \in {"stage", "convert"} => \A i \in (k + 1)..Len(u) : ~ Meeting(p, u[i])
  <2>1. CASE k \in 1..m
    BY <1>3, <1>5, <2>1
  <2>2. CASE k \notin 1..m
    <3>1. k - m \in 1..n /\ u[k] = t[k - m]
      BY <1>3, <2>2
    <3>2. ASSUME NEW i \in (k + 1)..Len(u), t[k - m].do \in {"stage", "convert"} PROVE ~ Meeting(p, u[i])
      <4>1. i - m \in (k - m + 1)..n /\ i - m \in 1..n /\ m + (i - m) = i
        BY <1>3, <3>1
      <4>2. u[i] = t[i - m]
        BY <1>3, <4>1
      <4> QED BY <1>4, <3>1, <3>2, <4>1, <4>2
    <3> QED BY <1>4, <3>1, <3>2
  <2> QED BY <2>1, <2>2
<1> QED BY <1>3, <1>6 DEF Answerable, u

(* What a result answers for, and the result.                              *)
LEMMA CaughtStep ==
  ASSUME NEW p, NEW y, Named(y), NEW c, c = [y EXCEPT !.caught = "result"]
  PROVE  /\ Named(c) /\ c.do = y.do /\ c.caught = "result"
         /\ c.do \in Refusing => c.place = y.place
         /\ Meeting(p, c) = Meeting(p, y)
<1>1. /\ DOMAIN c = DOMAIN y /\ c.do = y.do /\ c.caught = "result"
      /\ "place" \in DOMAIN y => c.place = y.place
      /\ "i" \in DOMAIN y => c.i = y.i
  BY DEF Named
<1>2. Named(c) /\ (c.do \in Refusing => c.place = y.place)
  BY <1>1 DEF Named, Refusing
<1>3. Meeting(p, c) = Meeting(p, y)
  BY <1>1 DEF Named, Meeting
<1> QED BY <1>1, <1>2, <1>3

(* Caught steps with their result after them are a part.                   *)
LEMMA CaughtPart ==
  ASSUME NEW p, NEW s, Answerable(p, s), NEW x, x.do = "result", Inner(x), ~ MayFail(x)
  PROVE  Part(p, Caught(s) \o <<x>>)
<1> DEFINE c == Caught(s)
           u == c \o <<x>>
           m == Len(s)
<1>1. PICK E : s \in Seq(E)
  BY DEF Answerable
<1>2. /\ m \in Nat /\ DOMAIN s = 1..m
      /\ c = [k \in 1..m |-> [s[k] EXCEPT !.caught = "result"]]
  BY <1>1 DEF Caught
<1>3. \A k \in 1..m :
        /\ Named(s[k]) /\ s[k].do # "refuse"
        /\ s[k].do = "agree" => s[k].place[1] \notin BeforeStart \union {"member preflight"}
        /\ s[k].do \in {"stage", "convert"} => \A i \in (k + 1)..m : ~ Meeting(p, s[i])
  BY DEF Answerable
<1>4. ASSUME NEW k \in 1..m
      PROVE  /\ Named(c[k]) /\ c[k].do = s[k].do /\ c[k].caught = "result"
             /\ c[k].do \in Refusing => c[k].place = s[k].place
             /\ Meeting(p, c[k]) = Meeting(p, s[k])
  <2>1. PICK y, z : y = s[k] /\ z = c[k] /\ z = [y EXCEPT !.caught = "result"]
    BY <1>2
  <2>2. Named(y)
    <3> HIDE DEF c, m
    <3> QED BY <1>3, <2>1
  <2>3. /\ Named(z) /\ z.do = y.do /\ z.caught = "result"
        /\ z.do \in Refusing => z.place = y.place
        /\ Meeting(p, z) = Meeting(p, y)
    BY <2>1, <2>2, CaughtStep
  <2> HIDE DEF c, m
  <2> QED BY <2>1, <2>3
<1>5. c \in Seq({c[k] : k \in 1..m}) /\ Len(c) = m
  <2> DEFINE T == {c[k] : k \in 1..m}
  <2>1. c \in [1..m -> T] /\ DOMAIN c = 1..m
    BY <1>2
  <2>2. m \in Nat
    BY <1>2
  <2> HIDE DEF T, c, m
  <2>3. c \in Seq(T)
    BY <2>1, <2>2, SeqDef
  <2> QED BY <2>1, <2>2, <2>3 DEF T
<1>6. <<x>> \in Seq({x}) /\ Len(<<x>>) = 1 /\ <<x>>[1] = x
  OBVIOUS
<1>7. /\ m \in Nat /\ Len(u) = m + 1 /\ \E F : u \in Seq(F)
      /\ \A k \in 1..m : u[k] = c[k]
      /\ u[m + 1] = x
  <2>1. m \in Nat
    BY <1>2
  <2> HIDE DEF c, m, u
  <2>2. PICK y : y = <<x>>
    OBVIOUS
  <2>3. (\E F : c \in Seq(F)) /\ (\E F : y \in Seq(F))
    BY <1>5, <1>6, <2>2
  <2>4. /\ \E F : c \o y \in Seq(F)
        /\ Len(c \o y) = Len(c) + Len(y)
        /\ \A k \in 1..Len(c) : (c \o y)[k] = c[k]
        /\ \A k \in 1..Len(y) : (c \o y)[Len(c) + k] = y[k]
    BY <2>3, JoinedSteps
  <2> QED BY <1>5, <1>6, <2>1, <2>2, <2>4 DEF u
<1> HIDE DEF u, c, m
<1>8. ASSUME NEW k \in 1..Len(u) PROVE Inner(u[k])
  <2>1. CASE k \in 1..m
    <3>1. Named(c[k]) /\ c[k].do # "refuse" /\ c[k].caught = "result"
      BY <1>3, <1>4, <2>1
    <3>2. ~ TurnsDown(c[k])
      BY <1>3, <1>4, <2>1 DEF TurnsDown, Refusing
    <3> QED BY <1>7, <2>1, <3>1, <3>2 DEF Inner
  <2>2. CASE k \notin 1..m
    <3>1. k = m + 1
      BY <1>7, <2>2
    <3> QED BY <1>7, <3>1
  <2> QED BY <2>1, <2>2
<1>9. ASSUME NEW k \in 1..Len(u), MayFail(u[k])
      PROVE  \E h \in (k + 1)..Len(u) : u[h].do = "result" /\ \A i \in (k + 1)..(h - 1) : ~ Meeting(p, u[i])
  <2>1. k \in 1..m
    <3>1. k # m + 1
      BY <1>7, <1>9
    <3> QED BY <1>7, <3>1
  <2>2. s[k].do \in {"stage", "convert"}
    BY <1>4, <1>7, <1>9, <2>1 DEF MayFail
  <2>3. ASSUME NEW i \in (k + 1)..m PROVE ~ Meeting(p, u[i])
    <3>1. i \in 1..m
      BY <2>1
    <3> QED BY <1>3, <1>4, <1>7, <2>1, <2>2, <3>1
  <2>4. m + 1 \in (k + 1)..Len(u) /\ u[m + 1].do = "result" /\ \A i \in (k + 1)..((m + 1) - 1) : i \in (k + 1)..m
    BY <1>7, <2>1
  <2> QED BY <2>3, <2>4
<1> QED BY <1>7, <1>8, <1>9 DEF Part, Answered, u, c

(* Caught steps are a sequence.                                            *)
LEMMA CaughtSequence ==
  ASSUME NEW E, NEW s \in Seq(E)
  PROVE  Caught(s) \in Seq({Caught(s)[k] : k \in DOMAIN s})
<1> DEFINE T == {Caught(s)[k] : k \in DOMAIN s}
<1>1. Caught(s) \in [1..Len(s) -> T] /\ Len(s) \in Nat
  BY DEF Caught
<1> HIDE DEF T
<1>2. Caught(s) \in Seq(T)
  BY <1>1, SeqDef
<1> QED BY <1>2 DEF T

(* A result answers for them, too.                                         *)
LEMMA CaughtSees ==
  ASSUME NEW p, NEW s, Part(p, s), NEW m, Sees(s, m)
  PROVE  (\E E : Caught(s) \in Seq(E)) /\ Sees(Caught(s), m)
<1>1. PICK E : s \in Seq(E)
  BY DEF Part
<1>2. PICK k \in 1..Len(s) : s[k].do = "agree" /\ s[k].place = <<"spectrum", m>>
  BY DEF Sees
<1>3. PICK c : c = Caught(s)
  OBVIOUS
<1>4. c \in Seq({c[j] : j \in DOMAIN s}) /\ Len(c) = Len(s)
  <2>1. Len(Caught(s)) = Len(s)
    <3>1. DOMAIN Caught(s) = DOMAIN s
      BY DEF Caught
    <3>2. Caught(s) \in Seq({Caught(s)[j] : j \in DOMAIN s})
      BY <1>1, CaughtSequence
    <3>3. PICK F : Caught(s) \in Seq(F)
      BY <3>2
    <3> QED BY <1>1, <3>1, <3>3
  <2> QED BY <1>1, <1>3, <2>1, CaughtSequence
<1>5. PICK y, z : y = s[k] /\ z = c[k] /\ z = [y EXCEPT !.caught = "result"]
  <2>1. k \in DOMAIN s
    BY <1>1
  <2>2. c = [j \in DOMAIN s |-> [s[j] EXCEPT !.caught = "result"]]
    BY <1>3 DEF Caught
  <2> QED BY <2>1, <2>2
<1>6. Named(y)
  BY <1>2, <1>5 DEF Part, Inner
<1>7. z.do = y.do /\ (z.do \in Refusing => z.place = y.place)
  BY <1>5, <1>6, CaughtStep
<1>8. c[k].do = "agree" /\ c[k].place = <<"spectrum", m>>
  BY <1>2, <1>5, <1>7 DEF Refusing
<1> QED BY <1>2, <1>3, <1>4, <1>8 DEF Sees

(* What is tried, with its result, is a part.                              *)
LEMMA TryPart ==
  ASSUME NEW p, NEW s, Answerable(p, s), NEW name \in ResultName, NEW m
  PROVE  Part(p, Try(s, name, m))
<1>1. PICK E : s \in Seq(E)
  BY DEF Answerable
<1>2. Caught(s) \in Seq({Caught(s)[k] : k \in DOMAIN s})
  BY <1>1, CaughtSequence
<1>3. Try(s, name, m) = Caught(s) \o <<Result(name, m)>>
  BY <1>2 DEF Try
<1> QED BY <1>3, CaughtPart, ResultStep

(* Trying steps that look at a spectrum looks at it.                       *)
LEMMA TrySees ==
  ASSUME NEW p, NEW s, Part(p, s), NEW m, Sees(s, m), NEW name, NEW i
  PROVE  Sees(Try(s, name, i), m)
<1>1. PICK E : s \in Seq(E)
  BY DEF Part
<1>2. Caught(s) \in Seq({Caught(s)[k] : k \in DOMAIN s})
  BY <1>1, CaughtSequence
<1>3. Try(s, name, i) = Caught(s) \o <<Result(name, i)>>
  BY <1>2 DEF Try
<1>4. \E F : <<Result(name, i)>> \in Seq(F)
  <2>1. <<Result(name, i)>> \in Seq({Result(name, i)})
    OBVIOUS
  <2> QED BY <2>1
<1>5. Sees(Caught(s), m)
  BY CaughtSees
<1>6. \E F : Caught(s) \in Seq(F)
  BY <1>2
<1>7. Sees(Caught(s) \o <<Result(name, i)>>, m)
  BY <1>4, <1>5, <1>6, JoinSees
<1> QED BY <1>3, <1>7

(* A transition with its callback.                                         *)
LEMMA OverlappedPart ==
  ASSUME NEW overwritten, NEW i, NEW direction, NEW buf, NEW callback,
         Answerable(plan, callback), Part(plan, callback)
  PROVE  Part(plan, OverlappedInto(overwritten, i, direction, buf, callback))
<1> DEFINE overwrite == [do |-> "overwrite", bufs |-> overwritten, caught |-> "no"]
           exchange == [Move(i, direction, buf) EXCEPT !.do = "exchange"]
           answer == [Result("callback", i) EXCEPT !.guarded = overwritten \union {buf}]
<1>1. Part(plan, <<overwrite>>)
  <2>1. Inner(overwrite) /\ ~ MayFail(overwrite)
    BY DEF Inner, MayFail, Named, Refusing, TurnsDown
  <2> QED BY <2>1, OneStep
<1>2. Part(plan, <<exchange>>)
  <2>1. Inner(exchange) /\ ~ MayFail(exchange)
    BY DEF Move, Inner, MayFail, Named, Refusing, TurnsDown, OK
  <2> QED BY <2>1, OneStep
<1>3. Part(plan, Caught(callback) \o <<answer>>)
  <2>1. "callback" \in ResultName
    BY DEF ResultName
  <2>2. Inner(answer) /\ ~ MayFail(answer) /\ answer.do = "result"
    BY <2>1, ResultStep
  <2> HIDE DEF answer
  <2> QED BY <2>2, CaughtPart
<1>4. Part(plan, If(overwritten # {}, <<overwrite>>))
  BY <1>1, PartIf
<1>5. Part(plan, <<Move(i, direction, buf)>> \o callback)
  BY LocalParts, JoinParts
<1>6. Part(plan, ((If(overwritten # {}, <<overwrite>>) \o <<exchange>>) \o Caught(callback)) \o <<answer>>)
  <2> DEFINE first == If(overwritten # {}, <<overwrite>>) \o <<exchange>>
             c == Caught(callback)
             last == <<answer>>
  <2>1. Part(plan, first)
    BY <1>2, <1>4, JoinParts
  <2>2. Part(plan, first \o (c \o last))
    BY <1>3, <2>1, JoinParts
  <2>3. (\E E : first \in Seq(E)) /\ (\E E : c \in Seq(E)) /\ (\E E : last \in Seq(E))
    <3>1. PICK E : callback \in Seq(E)
      BY DEF Part
    <3>2. c \in Seq({c[k] : k \in DOMAIN callback})
      BY <3>1, CaughtSequence
    <3>3. last \in Seq({answer})
      OBVIOUS
    <3> QED BY <2>1, <3>2, <3>3 DEF Part
  <2> HIDE DEF first, c, last
  <2>4. (first \o c) \o last = first \o (c \o last)
    BY <2>3, JoinsAssociate
  <2> QED BY <2>2, <2>4 DEF first, c, last
<1> QED BY <1>5, <1>6 DEF OverlappedInto

(* An overlapped stage looks at what its own steps look at.                *)
LEMMA OverlappedSees ==
  ASSUME NEW i, NEW direction, NEW buf, NEW callback, Part(plan, callback), NEW m, Sees(callback, m)
  PROVE  Sees(Overlapped(i, direction, buf, callback), m)
<1> DEFINE c == Caught(callback)
           first == If({} # {}, <<[do |-> "overwrite", bufs |-> {}, caught |-> "no"]>>) \o
                      <<[Move(i, direction, buf) EXCEPT !.do = "exchange"]>>
           last == <<[Result("callback", i) EXCEPT !.guarded = {} \union {buf}]>>
<1>1. (\E E : c \in Seq(E)) /\ Sees(c, m)
  BY CaughtSees
<1>2. (\E E : first \in Seq(E)) /\ (\E E : last \in Seq(E))
  <2> DEFINE x == [Move(i, direction, buf) EXCEPT !.do = "exchange"]
             y == [Result("callback", i) EXCEPT !.guarded = {} \union {buf}]
  <2>1. first = <<>> \o <<x>>
    BY DEF If
  <2>2. last \in Seq({y})
    OBVIOUS
  <2>3. <<>> \o <<x>> \in Seq({x})
    <3> HIDE DEF x
    <3> QED OBVIOUS
  <2> QED BY <2>1, <2>2, <2>3
<1>3. Overlapped(i, direction, buf, callback) =
        IF plan.transition[i] = "distributed" THEN (first \o c) \o last ELSE <<Move(i, direction, buf)>> \o callback
  BY DEF Overlapped, OverlappedInto
<1> HIDE DEF first, c, last
<1>4. Sees(first \o c, m) /\ \E E : first \o c \in Seq(E)
  BY <1>1, <1>2, JoinSees, JoinedSteps
<1>5. Sees((first \o c) \o last, m)
  BY <1>2, <1>4, JoinSees
<1>6. Sees(<<Move(i, direction, buf)>> \o callback, m)
  BY LocalParts, JoinPartSees
<1> QED BY <1>3, <1>5, <1>6

(* Two parts make a part.                                                  *)
LEMMA TwoParts ==
  ASSUME NEW p, NEW x, NEW y, Part(p, <<x>>), Part(p, <<y>>)
  PROVE  Part(p, <<x, y>>)
<1>1. <<x, y>> = <<x>> \o <<y>>
  <2>1. PICK a, b, c : a = <<x>> /\ b = <<y>> /\ c = <<x, y>>
    OBVIOUS
  <2>2. a \in Seq({x, y}) /\ b \in Seq({x, y}) /\ Len(a) = 1 /\ Len(b) = 1 /\ a[1] = x /\ b[1] = y
    BY <2>1
  <2>3. c \in Seq({x, y}) /\ Len(c) = 2 /\ c[1] = x /\ c[2] = y
    BY <2>1
  <2>4. a \o b \in Seq({x, y}) /\ Len(a \o b) = 2 /\ (a \o b)[1] = x /\ (a \o b)[2] = y
    <3>1. /\ Len(a \o b) = Len(a) + Len(b) /\ a \o b \in Seq({x, y})
          /\ \A k \in 1..Len(a) : (a \o b)[k] = a[k]
          /\ \A k \in 1..Len(b) : (a \o b)[Len(a) + k] = b[k]
      BY <2>2, JoinedSteps
    <3> QED BY <2>2, <3>1
  <2>5. c = a \o b
    BY <2>3, <2>4
  <2> QED BY <2>1, <2>5
<1> QED BY <1>1, JoinParts

(* Numbers of stages and the boundary of a plan.                           *)
LEMMA PlanType ==
  ASSUME plan \in Plans
  PROVE  /\ Last \in Nat /\ Boundary \in 0..Last /\ plan.chunks \in Nat /\ Boundary \in Nat
         /\ plan.transition \in [0..(Last - 1) -> {"distributed", "local", "identity"}]
         /\ plan.family \in {"c2c", "r2r", "r2c", "mixed_c2c", "mixed_r2c"}
BY PlanAssumption DEF Last, Boundary

(* A transition and the stage that follows it, or is its callback.         *)
LEMMA MoveParts ==
  /\ \A i, j, d, buf, from, to : Part(plan, <<Move(i, d, buf), Stage(j, d, from, to)>>)
  /\ \A c \in BOOLEAN : \A i, j, d, buf, from, to : Part(plan, <<Move(i, d, buf)>> \o If(c, <<Stage(j, d, from, to)>>))
  /\ \A i, j, d, buf, from, to : Part(plan, Overlapped(i, d, buf, <<Stage(j, d, from, to)>>))
  /\ \A W, i, j, d, buf, from, to : Part(plan, OverlappedInto(W, i, d, buf, <<Stage(j, d, from, to)>>))
<1>1. \A i, j, d, buf, from, to : Part(plan, <<Move(i, d, buf), Stage(j, d, from, to)>>)
  BY LocalParts, TwoParts
<1>2. ASSUME NEW c \in BOOLEAN, NEW i, NEW j, NEW d, NEW buf, NEW from, NEW to
      PROVE  Part(plan, <<Move(i, d, buf)>> \o If(c, <<Stage(j, d, from, to)>>))
  <2>1. Part(plan, <<Move(i, d, buf)>>) /\ Part(plan, If(c, <<Stage(j, d, from, to)>>))
    BY LocalParts, PartIf
  <2> QED BY <2>1, JoinParts
<1>3. \A W, i, j, d, buf, from, to : Part(plan, OverlappedInto(W, i, d, buf, <<Stage(j, d, from, to)>>))
  BY LocalParts, LocalAnswerable, OverlappedPart
<1>4. \A i, j, d, buf, from, to : Part(plan, Overlapped(i, d, buf, <<Stage(j, d, from, to)>>))
  BY <1>3 DEF Overlapped
<1> QED BY <1>1, <1>2, <1>3, <1>4

(* The stages after the first one, forward (C2C).                          *)
LEMMA ForwardTailPart ==
  ASSUME plan \in Plans, NEW first \in Nat, NEW destination
  PROVE  Part(plan, ForwardTail(first, destination))
<1> DEFINE F(i) == <<Move(i, "forward", Intermediate),
                     Stage(i + 1, "forward", Intermediate,
                           IF i + 1 = Last THEN destination ELSE Intermediate)>>
           n == Last - 1 - first + 1
           g == [k \in 1..n |-> F(first + k - 1)]
<1>1. ForwardTail(first, destination) =
        IF first = Last THEN <<Copy(Intermediate, destination)>> ELSE Ext!FlattenSeq(g)
  BY DEF ForwardTail, Up
<1>2. n \in Int /\ \A k \in 1..n : Part(plan, g[k])
  BY PlanType, MoveParts
<1>3. Part(plan, Ext!FlattenSeq(g))
  <2>1. g = [k \in 1..n |-> g[k]]
    OBVIOUS
  <2> HIDE DEF n, g
  <2> QED BY <1>2, <2>1, FlattenParts
<1> QED BY <1>1, <1>3, LocalParts

(* The stages before the last one, inverse (C2C).                          *)
LEMMA InverseTailPart ==
  ASSUME plan \in Plans, NEW first \in Nat, NEW source
  PROVE  Part(plan, InverseTail(first, source))
<1> DEFINE F(i) == <<Move(i, "reverse", Intermediate)>> \o
                   If(i # first, <<Stage(i, "reverse", Intermediate, Intermediate)>>)
           n == Last - 1 - first + 1
           g == [k \in 1..n |-> F(Last - 1 - k + 1)]
<1>1. InverseTail(first, source) =
        <<IF first = Last THEN Copy(source, Intermediate)
          ELSE Stage(Last, "reverse", source, Intermediate)>> \o Ext!FlattenSeq(g)
  BY DEF InverseTail, Down
<1>2. n \in Int /\ \A k \in 1..n : Part(plan, g[k])
  <2>1. ASSUME NEW i PROVE Part(plan, F(i))
    <3>1. (i # first) \in BOOLEAN
      OBVIOUS
    <3> QED BY <3>1, MoveParts
  <2> HIDE DEF F
  <2> QED BY PlanType, <2>1
<1>3. Part(plan, Ext!FlattenSeq(g))
  <2>1. g = [k \in 1..n |-> g[k]]
    OBVIOUS
  <2> HIDE DEF n, g
  <2> QED BY <1>2, <2>1, FlattenParts
<1>4. Part(plan, <<IF first = Last THEN Copy(source, Intermediate)
                   ELSE Stage(Last, "reverse", source, Intermediate)>>)
  BY LocalParts
<1> QED BY <1>1, <1>3, <1>4, JoinParts

(* Complex to complex, out of place.                                       *)
LEMMA C2CParts ==
  ASSUME plan \in Plans, NEW m
  PROVE  Part(plan, C2CForward(m)) /\ Part(plan, C2CInverse(m))
<1>1. Part(plan, C2CForward(m))
  BY LocalParts, ForwardTailPart, JoinParts DEF C2CForward
<1>2. Part(plan, C2CInverse(m))
  BY LocalParts, InverseTailPart, JoinParts DEF C2CInverse
<1> QED BY <1>1, <1>2

(* The C2C transform with overlap, forward.                                *)
LEMMA C2CForwardOverlapPart ==
  ASSUME plan \in Plans, NEW m
  PROVE  Part(plan, C2CForwardOverlap(m)) /\ R2RForwardOverlap(m) = C2CForwardOverlap(m)
<1> DEFINE F(i) == Overlapped(i, "forward", Intermediate,
                              <<Stage(i + 1, "forward", Intermediate, Intermediate)>>)
           n == Last - 1 - 0 + 1
           g == [k \in 1..n |-> F(0 + k - 1)]
<1>1. C2CForwardOverlap(m) =
        <<Stage(0, "forward", Source(m), Intermediate)>> \o Ext!FlattenSeq(g) \o
        <<Copy(Intermediate, Destination(m))>>
  BY DEF C2CForwardOverlap, Up
<1>2. n \in Int /\ \A k \in 1..n : Part(plan, g[k])
  BY PlanType, MoveParts
<1>3. Part(plan, Ext!FlattenSeq(g))
  <2>1. g = [k \in 1..n |-> g[k]]
    OBVIOUS
  <2> HIDE DEF n, g
  <2> QED BY <1>2, <2>1, FlattenParts
<1>4. R2RForwardOverlap(m) = C2CForwardOverlap(m)
  BY DEF C2CForwardOverlap, R2RForwardOverlap
<1> HIDE DEF g
<1> QED BY <1>1, <1>3, <1>4, LocalParts, JoinParts

(* The C2C transform with overlap, inverse.                                *)
LEMMA C2CInverseOverlapPart ==
  ASSUME plan \in Plans, NEW m
  PROVE  Part(plan, C2CInverseOverlap(m))
<1> DEFINE F(i) == Overlapped(i, "reverse", Intermediate, <<Stage(i, "reverse", Intermediate, Intermediate)>>)
           nF == Last - 1 - 0 + 1
           gF == [k \in 1..nF |-> F(Last - 1 - k + 1)]
<1>1. C2CInverseOverlap(m) =
        <<Stage(Last, "reverse", Source(m), Intermediate)>> \o Ext!FlattenSeq(gF) \o
        <<Copy(Intermediate, Destination(m))>>
  BY DEF C2CInverseOverlap, Down
<1>2. Part(plan, Ext!FlattenSeq(gF))
  <2>1. ASSUME NEW i PROVE Part(plan, F(i))
    BY MoveParts
  <2>2. nF \in Int /\ \A k \in 1..nF : Part(plan, gF[k])
    <3> HIDE DEF F
    <3> QED BY <2>1, PlanType
  <2>3. gF = [k \in 1..nF |-> gF[k]]
    OBVIOUS
  <2> HIDE DEF nF, gF
  <2> QED BY <2>2, <2>3, FlattenParts
<1> HIDE DEF gF
<1> QED BY <1>1, <1>2, LocalParts, JoinParts

(* The C2C transform in place, forward.                                    *)
LEMMA C2CForwardInPlacePart ==
  ASSUME plan \in Plans, NEW m
  PROVE  Part(plan, C2CForwardInPlace(m))
<1> DEFINE F(i) == <<Move(i, "forward", Array(m)), Stage(i + 1, "forward", Array(m), Array(m))>>
           nF == Last - 1 - 0 + 1
           gF == [k \in 1..nF |-> F(0 + k - 1)]
<1>1. C2CForwardInPlace(m) =
        <<Stage(0, "forward", Array(m), Array(m))>> \o Ext!FlattenSeq(gF)
  BY DEF C2CForwardInPlace, Up
<1>2. Part(plan, Ext!FlattenSeq(gF))
  <2>1. ASSUME NEW i PROVE Part(plan, F(i))
    BY MoveParts
  <2>2. nF \in Int /\ \A k \in 1..nF : Part(plan, gF[k])
    <3> HIDE DEF F
    <3> QED BY <2>1, PlanType
  <2>3. gF = [k \in 1..nF |-> gF[k]]
    OBVIOUS
  <2> HIDE DEF nF, gF
  <2> QED BY <2>2, <2>3, FlattenParts
<1> HIDE DEF gF
<1> QED BY <1>1, <1>2, LocalParts, JoinParts

(* The C2C transform in place, inverse.                                    *)
LEMMA C2CInverseInPlacePart ==
  ASSUME plan \in Plans, NEW m
  PROVE  Part(plan, C2CInverseInPlace(m))
<1> DEFINE F(i) == <<Move(i, "reverse", Array(m)), Stage(i, "reverse", Array(m), Array(m))>>
           nF == Last - 1 - 0 + 1
           gF == [k \in 1..nF |-> F(Last - 1 - k + 1)]
<1>1. C2CInverseInPlace(m) =
        <<Stage(Last, "reverse", Array(m), Array(m))>> \o Ext!FlattenSeq(gF)
  BY DEF C2CInverseInPlace, Down
<1>2. Part(plan, Ext!FlattenSeq(gF))
  <2>1. ASSUME NEW i PROVE Part(plan, F(i))
    BY MoveParts
  <2>2. nF \in Int /\ \A k \in 1..nF : Part(plan, gF[k])
    <3> HIDE DEF F
    <3> QED BY <2>1, PlanType
  <2>3. gF = [k \in 1..nF |-> gF[k]]
    OBVIOUS
  <2> HIDE DEF nF, gF
  <2> QED BY <2>2, <2>3, FlattenParts
<1> HIDE DEF gF
<1> QED BY <1>1, <1>2, LocalParts, JoinParts

(* The R2R transform, forward.                                             *)
LEMMA R2RForwardPart ==
  ASSUME plan \in Plans, NEW m
  PROVE  Part(plan, R2RForward(m))
<1> DEFINE F(i) == <<Move(i, "forward", Intermediate),
                     Stage(i + 1, "forward", Intermediate,
                           IF i + 1 = Last THEN Destination(m) ELSE Intermediate)>>
           nF == Last - 1 - 0 + 1
           gF == [k \in 1..nF |-> F(0 + k - 1)]
<1>1. R2RForward(m) =
        <<Stage(0, "forward", Source(m), Intermediate)>> \o Ext!FlattenSeq(gF)
  BY DEF R2RForward, Up
<1>2. Part(plan, Ext!FlattenSeq(gF))
  <2>1. ASSUME NEW i PROVE Part(plan, F(i))
    BY MoveParts
  <2>2. nF \in Int /\ \A k \in 1..nF : Part(plan, gF[k])
    <3> HIDE DEF F
    <3> QED BY <2>1, PlanType
  <2>3. gF = [k \in 1..nF |-> gF[k]]
    OBVIOUS
  <2> HIDE DEF nF, gF
  <2> QED BY <2>2, <2>3, FlattenParts
<1> HIDE DEF gF
<1> QED BY <1>1, <1>2, LocalParts, JoinParts

(* The R2R transform, reverse.                                             *)
LEMMA R2RReversePart ==
  ASSUME plan \in Plans, NEW m
  PROVE  Part(plan, R2RReverse(m))
<1> DEFINE F(i) == <<Move(i, "reverse", Intermediate)>> \o
                   If(i # 0, <<Stage(i, "reverse", Intermediate, Intermediate)>>)
           nF == Last - 1 - 0 + 1
           gF == [k \in 1..nF |-> F(Last - 1 - k + 1)]
<1>1. R2RReverse(m) =
        <<Stage(Last, "reverse", Source(m), Intermediate)>> \o Ext!FlattenSeq(gF) \o
        <<Stage(0, "reverse", Intermediate, Destination(m))>>
  BY DEF R2RReverse, Down
<1>2. Part(plan, Ext!FlattenSeq(gF))
  <2>1. ASSUME NEW i PROVE Part(plan, F(i))
    <3>1. (i # 0) \in BOOLEAN
      OBVIOUS
    <3> QED BY <3>1, MoveParts
  <2>2. nF \in Int /\ \A k \in 1..nF : Part(plan, gF[k])
    <3> HIDE DEF F
    <3> QED BY <2>1, PlanType
  <2>3. gF = [k \in 1..nF |-> gF[k]]
    OBVIOUS
  <2> HIDE DEF nF, gF
  <2> QED BY <2>2, <2>3, FlattenParts
<1> HIDE DEF gF
<1> QED BY <1>1, <1>2, LocalParts, JoinParts

(* Lists of so many steps.                                                 *)
LEMMA OneOf ==
  ASSUME NEW X, NEW x1 \in X
  PROVE  <<x1>> \in Seq(X)
OBVIOUS

(* Elements of short tuples.                                               *)
LEMMA TwoOf ==
  ASSUME NEW X, NEW x1 \in X, NEW x2 \in X
  PROVE  <<x1, x2>> \in Seq(X)
OBVIOUS

(* The same of three elements.                                             *)
LEMMA ThreeOf ==
  ASSUME NEW X, NEW x1 \in X, NEW x2 \in X, NEW x3 \in X
  PROVE  <<x1, x2, x3>> \in Seq(X)
OBVIOUS

(* The same of five.                                                       *)
LEMMA FiveOf ==
  ASSUME NEW X, NEW x1 \in X, NEW x2 \in X, NEW x3 \in X, NEW x4 \in X, NEW x5 \in X
  PROVE  <<x1, x2, x3, x4, x5>> \in Seq(X)
OBVIOUS

(* The same of six.                                                        *)
LEMMA SixOf ==
  ASSUME NEW X, NEW x1 \in X, NEW x2 \in X, NEW x3 \in X, NEW x4 \in X, NEW x5 \in X, NEW x6 \in X
  PROVE  <<x1, x2, x3, x4, x5, x6>> \in Seq(X)
OBVIOUS

(* The same of seven.                                                      *)
LEMMA SevenOf ==
  ASSUME NEW X, NEW x1 \in X, NEW x2 \in X, NEW x3 \in X, NEW x4 \in X, NEW x5 \in X, NEW x6 \in X, NEW x7 \in X
  PROVE  <<x1, x2, x3, x4, x5, x6, x7>> \in Seq(X)
OBVIOUS

(* The same of eight.                                                      *)
LEMMA EightOf ==
  ASSUME NEW X, NEW x1 \in X, NEW x2 \in X, NEW x3 \in X, NEW x4 \in X, NEW x5 \in X, NEW x6 \in X, NEW x7 \in X, NEW x8 \in X
  PROVE  <<x1, x2, x3, x4, x5, x6, x7, x8>> \in Seq(X)
OBVIOUS

(* The same of ten.                                                        *)
LEMMA TenOf ==
  ASSUME NEW X, NEW x1 \in X, NEW x2 \in X, NEW x3 \in X, NEW x4 \in X, NEW x5 \in X, NEW x6 \in X, NEW x7 \in X, NEW x8 \in X, NEW x9 \in X, NEW x10 \in X
  PROVE  <<x1, x2, x3, x4, x5, x6, x7, x8, x9, x10>> \in Seq(X)
OBVIOUS

(* Concatenation of sequences, with the types the provers need.            *)
LEMMA JoinOf ==
  ASSUME NEW X, NEW s \in Seq(X), NEW t \in Seq(X)
  PROVE  s \o t \in Seq(X)
OBVIOUS

(* The validation of a spectrum, and the construction of transitions.      *)
LEMMA ValidateSteps ==
  ASSUME plan \in Plans, NEW m \in Int
  PROVE  /\ ValidateBoundary(m) \in Seq(Agreement(InnerName))
         /\ <<Agree("validation preparation", m)>> \o ReduceChunks \in Seq(Agreement(InnerName))
<1> DEFINE F(c) == <<Agree("max reduction", c), Agree("sum reduction", c)>>
           n == plan.chunks - 1 + 1
           g == [k \in 1..n |-> F(1 + k - 1)]
           X == Agreement(InnerName)
<1>1. ReduceChunks = Ext!FlattenSeq(g)
  BY DEF ReduceChunks, Up
<1>2. \A c \in Int :
        /\ Agree("max reduction", c) \in X /\ Agree("sum reduction", c) \in X
        /\ Agree("validation preparation", c) \in X /\ Agree("spectrum", c) \in X
  BY AgreeIs DEF InnerName
<1>3. n \in Int /\ \A k \in 1..n : g[k] \in Seq(X)
  <2> HIDE DEF X
  <2>1. n \in Int
    BY PlanType
  <2>2. ASSUME NEW k \in 1..n PROVE g[k] \in Seq(X)
    <3>1. 1 + k - 1 \in Int
      BY <2>1
    <3>2. Agree("max reduction", 1 + k - 1) \in X /\ Agree("sum reduction", 1 + k - 1) \in X
      BY <1>2, <3>1
    <3> QED BY <2>2, <3>2, TwoOf
  <2> QED BY <2>1, <2>2
<1>4. ReduceChunks \in Seq(X)
  <2>1. g = [k \in 1..n |-> g[k]]
    OBVIOUS
  <2> HIDE DEF n, g, X
  <2> QED BY <1>1, <1>3, <2>1, FlattenSteps
<1> HIDE DEF X
<1>5. <<Agree("validation preparation", m)>> \in Seq(X) /\ <<Agree("spectrum", m)>> \in Seq(X)
  <2>1. Agree("validation preparation", m) \in X /\ Agree("spectrum", m) \in X
    BY <1>2
  <2> QED BY <2>1, OneOf
<1>6. <<Agree("validation preparation", m)>> \o ReduceChunks \in Seq(X)
  BY <1>4, <1>5, JoinOf
<1>7. (<<Agree("validation preparation", m)>> \o ReduceChunks) \o <<Agree("spectrum", m)>> \in Seq(X)
  BY <1>5, <1>6, JoinOf
<1> QED BY <1>6, <1>7 DEF ValidateBoundary, X

(* The steps of a checked transition.                                      *)
LEMMA TransitionSteps ==
  ASSUME plan \in Plans
  PROVE  BuildTransitions \in Seq(Agreement(InnerName))
<1> DEFINE F(i) == CASE plan.transition[i] = "distributed" ->
           <<Agree("plan construction", i), Agree("forward plan", i),
             Agree("forward requirements", i), Agree("plan construction", i),
             Agree("backward plan", i), Agree("backward requirements", i)>>
      [] plan.transition[i] = "identity" -> <<>>
      [] OTHER -> <<Agree("local plans", i)>>
           n == Last - 1 - 0 + 1
           g == [k \in 1..n |-> F(0 + k - 1)]
           X == Agreement(InnerName)
<1>1. BuildTransitions = <<Agree("transition allocation", 0)>> \o Ext!FlattenSeq(g)
  BY DEF BuildTransitions, Up
<1>2. \A c \in Int :
        /\ Agree("transition allocation", c) \in X /\ Agree("plan construction", c) \in X
        /\ Agree("forward plan", c) \in X /\ Agree("forward requirements", c) \in X
        /\ Agree("backward plan", c) \in X /\ Agree("backward requirements", c) \in X
        /\ Agree("local plans", c) \in X
  <2>1. {"transition allocation", "plan construction", "forward plan", "forward requirements",
         "backward plan", "backward requirements", "local plans"} \subseteq InnerName
    BY DEF InnerName
  <2>2. \A name \in InnerName, c \in Int : Agree(name, c) \in X
    BY AgreeIs
  <2> HIDE DEF X
  <2> QED BY <2>1, <2>2
<1>3. n \in Int /\ \A k \in 1..n : g[k] \in Seq(X)
  <2> HIDE DEF X
  <2>1. n \in Int
    BY PlanType
  <2>2. ASSUME NEW i \in Int PROVE F(i) \in Seq(X)
    <3>0. /\ Agree("plan construction", i) \in X
          /\ Agree("forward plan", i) \in X /\ Agree("forward requirements", i) \in X
          /\ Agree("backward plan", i) \in X /\ Agree("backward requirements", i) \in X
          /\ Agree("local plans", i) \in X
      BY <1>2
    <3>1. <<Agree("plan construction", i), Agree("forward plan", i),
             Agree("forward requirements", i), Agree("plan construction", i),
             Agree("backward plan", i), Agree("backward requirements", i)>> \in Seq(X)
      BY <3>0, SixOf
    <3>2. <<Agree("local plans", i)>> \in Seq(X)
      BY <3>0, OneOf
    <3>3. <<>> \in Seq(X)
      OBVIOUS
    <3> QED BY <3>1, <3>2, <3>3
  <2>3. ASSUME NEW k \in 1..n PROVE g[k] \in Seq(X)
    <3>1. 0 + k - 1 \in Int
      BY <2>1
    <3> HIDE DEF F
    <3> QED BY <2>1, <2>2, <2>3, <3>1
  <2> QED BY <2>1, <2>3
<1>4. Ext!FlattenSeq(g) \in Seq(X)
  <2>1. g = [k \in 1..n |-> g[k]]
    OBVIOUS
  <2> HIDE DEF n, g, X
  <2> QED BY <1>3, <2>1, FlattenSteps
<1> HIDE DEF X, g
<1>5. <<Agree("transition allocation", 0)>> \in Seq(X)
  <2>1. Agree("transition allocation", 0) \in X
    <3>1. 0 \in Int
      OBVIOUS
    <3> QED BY <1>2, <3>1
  <2> QED BY <2>1, OneOf
<1>6. BuildTransitions \in Seq(X)
  BY <1>1, <1>4, <1>5, JoinOf
<1> QED BY <1>6 DEF X

(* Validation of a spectrum is a part.                                     *)
LEMMA ValidatePart ==
  ASSUME plan \in Plans, NEW m \in Int
  PROVE  Part(plan, ValidateBoundary(m))
BY ValidateSteps, AgreementsPart

(* Validation of a spectrum looks at it.                                   *)
LEMMA ValidateSees ==
  ASSUME plan \in Plans, NEW m \in Int
  PROVE  Sees(ValidateBoundary(m), m)
<1> DEFINE a == <<Agree("validation preparation", m)>> \o ReduceChunks
           x == Agree("spectrum", m)
<1>1. ValidateBoundary(m) = a \o <<x>>
  BY DEF ValidateBoundary
<1>3. \E E : a \in Seq(E)
  BY ValidateSteps
<1>4. PICK y : y = <<x>> /\ y \in Seq({x}) /\ Len(y) = 1 /\ y[1] = x
  <2> HIDE DEF x
  <2>1. <<x>> \in Seq({x}) /\ Len(<<x>>) = 1 /\ <<x>>[1] = x
    OBVIOUS
  <2> QED BY <2>1
<1>5. x.do = "agree" /\ x.place = <<"spectrum", m>>
  BY DEF Agree
<1>6. Sees(y, m)
  <2> HIDE DEF x
  <2>1. 1 \in 1..Len(y)
    BY <1>4
  <2> QED BY <1>4, <1>5, <2>1 DEF Sees
<1> HIDE DEF a, x
<1> QED BY <1>1, <1>3, <1>4, <1>6, JoinSees

(* The real-to-complex transform, forward.                                 *)
LEMMA R2CForwardPart ==
  ASSUME plan \in Plans, NEW m
  PROVE  Part(plan, R2CForward(m))
<1> DEFINE F(i) == <<Move(i, "forward", RealIntermediate)>>
           nF == Boundary - 1 - 0 + 1
           gF == [k \in 1..nF |-> F(0 + k - 1)]
<1>1. R2CForward(m) =
        (IF Boundary = 0 THEN <<Stage(0, "forward", Source(m), Intermediate)>>
         ELSE <<Copy(Source(m), RealIntermediate)>> \o Ext!FlattenSeq(gF) \o
              <<Stage(Boundary, "forward", RealIntermediate, Intermediate)>>)
        \o ForwardTail(Boundary, Destination(m))
  BY DEF R2CForward, Up
<1>2. Part(plan, Ext!FlattenSeq(gF))
  <2>1. ASSUME NEW i PROVE Part(plan, F(i))
    BY LocalParts
  <2>2. nF \in Int /\ \A k \in 1..nF : Part(plan, gF[k])
    <3> HIDE DEF F
    <3> QED BY <2>1, PlanType
  <2>3. gF = [k \in 1..nF |-> gF[k]]
    OBVIOUS
  <2> HIDE DEF nF, gF
  <2> QED BY <2>2, <2>3, FlattenParts
<1> HIDE DEF gF
<1> QED BY <1>1, <1>2, PlanType, ForwardTailPart, LocalParts, JoinParts

(* The real-to-complex transform, reverse.                                 *)
LEMMA R2CInversePart ==
  ASSUME plan \in Plans, NEW m \in Int
  PROVE  Part(plan, R2CInverse(m)) /\ Sees(R2CInverse(m), m)
<1> DEFINE F(i) == <<Move(i, "reverse", RealIntermediate)>>
           nF == Boundary - 1 - 0 + 1
           gF == [k \in 1..nF |-> F(Boundary - 1 - k + 1)]
<1>1. R2CInverse(m) =
        InverseTail(Boundary, Source(m)) \o ValidateBoundary(m) \o ZeroAcceptedBoundary(Intermediate) \o
        (IF Boundary = 0 THEN <<Stage(0, "reverse", Intermediate, Destination(m))>>
         ELSE <<Stage(Boundary, "reverse", Intermediate, RealIntermediate)>> \o Ext!FlattenSeq(gF) \o
              <<Copy(RealIntermediate, Destination(m))>>)
  BY DEF R2CInverse, Down
<1>2. Part(plan, Ext!FlattenSeq(gF))
  <2>1. ASSUME NEW i PROVE Part(plan, F(i))
    BY LocalParts
  <2>2. nF \in Int /\ \A k \in 1..nF : Part(plan, gF[k])
    <3> HIDE DEF F
    <3> QED BY <2>1, PlanType
  <2>3. gF = [k \in 1..nF |-> gF[k]]
    OBVIOUS
  <2> HIDE DEF nF, gF
  <2> QED BY <2>2, <2>3, FlattenParts
<1> HIDE DEF gF
<1> QED BY <1>1, <1>2, PlanType, InverseTailPart, ValidatePart, LocalParts, JoinParts, JoinPartSees, ValidateSees DEF ZeroAcceptedBoundary

(* The real-to-complex transform with overlap, forward.                    *)
LEMMA R2CForwardOverlapPart ==
  ASSUME plan \in Plans, NEW m
  PROVE  Part(plan, R2CForwardOverlap(m))
<1> DEFINE F(i) == <<Move(i, "forward", RealIntermediate)>>
           nF == Boundary - 2 - 0 + 1
           gF == [k \in 1..nF |-> F(0 + k - 1)]
           G(i) == Overlapped(i, "forward", Intermediate, <<Stage(i + 1, "forward", Intermediate, Intermediate)>>)
           nG == Last - 1 - Boundary + 1
           gG == [k \in 1..nG |-> G(Boundary + k - 1)]
<1>1. R2CForwardOverlap(m) =
        (IF Boundary = 0 THEN <<Stage(0, "forward", Source(m), Intermediate)>>
         ELSE <<Copy(Source(m), RealIntermediate)>> \o Ext!FlattenSeq(gF) \o
              OverlappedInto({Intermediate}, Boundary - 1, "forward", RealIntermediate,
                             <<Stage(Boundary, "forward", RealIntermediate, Intermediate)>>))
        \o Ext!FlattenSeq(gG) \o <<Copy(Intermediate, Destination(m))>>
  BY DEF R2CForwardOverlap, Up
<1>2. Part(plan, Ext!FlattenSeq(gF))
  <2>1. ASSUME NEW i PROVE Part(plan, F(i))
    BY LocalParts
  <2>2. nF \in Int /\ \A k \in 1..nF : Part(plan, gF[k])
    <3> HIDE DEF F
    <3> QED BY <2>1, PlanType
  <2>3. gF = [k \in 1..nF |-> gF[k]]
    OBVIOUS
  <2> HIDE DEF nF, gF
  <2> QED BY <2>2, <2>3, FlattenParts
<1>3. Part(plan, Ext!FlattenSeq(gG))
  <2>1. ASSUME NEW i PROVE Part(plan, G(i))
    BY MoveParts
  <2>2. nG \in Int /\ \A k \in 1..nG : Part(plan, gG[k])
    <3> HIDE DEF G
    <3> QED BY <2>1, PlanType
  <2>3. gG = [k \in 1..nG |-> gG[k]]
    OBVIOUS
  <2> HIDE DEF nG, gG
  <2> QED BY <2>2, <2>3, FlattenParts
<1> HIDE DEF gF, gG
<1> QED BY <1>1, <1>2, <1>3, MoveParts, LocalParts, JoinParts

(* Steps with a result of their own.                                       *)
LEMMA TriedParts ==
  /\ \A d, m : Part(plan, Try(<<Convert(d, m)>>, "conversion", m))
  /\ \A from, to, m : Part(plan, Try(<<Copy(from, to)>>, "stage", m))
  /\ \A buf : Part(plan, ZeroMixedBoundary(buf))
  /\ \A i, d, buf : Part(plan, MixedTransition(i, d, buf))
  /\ \A i, d, from, to : Part(plan, AgreedStage(i, d, from, to))
<1>1. \A d, m : Part(plan, Try(<<Convert(d, m)>>, "conversion", m))
  <2>1. "conversion" \in ResultName
    BY DEF ResultName
  <2> QED BY <2>1, LocalAnswerable, TryPart
<1>2. "stage" \in ResultName
  BY DEF ResultName
<1>3. \A from, to, m : Part(plan, Try(<<Copy(from, to)>>, "stage", m))
  BY <1>2, LocalAnswerable, TryPart
<1>4. \A buf : Part(plan, ZeroMixedBoundary(buf))
  <2>1. "zero" \in ResultName
    BY DEF ResultName
  <2> QED BY <2>1, LocalAnswerable, TryPart DEF ZeroMixedBoundary
<1>5. \A i, d, buf : Part(plan, MixedTransition(i, d, buf))
  <2>1. "transition result" \in ResultName
    BY DEF ResultName
  <2> QED BY <2>1, LocalAnswerable, TryPart DEF MixedTransition
<1>6. \A i, d, from, to : Part(plan, AgreedStage(i, d, from, to))
  BY <1>2, LocalAnswerable, TryPart DEF AgreedStage
<1> QED BY <1>1, <1>3, <1>4, <1>5, <1>6

(* A transition and a stage, each with its result.                         *)
LEMMA MixedParts ==
  /\ \A i, j, d, buf, from, to : Part(plan, MixedTransition(i, d, buf) \o AgreedStage(j, d, from, to))
  /\ \A i, j, d, buf, from, to : Part(plan, AgreedStage(j, d, from, to) \o MixedTransition(i, d, buf))
  /\ \A c \in BOOLEAN : \A i, j, d, buf, from, to :
       Part(plan, MixedTransition(i, d, buf) \o If(c, AgreedStage(j, d, from, to)))
<1>1. \A c \in BOOLEAN : \A j, d, from, to : Part(plan, If(c, AgreedStage(j, d, from, to)))
  BY TriedParts, PartIf
<1>2. ASSUME NEW c \in BOOLEAN, NEW i, NEW j, NEW d, NEW buf, NEW from, NEW to
      PROVE  /\ Part(plan, MixedTransition(i, d, buf) \o AgreedStage(j, d, from, to))
             /\ Part(plan, AgreedStage(j, d, from, to) \o MixedTransition(i, d, buf))
             /\ Part(plan, MixedTransition(i, d, buf) \o If(c, AgreedStage(j, d, from, to)))
  <2>1. /\ Part(plan, MixedTransition(i, d, buf)) /\ Part(plan, AgreedStage(j, d, from, to))
        /\ Part(plan, If(c, AgreedStage(j, d, from, to)))
    BY <1>1, TriedParts
  <2> QED BY <2>1, JoinParts
<1> QED BY <1>2

(* A transition whose callback may be a list of its own.                   *)
LEMMA OverlappedOrAgreedPart ==
  ASSUME NEW i, NEW direction, NEW buf, NEW callback, Answerable(plan, callback), Part(plan, callback)
  PROVE  Part(plan, OverlappedOrAgreed(i, direction, buf, callback))
<1>1. Part(plan, Overlapped(i, direction, buf, callback))
  BY OverlappedPart DEF Overlapped
<1>2. Part(plan, Try(callback, "converted", i))
  <2>1. "converted" \in ResultName
    BY DEF ResultName
  <2> QED BY <2>1, TryPart
<1>3. Part(plan, <<Move(i, direction, buf)>> \o Try(callback, "converted", i))
  BY <1>2, LocalParts, JoinParts
<1> QED BY <1>1, <1>3 DEF OverlappedOrAgreed

(* With overlap or without, the spectrum is looked at.                     *)
LEMMA OverlappedOrAgreedSees ==
  ASSUME NEW i, NEW direction, NEW buf, NEW callback, Answerable(plan, callback), Part(plan, callback),
         NEW m, Sees(callback, m)
  PROVE  Sees(OverlappedOrAgreed(i, direction, buf, callback), m)
<1>1. Sees(Overlapped(i, direction, buf, callback), m)
  BY OverlappedSees
<1>2. Part(plan, Try(callback, "converted", i))
  <2>1. "converted" \in ResultName
    BY DEF ResultName
  <2> QED BY <2>1, TryPart
<1>3. Sees(Try(callback, "converted", i), m)
  BY TrySees
<1>4. Sees(<<Move(i, direction, buf)>> \o Try(callback, "converted", i), m)
  BY <1>2, <1>3, LocalParts, JoinPartSees
<1> QED BY <1>1, <1>4 DEF OverlappedOrAgreed

(* The validation in a callback.                                           *)
LEMMA ConvertPart ==
  ASSUME plan \in Plans, NEW m \in Int, NEW i, NEW buf, NEW to,
         NEW s, s = ValidateBoundary(m) \o <<Zero(buf), Stage(i, "reverse", buf, to)>>
  PROVE  Part(plan, s) /\ Answerable(plan, s)
<1> DEFINE x == Zero(buf)
           y == Stage(i, "reverse", buf, to)
           t == <<x, y>>
<1>1. Part(plan, t)
  BY LocalParts, TwoParts
<1>2. Named(x) /\ Named(y) /\ x.do = "zero" /\ y.do = "stage"
  BY DEF Zero, Stage, Named, Refusing, OK
<1>3. Answerable(plan, t)
  <2> HIDE DEF x, y
  <2>1. t \in Seq({x, y}) /\ Len(t) = 2 /\ t[1] = x /\ t[2] = y
    OBVIOUS
  <2>2. \A k \in 1..Len(t) : (k = 1 /\ t[k] = x) \/ (k = 2 /\ t[k] = y /\ (k + 1)..Len(t) = {})
    BY <2>1
  <2> HIDE DEF t
  <2> QED BY <1>2, <2>1, <2>2 DEF Answerable
<1> HIDE DEF t
<1>4. s = ValidateBoundary(m) \o t
  BY DEF t
<1> QED BY <1>1, <1>3, <1>4, ValidateSteps, ValidatePart, JoinParts, AgreementsBefore

(* The real-to-complex transform in place, forward.                        *)
LEMMA R2CForwardInPlacePart ==
  ASSUME plan \in Plans, NEW m
  PROVE  Part(plan, R2CForwardInPlace(m))
<1> DEFINE F(i) == <<Move(i, "forward", Array(m))>>
           nF == Boundary - 1 - 0 + 1
           gF == [k \in 1..nF |-> F(0 + k - 1)]
           G(i) == <<Move(i, "forward", Array(m)), Stage(i + 1, "forward", Array(m), Array(m))>>
           nG == Last - 1 - Boundary + 1
           gG == [k \in 1..nG |-> G(Boundary + k - 1)]
<1>1. R2CForwardInPlace(m) =
        <<InPlace("take", m)>> \o Ext!FlattenSeq(gF) \o
        <<InPlace("put back", m)>> \o Try(<<Convert("forward", m)>>, "conversion", m) \o
        Ext!FlattenSeq(gG)
  BY DEF R2CForwardInPlace, Up
<1>2. Part(plan, Ext!FlattenSeq(gF))
  <2>1. ASSUME NEW i PROVE Part(plan, F(i))
    BY LocalParts
  <2>2. nF \in Int /\ \A k \in 1..nF : Part(plan, gF[k])
    <3> HIDE DEF F
    <3> QED BY <2>1, PlanType
  <2>3. gF = [k \in 1..nF |-> gF[k]]
    OBVIOUS
  <2> HIDE DEF nF, gF
  <2> QED BY <2>2, <2>3, FlattenParts
<1>3. Part(plan, Ext!FlattenSeq(gG))
  <2>1. ASSUME NEW i PROVE Part(plan, G(i))
    BY MoveParts
  <2>2. nG \in Int /\ \A k \in 1..nG : Part(plan, gG[k])
    <3> HIDE DEF G
    <3> QED BY <2>1, PlanType
  <2>3. gG = [k \in 1..nG |-> gG[k]]
    OBVIOUS
  <2> HIDE DEF nG, gG
  <2> QED BY <2>2, <2>3, FlattenParts
<1> HIDE DEF gF, gG
<1> QED BY <1>1, <1>2, <1>3, TriedParts, LocalParts, JoinParts

(* The real-to-complex transform in place, reverse.                        *)
LEMMA R2CReverseInPlacePart ==
  ASSUME plan \in Plans, NEW m \in Int
  PROVE  Part(plan, R2CReverseInPlace(m)) /\ Sees(R2CReverseInPlace(m), m)
<1> DEFINE F(i) == <<Move(i, "reverse", Array(m))>> \o
                   If(i # Boundary, <<Stage(i, "reverse", Array(m), Array(m))>>)
           nF == Last - 1 - Boundary + 1
           gF == [k \in 1..nF |-> F(Last - 1 - k + 1)]
           G(i) == <<Move(i, "reverse", Array(m))>>
           nG == Boundary - 1 - 0 + 1
           gG == [k \in 1..nG |-> G(Boundary - 1 - k + 1)]
<1>1. R2CReverseInPlace(m) =
        If(Last > Boundary, <<Stage(Last, "reverse", Array(m), Array(m))>>) \o Ext!FlattenSeq(gF) \o
        ValidateBoundary(m) \o ZeroAcceptedBoundary(Array(m)) \o
        Try(<<Convert("reverse", m)>>, "conversion", m) \o Ext!FlattenSeq(gG)
  BY DEF R2CReverseInPlace, Down
<1>2. Part(plan, Ext!FlattenSeq(gF))
  <2>1. ASSUME NEW i PROVE Part(plan, F(i))
    <3>1. (i # Boundary) \in BOOLEAN
      OBVIOUS
    <3> QED BY <3>1, MoveParts
  <2>2. nF \in Int /\ \A k \in 1..nF : Part(plan, gF[k])
    <3> HIDE DEF F
    <3> QED BY <2>1, PlanType
  <2>3. gF = [k \in 1..nF |-> gF[k]]
    OBVIOUS
  <2> HIDE DEF nF, gF
  <2> QED BY <2>2, <2>3, FlattenParts
<1>3. Part(plan, Ext!FlattenSeq(gG))
  <2>1. ASSUME NEW i PROVE Part(plan, G(i))
    BY LocalParts
  <2>2. nG \in Int /\ \A k \in 1..nG : Part(plan, gG[k])
    <3> HIDE DEF G
    <3> QED BY <2>1, PlanType
  <2>3. gG = [k \in 1..nG |-> gG[k]]
    OBVIOUS
  <2> HIDE DEF nG, gG
  <2> QED BY <2>2, <2>3, FlattenParts
<1> HIDE DEF gF, gG
<1> QED BY <1>1, <1>2, <1>3, ValidatePart, TriedParts, LocalParts, JoinParts, JoinPartSees, ValidateSees, NoPart DEF ZeroAcceptedBoundary, If

(* The real-to-complex transform with overlap, reverse.                    *)
LEMMA R2CReverseOverlapPart ==
  ASSUME plan \in Plans, NEW m \in Int
  PROVE  Part(plan, R2CReverseOverlap(m)) /\ Sees(R2CReverseOverlap(m), m)
<1> DEFINE target == IF Boundary = 0 THEN Destination(m) ELSE RealIntermediate
           F(i) == Overlapped(i, "reverse", Intermediate, <<Stage(i, "reverse", Intermediate, Intermediate)>>)
           nF == Last - 1 - (Boundary + 1) + 1
           gF == [k \in 1..nF |-> F(Last - 1 - k + 1)]
           G(i) == <<Move(i, "reverse", RealIntermediate)>>
           nG == Boundary - 1 - 0 + 1
           gG == [k \in 1..nG |-> G(Boundary - 1 - k + 1)]
<1>1. R2CReverseOverlap(m) =
        <<IF Boundary = Last THEN Copy(Source(m), Intermediate)
          ELSE Stage(Last, "reverse", Source(m), Intermediate)>> \o
        Ext!FlattenSeq(gF) \o
        ValidateBoundary(m) \o ZeroAcceptedBoundary(Intermediate) \o
        (IF Boundary < Last
         THEN OverlappedInto({target} \intersect {RealIntermediate}, Boundary, "reverse", Intermediate,
                             BoundaryC2RAfterTransition(target))
         ELSE BoundaryC2RAfterTransition(target)) \o
        If(Boundary # 0, Ext!FlattenSeq(gG) \o <<Copy(RealIntermediate, Destination(m))>>)
  BY DEF R2CReverseOverlap, Down
<1>2. Part(plan, Ext!FlattenSeq(gF))
  <2>1. ASSUME NEW i PROVE Part(plan, F(i))
    BY MoveParts
  <2>2. nF \in Int /\ \A k \in 1..nF : Part(plan, gF[k])
    <3> HIDE DEF F
    <3> QED BY <2>1, PlanType
  <2>3. gF = [k \in 1..nF |-> gF[k]]
    OBVIOUS
  <2> HIDE DEF nF, gF
  <2> QED BY <2>2, <2>3, FlattenParts
<1>3. Part(plan, Ext!FlattenSeq(gG))
  <2>1. ASSUME NEW i PROVE Part(plan, G(i))
    BY LocalParts
  <2>2. nG \in Int /\ \A k \in 1..nG : Part(plan, gG[k])
    <3> HIDE DEF G
    <3> QED BY <2>1, PlanType
  <2>3. gG = [k \in 1..nG |-> gG[k]]
    OBVIOUS
  <2> HIDE DEF nG, gG
  <2> QED BY <2>2, <2>3, FlattenParts
<1> HIDE DEF gF, gG
<1> QED BY <1>1, <1>2, <1>3, ValidatePart, OverlappedPart, LocalAnswerable, LocalParts, JoinParts, JoinPartSees, ValidateSees, NoPart
       DEF ZeroAcceptedBoundary, If, BoundaryC2RAfterTransition

(* The stages of a mixed plan after the first one.                         *)
LEMMA MixedForwardTailPart ==
  ASSUME plan \in Plans, NEW first \in Nat, NEW destination
  PROVE  Part(plan, MixedForwardTail(first, destination))
<1> DEFINE F(i) == MixedTransition(i, "forward", Intermediate) \o
                   AgreedStage(i + 1, "forward", Intermediate, 
                               IF i + 1 = Last THEN destination ELSE Intermediate)
           nF == Last - 1 - first + 1
           gF == [k \in 1..nF |-> F(first + k - 1)]
<1>1. MixedForwardTail(first, destination) =
        IF first = Last THEN <<Copy(Intermediate, destination)>> ELSE Ext!FlattenSeq(gF)
  BY DEF MixedForwardTail, Up
<1>2. Part(plan, Ext!FlattenSeq(gF))
  <2>1. ASSUME NEW i PROVE Part(plan, F(i))
    BY MixedParts
  <2>2. nF \in Int /\ \A k \in 1..nF : Part(plan, gF[k])
    <3> HIDE DEF F
    <3> QED BY <2>1, PlanType
  <2>3. gF = [k \in 1..nF |-> gF[k]]
    OBVIOUS
  <2> HIDE DEF nF, gF
  <2> QED BY <2>2, <2>3, FlattenParts
<1> HIDE DEF gF
<1> QED BY <1>1, <1>2, LocalParts

(* The stages of a mixed plan before the last one.                         *)
LEMMA MixedReverseTailPart ==
  ASSUME plan \in Plans, NEW first \in Nat, NEW source
  PROVE  Part(plan, MixedReverseTail(first, source))
<1> DEFINE F(i) == MixedTransition(i, "reverse", Intermediate) \o
                   If(i # first, AgreedStage(i, "reverse", Intermediate, Intermediate))
           nF == Last - 1 - first + 1
           gF == [k \in 1..nF |-> F(Last - 1 - k + 1)]
<1>1. MixedReverseTail(first, source) =
        (IF first = Last THEN Try(<<Copy(source, Intermediate)>>, "stage", Last)
         ELSE AgreedStage(Last, "reverse", source, Intermediate)) \o Ext!FlattenSeq(gF)
  BY DEF MixedReverseTail, Down
<1>2. Part(plan, Ext!FlattenSeq(gF))
  <2>1. ASSUME NEW i PROVE Part(plan, F(i))
    <3>1. (i # first) \in BOOLEAN
      OBVIOUS
    <3> QED BY <3>1, MixedParts
  <2>2. nF \in Int /\ \A k \in 1..nF : Part(plan, gF[k])
    <3> HIDE DEF F
    <3> QED BY <2>1, PlanType
  <2>3. gF = [k \in 1..nF |-> gF[k]]
    OBVIOUS
  <2> HIDE DEF nF, gF
  <2> QED BY <2>2, <2>3, FlattenParts
<1> HIDE DEF gF
<1> QED BY <1>1, <1>2, TriedParts, JoinParts

(* The mixed C2C transform, both ways.                                     *)
LEMMA MixedC2CParts ==
  ASSUME plan \in Plans, NEW m
  PROVE  Part(plan, MixedC2CForward(m)) /\ Part(plan, MixedC2CReverse(m))
<1>1. Part(plan, MixedC2CForward(m))
  BY TriedParts, MixedForwardTailPart, JoinParts DEF MixedC2CForward
<1>2. Part(plan, MixedC2CReverse(m))
  BY TriedParts, MixedReverseTailPart, JoinParts DEF MixedC2CReverse
<1> QED BY <1>1, <1>2

(* The mixed C2C transform with overlap, both ways.                        *)
LEMMA MixedC2COverlappedPart ==
  ASSUME plan \in Plans, NEW direction, NEW m
  PROVE  Part(plan, MixedC2COverlapped(direction, m))
<1> DEFINE F(i) == Overlapped(i, "forward", Intermediate,
                     <<Stage(i + 1, "forward", Intermediate, Intermediate)>>)
           nF == Last - 1 - 0 + 1
           gF == [k \in 1..nF |-> F(0 + k - 1)]
           G(i) == Overlapped(i, "reverse", Intermediate,
                     <<Stage(i, "reverse", Intermediate, Intermediate)>>)
           nG == Last - 1 - 0 + 1
           gG == [k \in 1..nG |-> G(Last - 1 - k + 1)]
<1>1. MixedC2COverlapped(direction, m) =
        (IF direction = "forward"
         THEN AgreedStage(0, "forward", Source(m), Intermediate) \o Ext!FlattenSeq(gF)
         ELSE AgreedStage(Last, "reverse", Source(m), Intermediate) \o Ext!FlattenSeq(gG))
        \o <<Copy(Intermediate, Destination(m))>>
  BY DEF MixedC2COverlapped, Up, Down
<1>2. Part(plan, Ext!FlattenSeq(gF))
  <2>1. ASSUME NEW i PROVE Part(plan, F(i))
    BY MoveParts
  <2>2. nF \in Int /\ \A k \in 1..nF : Part(plan, gF[k])
    <3> HIDE DEF F
    <3> QED BY <2>1, PlanType
  <2>3. gF = [k \in 1..nF |-> gF[k]]
    OBVIOUS
  <2> HIDE DEF nF, gF
  <2> QED BY <2>2, <2>3, FlattenParts
<1>3. Part(plan, Ext!FlattenSeq(gG))
  <2>1. ASSUME NEW i PROVE Part(plan, G(i))
    BY MoveParts
  <2>2. nG \in Int /\ \A k \in 1..nG : Part(plan, gG[k])
    <3> HIDE DEF G
    <3> QED BY <2>1, PlanType
  <2>3. gG = [k \in 1..nG |-> gG[k]]
    OBVIOUS
  <2> HIDE DEF nG, gG
  <2> QED BY <2>2, <2>3, FlattenParts
<1> HIDE DEF gF, gG
<1> QED BY <1>1, <1>2, <1>3, TriedParts, LocalParts, JoinParts

(* The mixed C2C transform in place, forward.                              *)
LEMMA MixedC2CForwardInPlacePart ==
  ASSUME plan \in Plans, NEW m
  PROVE  Part(plan, MixedC2CForwardInPlace(m))
<1> DEFINE F(i) == MixedTransition(i, "forward", Array(m)) \o AgreedStage(i + 1, "forward", Array(m), Array(m))
           nF == Last - 1 - 0 + 1
           gF == [k \in 1..nF |-> F(0 + k - 1)]
<1>1. MixedC2CForwardInPlace(m) =
        AgreedStage(0, "forward", Array(m), Array(m)) \o Ext!FlattenSeq(gF)
  BY DEF MixedC2CForwardInPlace, Up
<1>2. Part(plan, Ext!FlattenSeq(gF))
  <2>1. ASSUME NEW i PROVE Part(plan, F(i))
    BY MixedParts
  <2>2. nF \in Int /\ \A k \in 1..nF : Part(plan, gF[k])
    <3> HIDE DEF F
    <3> QED BY <2>1, PlanType
  <2>3. gF = [k \in 1..nF |-> gF[k]]
    OBVIOUS
  <2> HIDE DEF nF, gF
  <2> QED BY <2>2, <2>3, FlattenParts
<1> HIDE DEF gF
<1> QED BY <1>1, <1>2, TriedParts, JoinParts

(* The mixed C2C transform in place, reverse.                              *)
LEMMA MixedC2CReverseInPlacePart ==
  ASSUME plan \in Plans, NEW m
  PROVE  Part(plan, MixedC2CReverseInPlace(m))
<1> DEFINE F(i) == MixedTransition(i, "reverse", Array(m)) \o AgreedStage(i, "reverse", Array(m), Array(m))
           nF == Last - 1 - 0 + 1
           gF == [k \in 1..nF |-> F(Last - 1 - k + 1)]
<1>1. MixedC2CReverseInPlace(m) =
        AgreedStage(Last, "reverse", Array(m), Array(m)) \o Ext!FlattenSeq(gF)
  BY DEF MixedC2CReverseInPlace, Down
<1>2. Part(plan, Ext!FlattenSeq(gF))
  <2>1. ASSUME NEW i PROVE Part(plan, F(i))
    BY MixedParts
  <2>2. nF \in Int /\ \A k \in 1..nF : Part(plan, gF[k])
    <3> HIDE DEF F
    <3> QED BY <2>1, PlanType
  <2>3. gF = [k \in 1..nF |-> gF[k]]
    OBVIOUS
  <2> HIDE DEF nF, gF
  <2> QED BY <2>2, <2>3, FlattenParts
<1> HIDE DEF gF
<1> QED BY <1>1, <1>2, TriedParts, JoinParts

(* The mixed real transform, forward.                                      *)
LEMMA MixedR2CForwardPart ==
  ASSUME plan \in Plans, NEW m
  PROVE  Part(plan, MixedR2CForward(m))
<1> DEFINE F(i) == MixedTransition(i, "forward", RealIntermediate) \o
                   AgreedStage(i + 1, "forward", RealIntermediate, 
                               IF i + 1 = Boundary THEN Intermediate ELSE RealIntermediate)
           nF == Boundary - 1 - 0 + 1
           gF == [k \in 1..nF |-> F(0 + k - 1)]
<1>1. MixedR2CForward(m) =
        (IF Boundary = 0 THEN AgreedStage(0, "forward", Source(m), Intermediate)
         ELSE AgreedStage(0, "forward", Source(m), RealIntermediate) \o Ext!FlattenSeq(gF))
        \o MixedForwardTail(Boundary, Destination(m))
  BY DEF MixedR2CForward, Up
<1>2. Part(plan, Ext!FlattenSeq(gF))
  <2>1. ASSUME NEW i PROVE Part(plan, F(i))
    BY MixedParts
  <2>2. nF \in Int /\ \A k \in 1..nF : Part(plan, gF[k])
    <3> HIDE DEF F
    <3> QED BY <2>1, PlanType
  <2>3. gF = [k \in 1..nF |-> gF[k]]
    OBVIOUS
  <2> HIDE DEF nF, gF
  <2> QED BY <2>2, <2>3, FlattenParts
<1> HIDE DEF gF
<1> QED BY <1>1, <1>2, PlanType, MixedForwardTailPart, TriedParts, JoinParts

(* The mixed real transform, reverse.                                      *)
LEMMA MixedR2CReversePart ==
  ASSUME plan \in Plans, NEW m \in Int
  PROVE  Part(plan, MixedR2CReverse(m)) /\ Sees(MixedR2CReverse(m), m)
<1> DEFINE F(i) == MixedTransition(i, "reverse", RealIntermediate) \o
                   AgreedStage(i, "reverse", RealIntermediate, 
                               IF i = 0 THEN Destination(m) ELSE RealIntermediate)
           nF == Boundary - 1 - 0 + 1
           gF == [k \in 1..nF |-> F(Boundary - 1 - k + 1)]
<1>1. MixedR2CReverse(m) =
        MixedReverseTail(Boundary, Source(m)) \o ValidateBoundary(m) \o
        ZeroMixedBoundary(Intermediate) \o
        (IF Boundary = 0 THEN AgreedStage(0, "reverse", Intermediate, Destination(m))
         ELSE AgreedStage(Boundary, "reverse", Intermediate, RealIntermediate) \o Ext!FlattenSeq(gF))
  BY DEF MixedR2CReverse, Down
<1>2. Part(plan, Ext!FlattenSeq(gF))
  <2>1. ASSUME NEW i PROVE Part(plan, F(i))
    BY MixedParts
  <2>2. nF \in Int /\ \A k \in 1..nF : Part(plan, gF[k])
    <3> HIDE DEF F
    <3> QED BY <2>1, PlanType
  <2>3. gF = [k \in 1..nF |-> gF[k]]
    OBVIOUS
  <2> HIDE DEF nF, gF
  <2> QED BY <2>2, <2>3, FlattenParts
<1> HIDE DEF gF
<1> QED BY <1>1, <1>2, PlanType, ValidatePart, MixedReverseTailPart, TriedParts, JoinParts, JoinPartSees, ValidateSees

(* The mixed real transform with overlap, forward.                         *)
LEMMA MixedR2CForwardOverlapPart ==
  ASSUME plan \in Plans, NEW m
  PROVE  Part(plan, MixedR2CForwardOverlap(m))
<1> DEFINE F(i) == Overlapped(i, "forward", RealIntermediate,
                     <<Stage(i + 1, "forward", RealIntermediate, 
                             IF i + 1 = Boundary THEN Intermediate ELSE RealIntermediate)>>)
           nF == Boundary - 1 - 0 + 1
           gF == [k \in 1..nF |-> F(0 + k - 1)]
           G(i) == Overlapped(i, "forward", Intermediate,
                     <<Stage(i + 1, "forward", Intermediate, Intermediate)>>)
           nG == Last - 1 - Boundary + 1
           gG == [k \in 1..nG |-> G(Boundary + k - 1)]
<1>1. MixedR2CForwardOverlap(m) =
        (IF Boundary = 0 THEN AgreedStage(0, "forward", Source(m), Intermediate)
         ELSE AgreedStage(0, "forward", Source(m), RealIntermediate) \o Ext!FlattenSeq(gF))
        \o Ext!FlattenSeq(gG) \o <<Copy(Intermediate, Destination(m))>>
  BY DEF MixedR2CForwardOverlap, Up
<1>2. Part(plan, Ext!FlattenSeq(gF))
  <2>1. ASSUME NEW i PROVE Part(plan, F(i))
    BY MoveParts
  <2>2. nF \in Int /\ \A k \in 1..nF : Part(plan, gF[k])
    <3> HIDE DEF F
    <3> QED BY <2>1, PlanType
  <2>3. gF = [k \in 1..nF |-> gF[k]]
    OBVIOUS
  <2> HIDE DEF nF, gF
  <2> QED BY <2>2, <2>3, FlattenParts
<1>3. Part(plan, Ext!FlattenSeq(gG))
  <2>1. ASSUME NEW i PROVE Part(plan, G(i))
    BY MoveParts
  <2>2. nG \in Int /\ \A k \in 1..nG : Part(plan, gG[k])
    <3> HIDE DEF G
    <3> QED BY <2>1, PlanType
  <2>3. gG = [k \in 1..nG |-> gG[k]]
    OBVIOUS
  <2> HIDE DEF nG, gG
  <2> QED BY <2>2, <2>3, FlattenParts
<1> HIDE DEF gF, gG
<1> QED BY <1>1, <1>2, <1>3, TriedParts, LocalParts, JoinParts

(* The mixed real transform with overlap, reverse.                         *)
LEMMA MixedR2CReverseOverlapPart ==
  ASSUME plan \in Plans, NEW m \in Int
  PROVE  Part(plan, MixedR2CReverseOverlap(m)) /\ Sees(MixedR2CReverseOverlap(m), m)
<1> DEFINE target == IF Boundary = 0 THEN Destination(m) ELSE RealIntermediate
           convert == ValidateBoundary(m) \o
                      <<Zero(Intermediate), Stage(Boundary, "reverse", Intermediate, target)>>
           F(i) == OverlappedOrAgreed(i, "reverse", Intermediate,
                     <<Stage(i, "reverse", Intermediate, Intermediate)>>)
           nF == Last - 1 - (Boundary + 1) + 1
           gF == [k \in 1..nF |-> F(Last - 1 - k + 1)]
           G(i) == OverlappedOrAgreed(i, "reverse", RealIntermediate,
                     <<Stage(i, "reverse", RealIntermediate, RealIntermediate)>>)
           nG == Boundary - 1 - 0 + 1
           gG == [k \in 1..nG |-> G(Boundary - 1 - k + 1)]
<1>1. MixedR2CReverseOverlap(m) =
        (IF Boundary = Last THEN Try(<<Copy(Source(m), Intermediate)>>, "stage", Last)
         ELSE AgreedStage(Last, "reverse", Source(m), Intermediate)) \o
        Ext!FlattenSeq(gF) \o
        (IF Boundary < Last THEN OverlappedOrAgreed(Boundary, "reverse", Intermediate, convert)
         ELSE Try(convert, "converted", Boundary)) \o
        If(Boundary # 0, Ext!FlattenSeq(gG) \o <<Copy(RealIntermediate, Destination(m))>>)
  BY DEF MixedR2CReverseOverlap, Down
<1>2. Part(plan, Ext!FlattenSeq(gF))
  <2>1. ASSUME NEW i PROVE Part(plan, F(i))
    <3>1. Answerable(plan, <<Stage(i, "reverse", Intermediate, Intermediate)>>) /\ Part(plan, <<Stage(i, "reverse", Intermediate, Intermediate)>>)
      BY LocalAnswerable, LocalParts
    <3> QED BY <3>1, OverlappedOrAgreedPart
  <2>2. nF \in Int /\ \A k \in 1..nF : Part(plan, gF[k])
    <3> HIDE DEF F
    <3> QED BY <2>1, PlanType
  <2>3. gF = [k \in 1..nF |-> gF[k]]
    OBVIOUS
  <2> HIDE DEF nF, gF
  <2> QED BY <2>2, <2>3, FlattenParts
<1>3. Part(plan, Ext!FlattenSeq(gG))
  <2>1. ASSUME NEW i PROVE Part(plan, G(i))
    <3>1. Answerable(plan, <<Stage(i, "reverse", RealIntermediate, RealIntermediate)>>) /\ Part(plan, <<Stage(i, "reverse", RealIntermediate, RealIntermediate)>>)
      BY LocalAnswerable, LocalParts
    <3> QED BY <3>1, OverlappedOrAgreedPart
  <2>2. nG \in Int /\ \A k \in 1..nG : Part(plan, gG[k])
    <3> HIDE DEF G
    <3> QED BY <2>1, PlanType
  <2>3. gG = [k \in 1..nG |-> gG[k]]
    OBVIOUS
  <2> HIDE DEF nG, gG
  <2> QED BY <2>2, <2>3, FlattenParts
<1>4. Part(plan, convert) /\ Answerable(plan, convert)
  BY ConvertPart
<1>a. Sees(convert, m)
  <2>1. Part(plan, <<Zero(Intermediate), Stage(Boundary, "reverse", Intermediate, target)>>)
    BY LocalParts, TwoParts
  <2>2. Part(plan, ValidateBoundary(m)) /\ Sees(ValidateBoundary(m), m)
    BY ValidatePart, ValidateSees
  <2> QED BY <2>1, <2>2, JoinPartSees
<1> HIDE DEF gF, gG, convert
<1>5. Part(plan, Try(convert, "converted", Boundary))
  <2>1. "converted" \in ResultName
    BY DEF ResultName
  <2> QED BY <1>4, <2>1, TryPart
<1>6. Sees(Try(convert, "converted", Boundary), m)
  BY <1>4, <1>a, TrySees
<1>7. /\ Part(plan, OverlappedOrAgreed(Boundary, "reverse", Intermediate, convert))
      /\ Sees(OverlappedOrAgreed(Boundary, "reverse", Intermediate, convert), m)
  BY <1>4, <1>a, OverlappedOrAgreedPart, OverlappedOrAgreedSees
<1> DEFINE u == IF Boundary = Last THEN Try(<<Copy(Source(m), Intermediate)>>, "stage", Last)
                ELSE AgreedStage(Last, "reverse", Source(m), Intermediate)
           v == IF Boundary < Last THEN OverlappedOrAgreed(Boundary, "reverse", Intermediate, convert)
                ELSE Try(convert, "converted", Boundary)
           w == If(Boundary # 0, Ext!FlattenSeq(gG) \o <<Copy(RealIntermediate, Destination(m))>>)
<1>8. Part(plan, u) /\ Part(plan, v) /\ Sees(v, m) /\ Part(plan, w)
  BY <1>3, <1>5, <1>6, <1>7, TriedParts, LocalParts, JoinParts, NoPart DEF If
<1> HIDE DEF u, v, w
<1>9. Part(plan, ((u \o Ext!FlattenSeq(gF)) \o v) \o w) /\ Sees(((u \o Ext!FlattenSeq(gF)) \o v) \o w, m)
  BY <1>2, <1>8, JoinParts, JoinPartSees
<1> QED BY <1>1, <1>9 DEF u, v, w

(* The mixed real transform in place, forward.                             *)
LEMMA MixedR2CForwardInPlacePart ==
  ASSUME plan \in Plans, NEW m
  PROVE  Part(plan, MixedR2CForwardInPlace(m))
<1> DEFINE F(i) == MixedTransition(i, "forward", Array(m)) \o
                   If(i + 1 < Boundary, AgreedStage(i + 1, "forward", Array(m), Array(m)))
           nF == Boundary - 1 - 0 + 1
           gF == [k \in 1..nF |-> F(0 + k - 1)]
           G(i) == MixedTransition(i, "forward", Array(m)) \o AgreedStage(i + 1, "forward", Array(m), Array(m))
           nG == Last - 1 - Boundary + 1
           gG == [k \in 1..nG |-> G(Boundary + k - 1)]
<1>1. MixedR2CForwardInPlace(m) =
        If(Boundary > 0, AgreedStage(0, "forward", Array(m), Array(m)) \o Ext!FlattenSeq(gF)) \o
        Try(<<Convert("forward", m)>>, "conversion", m) \o Ext!FlattenSeq(gG)
  BY DEF MixedR2CForwardInPlace, Up
<1>2. Part(plan, Ext!FlattenSeq(gF))
  <2>1. ASSUME NEW i PROVE Part(plan, F(i))
    <3>1. (i + 1 < Boundary) \in BOOLEAN
      OBVIOUS
    <3> QED BY <3>1, MixedParts
  <2>2. nF \in Int /\ \A k \in 1..nF : Part(plan, gF[k])
    <3> HIDE DEF F
    <3> QED BY <2>1, PlanType
  <2>3. gF = [k \in 1..nF |-> gF[k]]
    OBVIOUS
  <2> HIDE DEF nF, gF
  <2> QED BY <2>2, <2>3, FlattenParts
<1>3. Part(plan, Ext!FlattenSeq(gG))
  <2>1. ASSUME NEW i PROVE Part(plan, G(i))
    BY MixedParts
  <2>2. nG \in Int /\ \A k \in 1..nG : Part(plan, gG[k])
    <3> HIDE DEF G
    <3> QED BY <2>1, PlanType
  <2>3. gG = [k \in 1..nG |-> gG[k]]
    OBVIOUS
  <2> HIDE DEF nG, gG
  <2> QED BY <2>2, <2>3, FlattenParts
<1> HIDE DEF gF, gG
<1> QED BY <1>1, <1>2, <1>3, TriedParts, JoinParts, NoPart DEF If

(* The mixed real transform in place, reverse.                             *)
LEMMA MixedR2CReverseInPlacePart ==
  ASSUME plan \in Plans, NEW m \in Int
  PROVE  Part(plan, MixedR2CReverseInPlace(m)) /\ Sees(MixedR2CReverseInPlace(m), m)
<1> DEFINE F(i) == AgreedStage(i, "reverse", Array(m), Array(m)) \o MixedTransition(i - 1, "reverse", Array(m))
           nF == Last - (Boundary + 1) + 1
           gF == [k \in 1..nF |-> F(Last - k + 1)]
           G(i) == MixedTransition(i, "reverse", Array(m)) \o AgreedStage(i, "reverse", Array(m), Array(m))
           nG == Boundary - 1 - 0 + 1
           gG == [k \in 1..nG |-> G(Boundary - 1 - k + 1)]
<1>1. MixedR2CReverseInPlace(m) =
        Ext!FlattenSeq(gF) \o ValidateBoundary(m) \o ZeroMixedBoundary(Array(m)) \o
        Try(<<Convert("reverse", m)>>, "conversion", m) \o Ext!FlattenSeq(gG)
  BY DEF MixedR2CReverseInPlace, Down
<1>2. Part(plan, Ext!FlattenSeq(gF))
  <2>1. ASSUME NEW i PROVE Part(plan, F(i))
    BY MixedParts
  <2>2. nF \in Int /\ \A k \in 1..nF : Part(plan, gF[k])
    <3> HIDE DEF F
    <3> QED BY <2>1, PlanType
  <2>3. gF = [k \in 1..nF |-> gF[k]]
    OBVIOUS
  <2> HIDE DEF nF, gF
  <2> QED BY <2>2, <2>3, FlattenParts
<1>3. Part(plan, Ext!FlattenSeq(gG))
  <2>1. ASSUME NEW i PROVE Part(plan, G(i))
    BY MixedParts
  <2>2. nG \in Int /\ \A k \in 1..nG : Part(plan, gG[k])
    <3> HIDE DEF G
    <3> QED BY <2>1, PlanType
  <2>3. gG = [k \in 1..nG |-> gG[k]]
    OBVIOUS
  <2> HIDE DEF nG, gG
  <2> QED BY <2>2, <2>3, FlattenParts
<1> HIDE DEF gF, gG
<1> QED BY <1>1, <1>2, <1>3, ValidatePart, TriedParts, JoinParts, JoinPartSees, ValidateSees

----------------------------------------------------------------------------
(* Whole scripts.                                                          *)

(* Agreements, of the header first, before a part.                         *)
Header(s) == s # <<>> /\ s[1] = Agree("header", 0)

Front(p, names, s) ==
  \E a \in Seq(Agreement(names)) : \E b : Header(a) /\ Part(p, b) /\ s = a \o b

(* What may follow the agreements of a call.                               *)
Remainder(p, s) ==
  /\ \E E : s \in Seq(E)
  /\ Answered(p, s)
  /\ \A k \in 1..Len(s) :
       /\ Named(s[k]) /\ ~ TurnsDown(s[k])
       /\ s[k].do = "refuse" => s[k].caught = "no"
       /\ s[k].do = "convert" => s[k].caught = "result"

(* What an agreement is, as a step.                                        *)
LEMMA AgreementFacts ==
  ASSUME NEW x \in Agreement(AnyName)
  PROVE  /\ x.do = "agree" /\ x.caught = "no" /\ x.place \in AnyName \X Int /\ x.place[1] \in AnyName
         /\ Named(x) /\ ~ MayFail(x)
<1>1. x.do = "agree" /\ x.caught = "no" /\ x.place \in AnyName \X Int /\ {"do", "place", "caught"} \subseteq DOMAIN x
  BY DEF Agreement
<1>2. x.place[1] \in AnyName /\ x.place # OK
  <2>1. \A y \in AnyName \X Int : y[1] \in AnyName
    OBVIOUS
  <2>2. OK[1] = "ok" /\ "ok" \notin AnyName
    BY DEF OK, AnyName, MemberName, InnerName
  <2> QED BY <1>1, <2>1, <2>2
<1>3. Named(x) /\ ~ MayFail(x)
  BY <1>1, <1>2 DEF Named, MayFail, Refusing
<1> QED BY <1>1, <1>2, <1>3

(* Agreements and a part after them make a whole script.                   *)
LEMMA FrontWhole ==
  ASSUME NEW p, NEW a \in Seq(Agreement(AnyName)), NEW b, Remainder(p, b)
  PROVE  Whole(p, a \o b)
<1> DEFINE u == a \o b
           m == Len(a)
           n == Len(b)
<1>1. (\E E : a \in Seq(E)) /\ (\E E : b \in Seq(E)) /\ Answered(p, b)
  BY DEF Remainder
<1>2. /\ m \in Nat /\ n \in Nat /\ Len(u) = m + n /\ \E E : u \in Seq(E)
      /\ \A k \in 1..m : u[k] = a[k]
      /\ \A k \in 1..(m + n) : k \in 1..m \/ (k - m \in 1..n /\ u[k] = b[k - m])
  BY <1>1, JoinedSteps
<1>3. \A k \in 1..m : a[k].do = "agree" /\ a[k].caught = "no" /\ Named(a[k]) /\ ~ MayFail(a[k])
  <2>1. \A k \in 1..m : a[k] \in Agreement(AnyName)
    OBVIOUS
  <2> HIDE DEF m
  <2> QED BY <2>1, AgreementFacts
<1>4. Answered(p, u)
  <2>1. Answered(p, a)
    BY <1>3 DEF Answered
  <2> QED BY <1>1, <2>1, JoinAnswered
<1>5. \A k \in 1..n :
        /\ Named(b[k]) /\ ~ TurnsDown(b[k])
        /\ b[k].do = "refuse" => b[k].caught = "no"
        /\ b[k].do = "convert" => b[k].caught = "result"
  BY DEF Remainder
<1> HIDE DEF u, m, n
<1>6. ASSUME NEW k \in 1..Len(u)
      PROVE  /\ Named(u[k])
             /\ u[k].do = "refuse" => u[k].caught = "no"
             /\ u[k].do = "convert" => u[k].caught = "result"
             /\ TurnsDown(u[k]) => \A i \in 1..k : u[i].do = "agree"
  <2>1. CASE k \in 1..m
    <3>1. \A i \in 1..k : i \in 1..m
      BY <1>2, <2>1
    <3> QED BY <1>2, <1>3, <2>1, <3>1
  <2>2. CASE k \notin 1..m
    <3>1. k - m \in 1..n /\ u[k] = b[k - m]
      BY <1>2, <2>2
    <3> QED BY <1>5, <3>1
  <2> QED BY <2>1, <2>2
<1> QED BY <1>2, <1>4, <1>6 DEF Whole, u

(* A member's call within a collection: its result catches what nothing    *)
(* else has caught.                                                        *)
LEMMA MemberPart ==
  ASSUME NEW p, NEW s, Front(p, MemberName, s), NEW m
  PROVE  Part(p, ExecuteMember(s, m))
<1>a. PICK a \in Seq(Agreement(MemberName)) : \E b : Header(a) /\ Part(p, b) /\ s = a \o b
  BY DEF Front
<1>0. PICK b : Header(a) /\ Part(p, b) /\ s = a \o b
  BY <1>a
<1>1. (\E E : a \in Seq(E)) /\ (\E E : b \in Seq(E)) /\ Answered(p, b)
  BY <1>0 DEF Part
<1> DEFINE n == Len(s)
           c == [k \in DOMAIN s |-> [s[k] EXCEPT !.caught = IF @ = "no" THEN "member" ELSE @]]
           x == Result("member execution", m)
<1>2. \A k \in 1..Len(a) : /\ a[k] \in Agreement(AnyName)
                           /\ a[k].place[1] \in MemberName
  <2>1. \A y \in Agreement(MemberName) : y \in Agreement(AnyName) /\ y.place[1] \in MemberName
    <3>1. \A y \in Agreement(MemberName) : y \in Agreement(AnyName) /\ y.place \in MemberName \X Int
      BY DEF Agreement, AnyName
    <3>2. \A y \in MemberName \X Int : y[1] \in MemberName
      OBVIOUS
    <3> QED BY <3>1, <3>2
  <2>2. \A k \in 1..Len(a) : a[k] \in Agreement(MemberName)
    OBVIOUS
  <2> QED BY <2>1, <2>2
<1>3. /\ n \in Nat /\ \E E : s \in Seq(E)
      /\ \A k \in 1..n :
           /\ Named(s[k]) /\ s[k].do # "refuse"
           /\ s[k].do = "convert" => s[k].caught = "result"
           /\ TurnsDown(s[k]) => s[k].caught = "no" /\ s[k].place[1] # "member preflight"
  <2>1. /\ Len(a) \in Nat /\ Len(b) \in Nat /\ Len(s) = Len(a) + Len(b) /\ \E E : s \in Seq(E)
        /\ \A k \in 1..Len(a) : s[k] = a[k]
        /\ \A k \in 1..(Len(a) + Len(b)) : k \in 1..Len(a) \/ (k - Len(a) \in 1..Len(b) /\ s[k] = b[k - Len(a)])
    BY <1>0, <1>1, JoinedSteps
  <2>2. \A k \in 1..Len(a) :
          /\ Named(a[k]) /\ a[k].do = "agree" /\ a[k].caught = "no"
          /\ a[k].place[1] # "member preflight"
    <3>1. "member preflight" \notin MemberName
      BY DEF MemberName, InnerName
    <3> QED BY <1>2, <3>1, AgreementFacts
  <2>3. \A k \in 1..Len(b) : Inner(b[k])
    BY <1>0 DEF Part
  <2>4. ASSUME NEW k \in 1..n
        PROVE  /\ Named(s[k]) /\ s[k].do # "refuse"
               /\ s[k].do = "convert" => s[k].caught = "result"
               /\ TurnsDown(s[k]) => s[k].caught = "no" /\ s[k].place[1] # "member preflight"
    <3>1. CASE k \in 1..Len(a)
      BY <2>1, <2>2, <3>1
    <3>2. CASE k \notin 1..Len(a)
      <4>1. k - Len(a) \in 1..Len(b) /\ s[k] = b[k - Len(a)]
        BY <2>1, <3>2
      <4> QED BY <2>3, <4>1 DEF Inner
    <3> QED BY <3>1, <3>2
  <2>5. n \in Nat
    BY <2>1
  <2> HIDE DEF n
  <2> QED BY <2>1, <2>4, <2>5
<1>4. Answered(p, s)
  <2>1. \A k \in 1..Len(a) : ~ MayFail(a[k])
    BY <1>2, AgreementFacts
  <2>2. Answered(p, a)
    BY <2>1 DEF Answered
  <2> QED BY <1>0, <1>1, <2>2, JoinAnswered
<1>5. DOMAIN s = 1..n /\ n \in Nat /\ c = [k \in 1..n |-> c[k]]
  <2>1. PICK E : s \in Seq(E)
    BY <1>3
  <2>2. DOMAIN s = 1..n /\ n \in Nat
    BY <2>1
  <2> QED BY <2>2
<1>6. ASSUME NEW k \in 1..n
      PROVE  /\ Named(c[k]) /\ c[k].do = s[k].do
             /\ c[k].caught = (IF s[k].caught = "no" THEN "member" ELSE s[k].caught)
             /\ c[k].do \in Refusing => c[k].place = s[k].place
             /\ Meeting(p, c[k]) = Meeting(p, s[k])
  <2>1. PICK y, z : y = s[k] /\ z = c[k] /\ z = [y EXCEPT !.caught = IF @ = "no" THEN "member" ELSE @]
    BY <1>5
  <2>2. Named(y)
    <3> HIDE DEF c, n
    <3> QED BY <1>3, <2>1
  <2>3. /\ DOMAIN z = DOMAIN y /\ z.do = y.do
        /\ z.caught = (IF y.caught = "no" THEN "member" ELSE y.caught)
        /\ "place" \in DOMAIN y => z.place = y.place
        /\ "i" \in DOMAIN y => z.i = y.i
    BY <2>1, <2>2 DEF Named
  <2>4. Named(z) /\ (z.do \in Refusing => z.place = y.place)
    BY <2>2, <2>3 DEF Named, Refusing
  <2>5. Meeting(p, z) = Meeting(p, y)
    BY <2>2, <2>3 DEF Named, Meeting
  <2> HIDE DEF c, n
  <2> QED BY <2>1, <2>3, <2>4, <2>5
<1>7. c \in Seq({c[k] : k \in 1..n}) /\ Len(c) = n
  <2> DEFINE T == {c[k] : k \in 1..n}
  <2>1. c \in [1..n -> T] /\ DOMAIN c = 1..n
    BY <1>5
  <2>2. n \in Nat
    BY <1>3
  <2> HIDE DEF T, c, n
  <2>3. c \in Seq(T)
    BY <2>1, <2>2, SeqDef
  <2> QED BY <2>1, <2>2, <2>3 DEF T
<1>8. Part(p, c)
  <2> HIDE DEF c, n
  <2>1. ASSUME NEW k \in 1..Len(c) PROVE Inner(c[k])
    <3>1. k \in 1..n
      BY <1>7
    <3>2. ~ TurnsDown(c[k])
      <4>1. ASSUME c[k].do = "agree", s[k].caught = "no" PROVE c[k].caught = "member"
        BY <1>6, <3>1, <4>1
      <4> QED BY <1>3, <1>6, <3>1, <4>1 DEF TurnsDown, Refusing
    <3>3. c[k].do = "convert" => c[k].caught = "result"
      BY <1>3, <1>6, <3>1
    <3> QED BY <1>3, <1>6, <3>1, <3>2, <3>3 DEF Inner
  <2>2. Answered(p, c)
    <3>1. ASSUME NEW k \in 1..n, MayFail(c[k])
          PROVE  \E h \in (k + 1)..n : c[h].do = "result" /\ \A i \in (k + 1)..(h - 1) : ~ Meeting(p, c[i])
      <4>1. MayFail(s[k])
        BY <1>6, <3>1 DEF MayFail
      <4>2. PICK h \in (k + 1)..n : s[h].do = "result" /\ \A i \in (k + 1)..(h - 1) : ~ Meeting(p, s[i])
        BY <1>4, <4>1 DEF Answered, n
      <4>3. h \in 1..n /\ \A i \in (k + 1)..(h - 1) : i \in 1..n
        BY <1>5
      <4> QED BY <1>6, <4>2, <4>3
    <3> QED BY <1>7, <3>1 DEF Answered
  <2> QED BY <1>7, <2>1, <2>2 DEF Part
<1>9. Part(p, <<x>>)
  <2>1. "member execution" \in ResultName
    BY DEF ResultName
  <2>2. Inner(x) /\ ~ MayFail(x)
    BY <2>1, ResultStep
  <2> QED BY <2>2, OneStep
<1>10. ExecuteMember(s, m) = c \o <<x>>
  <2>1. ExecuteMember(s, m) = Append(c, x)
    BY DEF ExecuteMember
  <2> HIDE DEF c, x
  <2> QED BY <1>7, <2>1
<1> HIDE DEF c, x
<1> QED BY <1>8, <1>9, <1>10, JoinParts

(* The agreements before a call's own steps.                               *)
LEMMA HeaderKept ==
  ASSUME NEW E, NEW F, NEW s \in Seq(E), NEW t \in Seq(F), Header(s)
  PROVE  Header(s \o t)
<1>1. Len(s) \in Nat /\ Len(s) # 0
  BY DEF Header
<1>2. 1 \in 1..Len(s) /\ Len(s \o t) = Len(s) + Len(t) /\ (s \o t)[1] = s[1]
  BY <1>1, JoinedSteps
<1>3. Len(s \o t) # 0
  BY <1>1, <1>2
<1> QED BY <1>2, <1>3 DEF Header

(* A single agreement can stand in front.                                  *)
LEMMA FrontOf ==
  ASSUME NEW p, NEW names, NEW a \in Seq(Agreement(names)), Header(a), NEW b, Part(p, b)
  PROVE  Front(p, names, a \o b)
BY DEF Front

(* So can several of them.                                                 *)
LEMMA FrontJoin ==
  ASSUME NEW p, NEW names, NEW s, Front(p, names, s), NEW t, Part(p, t)
  PROVE  Front(p, names, s \o t)
<1>a. PICK a \in Seq(Agreement(names)) : \E b : Header(a) /\ Part(p, b) /\ s = a \o b
  BY DEF Front
<1>1. PICK b : Header(a) /\ Part(p, b) /\ s = a \o b
  BY <1>a
<1>2. Part(p, b \o t)
  BY <1>1, JoinParts
<1>3. s \o t = a \o (b \o t)
  <2>1. (\E E : a \in Seq(E)) /\ (\E E : b \in Seq(E)) /\ (\E E : t \in Seq(E))
    BY <1>1 DEF Part
  <2> QED BY <1>1, <2>1, JoinsAssociate
<1> QED BY <1>1, <1>2, <1>3 DEF Front

(* The agreements on a descriptor.                                         *)
LEMMA DescriptorSteps ==
  ASSUME NEW names, {"header", "ready", "minimum", "maximum", "preflight"} \subseteq names, NEW m \in Int
  PROVE  /\ AgreeHeader \o CollectiveDescriptor \in Seq(Agreement(names))
         /\ Header(AgreeHeader \o CollectiveDescriptor)
         /\ AgreeExecutionDescriptor \in Seq(Agreement(names)) /\ Header(AgreeExecutionDescriptor)
         /\ Preflight(m) \in Seq(Agreement(names))
         /\ AgreeExecutionDescriptor \o Preflight(m) \in Seq(Agreement(names))
         /\ Header(AgreeExecutionDescriptor \o Preflight(m))
<1> DEFINE X == Agreement(names)
<1>1. /\ Agree("header", 0) \in X /\ Agree("ready", 0) \in X /\ Agree("minimum", 0) \in X
      /\ Agree("maximum", 0) \in X /\ Agree("preflight", m) \in X
  BY AgreeIs
<1> HIDE DEF X
<1>2. AgreeHeader \in Seq(X) /\ Header(AgreeHeader)
  <2>1. AgreeHeader \in Seq(X)
    BY <1>1, OneOf DEF AgreeHeader
  <2>2. PICK y, x : y = AgreeHeader /\ y = <<x>> /\ x = Agree("header", 0)
    BY DEF AgreeHeader
  <2>3. y # <<>> /\ y[1] = x
    BY <2>2
  <2> QED BY <2>1, <2>2, <2>3 DEF Header
<1>3. CollectiveDescriptor \in Seq(X)
  BY <1>1, ThreeOf DEF CollectiveDescriptor
<1>4. Preflight(m) \in Seq(X)
  BY <1>1, OneOf DEF Preflight
<1>5. AgreeHeader \o CollectiveDescriptor \in Seq(X) /\ Header(AgreeHeader \o CollectiveDescriptor)
  BY <1>2, <1>3, JoinOf, HeaderKept
<1>6. AgreeExecutionDescriptor \in Seq(X) /\ Header(AgreeExecutionDescriptor)
  BY <1>5 DEF AgreeExecutionDescriptor
<1>7. AgreeExecutionDescriptor \o Preflight(m) \in Seq(X) /\ Header(AgreeExecutionDescriptor \o Preflight(m))
  BY <1>4, <1>6, JoinOf, HeaderKept
<1> QED BY <1>4, <1>5, <1>6, <1>7 DEF X

(* The agreement on the transport.                                         *)
LEMMA TransportSteps ==
  ASSUME NEW m \in Int
  PROVE  /\ AgreeExecutionDescriptor \o Preflight(m) \o <<Agree("transport", 0)>> \in Seq(Agreement(AnyName))
         /\ Header(AgreeExecutionDescriptor \o Preflight(m) \o <<Agree("transport", 0)>>)
         /\ AgreeExecutionDescriptor \o (Preflight(m) \o <<Agree("transport", 0)>>) \in Seq(Agreement(AnyName))
         /\ Header(AgreeExecutionDescriptor \o (Preflight(m) \o <<Agree("transport", 0)>>))
         /\ Preflight(m) \o <<Agree("transport", 0)>> \in Seq(Agreement(AnyName))
<1> DEFINE X == Agreement(AnyName)
<1>1. /\ AgreeExecutionDescriptor \in Seq(X) /\ Header(AgreeExecutionDescriptor)
      /\ Preflight(m) \in Seq(X)
      /\ AgreeExecutionDescriptor \o Preflight(m) \in Seq(X)
      /\ Header(AgreeExecutionDescriptor \o Preflight(m))
  <2>1. {"header", "ready", "minimum", "maximum", "preflight"} \subseteq AnyName
    BY DEF AnyName, MemberName
  <2> QED BY <2>1, DescriptorSteps
<1>2. Agree("transport", 0) \in X
  <2>1. "transport" \in AnyName
    BY DEF AnyName
  <2> QED BY <2>1, AgreeIs
<1> HIDE DEF X
<1>3. <<Agree("transport", 0)>> \in Seq(X)
  BY <1>2, OneOf
<1>4. Preflight(m) \o <<Agree("transport", 0)>> \in Seq(X)
  BY <1>1, <1>3, JoinOf
<1> QED BY <1>1, <1>3, <1>4, JoinOf, HeaderKept DEF X

(* The agreements of one call, and a part after them.                      *)
LEMMA MemberFront ==
  ASSUME NEW m \in Int, NEW s, Part(plan, s)
  PROVE  Front(plan, MemberName, AgreeExecutionDescriptor \o Preflight(m) \o s)
<1>1. {"header", "ready", "minimum", "maximum", "preflight"} \subseteq MemberName
  BY DEF MemberName
<1> QED BY <1>1, DescriptorSteps, FrontOf

(* Every transform of one member.                                          *)
LEMMA ExecuteFront ==
  ASSUME plan \in Plans, NEW direction, NEW m \in Int
  PROVE  Front(plan, MemberName, Execute(direction, m))
<1>1. plan.family \in {"c2c", "r2r", "r2c", "mixed_c2c", "mixed_r2c"}
  BY PlanType
<1>2. Front(plan, MemberName, C2CExecute(direction, m))
  BY C2CParts, MemberFront DEF C2CExecute
<1>3. Front(plan, MemberName, R2RExecute(direction, m))
  BY R2RForwardPart, R2RReversePart, MemberFront DEF R2RExecute, R2RChecked
<1>4. Front(plan, MemberName, R2CExecuteForward(m)) /\ Front(plan, MemberName, R2CExecuteReverse(m))
  BY R2CForwardPart, R2CInversePart, MemberFront DEF R2CExecuteForward, R2CExecuteReverse
<1>5. Front(plan, MemberName, MixedC2CExecute(direction, m))
  BY MixedC2CParts, MemberFront DEF MixedC2CExecute
<1>6. Front(plan, MemberName, MixedR2CExecute(direction, m))
  BY MixedR2CForwardPart, MixedR2CReversePart, MemberFront DEF MixedR2CExecute
<1> QED BY <1>1, <1>2, <1>3, <1>4, <1>5, <1>6 DEF Execute

(* The transaction of an array in place is a part.                         *)
LEMMA TransactionPart ==
  ASSUME NEW d, NEW m, NEW s, Part(plan, s)
  PROVE  /\ Part(plan, <<InPlace("poison", m)>> \o s \o <<Finish(d, m)>>)
         /\ Part(plan, <<InPlace("poison", m)>>) /\ Part(plan, <<Finish(d, m)>>)
<1>1. Part(plan, <<InPlace("poison", m)>>) /\ Part(plan, <<Finish(d, m)>>)
  BY LocalParts
<1> QED BY <1>1, JoinParts

(* The same of members in place.                                           *)
LEMMA MemberFrontInPlace ==
  ASSUME NEW m \in Int, NEW s, Part(plan, s), NEW d
  PROVE  Front(plan, MemberName, AgreeExecutionDescriptor \o Preflight(m) \o <<InPlace("poison", m)>> \o s \o <<Finish(d, m)>>)
<1>1. Part(plan, <<InPlace("poison", m)>>) /\ Part(plan, <<Finish(d, m)>>)
  BY TransactionPart
<1>2. Front(plan, MemberName, AgreeExecutionDescriptor \o Preflight(m) \o <<InPlace("poison", m)>>)
  BY <1>1, MemberFront
<1> QED BY <1>1, <1>2, FrontJoin

(* A call in place begins with agreements.                                 *)
LEMMA ExecuteInPlaceFront ==
  ASSUME plan \in Plans, NEW direction, NEW m \in Int
  PROVE  Front(plan, MemberName, ExecuteInPlace(direction, m))
<1>1. plan.family \in {"c2c", "r2r", "r2c", "mixed_c2c", "mixed_r2c"}
  BY PlanType
<1>2. Front(plan, MemberName, C2CExecuteInPlace(direction, m))
  BY C2CForwardInPlacePart, C2CInverseInPlacePart, TransactionPart, MemberFront
     DEF C2CExecuteInPlace, RunInPlaceTransaction
<1>3. Front(plan, MemberName, R2RExecuteInPlace(direction, m))
  <2>1. R2RForwardInPlace(m) = C2CForwardInPlace(m) /\ R2RReverseInPlace(m) = C2CInverseInPlace(m)
    BY DEF R2RForwardInPlace, C2CForwardInPlace, R2RReverseInPlace, C2CInverseInPlace
  <2> QED BY <2>1, C2CForwardInPlacePart, C2CInverseInPlacePart, TransactionPart, MemberFront
          DEF R2RExecuteInPlace, R2RTransaction, R2RChecked
<1>4. Front(plan, MemberName, R2CExecuteInPlace(direction, m))
  BY R2CForwardInPlacePart, R2CReverseInPlacePart, MemberFrontInPlace DEF R2CExecuteInPlace
<1>5. Front(plan, MemberName, MixedC2CExecuteInPlace(direction, m))
  BY MixedC2CForwardInPlacePart, MixedC2CReverseInPlacePart, MemberFrontInPlace DEF MixedC2CExecuteInPlace
<1>6. Front(plan, MemberName, MixedR2CExecuteInPlace(direction, m))
  BY MixedR2CForwardInPlacePart, MixedR2CReverseInPlacePart, MemberFrontInPlace DEF MixedR2CExecuteInPlace
<1> QED BY <1>1, <1>2, <1>3, <1>4, <1>5, <1>6 DEF ExecuteInPlace

(* A part may stand after agreements.                                      *)
LEMMA PartRemains ==
  ASSUME NEW p, NEW s, Part(p, s)
  PROVE  Remainder(p, s)
BY DEF Part, Remainder, Inner

(* Agreements in front of a part leave it sound.                           *)
LEMMA FrontSound ==
  ASSUME NEW p, NEW s, Front(p, MemberName, s) \/ Front(p, AnyName, s)
  PROVE  Whole(p, s) /\ Header(s)
<1>a. PICK a \in Seq(Agreement(AnyName)) : \E b : Header(a) /\ Part(p, b) /\ s = a \o b
  <2>1. Agreement(MemberName) \subseteq Agreement(AnyName)
    BY DEF Agreement, AnyName
  <2>2. Seq(Agreement(MemberName)) \subseteq Seq(Agreement(AnyName))
    <3> DEFINE X == Agreement(MemberName)
               Y == Agreement(AnyName)
    <3> HIDE DEF X, Y
    <3>1. X \subseteq Y => Seq(X) \subseteq Seq(Y)
      OBVIOUS
    <3> QED BY <2>1, <3>1 DEF X, Y
  <2> QED BY <2>2 DEF Front
<1>1. PICK b : Header(a) /\ Part(p, b) /\ s = a \o b
  BY <1>a
<1>2. Remainder(p, b)
  BY <1>1, PartRemains
<1>3. \E E : b \in Seq(E)
  BY <1>2 DEF Remainder
<1> QED BY <1>1, <1>2, <1>3, FrontWhole, HeaderKept

(* The script of every call with overlap is whole.                         *)
LEMMA OverlapWhole ==
  ASSUME plan \in Plans, NEW direction, NEW m \in Int
  PROVE  Whole(plan, ExecuteOverlap(direction, m)) /\ Header(ExecuteOverlap(direction, m))
<1> DEFINE t == AgreeExecutionDescriptor \o Preflight(m) \o <<Agree("transport", 0)>>
<1>1. plan.family \in {"c2c", "r2r", "r2c", "mixed_c2c", "mixed_r2c"}
  BY PlanType
<1>2. ASSUME NEW s, Part(plan, s) PROVE Front(plan, AnyName, t \o s)
  BY <1>2, TransportSteps, FrontOf
<1>3. ASSUME NEW s, Part(plan, s) PROVE Whole(plan, t \o s) /\ Header(t \o s)
  BY <1>2, <1>3, FrontSound
<1> HIDE DEF t
<1>4. R2RReverseOverlap(m) = C2CInverseOverlap(m)
  BY DEF R2RReverseOverlap, C2CInverseOverlap
<1>5. Whole(plan, C2COverlap(direction, m)) /\ Header(C2COverlap(direction, m))
  BY <1>3, C2CForwardOverlapPart, C2CInverseOverlapPart DEF C2COverlap, t
<1>6. Whole(plan, R2ROverlap(direction, m)) /\ Header(R2ROverlap(direction, m))
  BY <1>3, <1>4, C2CForwardOverlapPart, C2CInverseOverlapPart DEF R2ROverlap, R2RChecked, t
<1>7. /\ Whole(plan, R2COverlapForward(m)) /\ Header(R2COverlapForward(m))
      /\ Whole(plan, R2COverlapReverse(m)) /\ Header(R2COverlapReverse(m))
  BY <1>3, R2CForwardOverlapPart, R2CReverseOverlapPart DEF R2COverlapForward, R2COverlapReverse, t
<1>8. ASSUME NEW s, Part(plan, s) PROVE Whole(plan, MixedTransport(m, s)) /\ Header(MixedTransport(m, s))
  <2> DEFINE x == [do |-> "refuse", place |-> <<"transport", 0>>, caught |-> "no"]
             w == Preflight(m) \o <<Agree("transport", 0)>>
  <2>1. Whole(plan, AgreeExecutionDescriptor \o Refuse("transport")) /\ Header(AgreeExecutionDescriptor \o Refuse("transport"))
    <3>1. PICK y : y = <<x>>
      OBVIOUS
    <3>2. Named(x) /\ ~ TurnsDown(x) /\ ~ MayFail(x) /\ x.caught = "no" /\ x.do # "convert"
      BY DEF Named, TurnsDown, MayFail, Refusing, OK
    <3> HIDE DEF x
    <3>3. y \in Seq({x}) /\ Len(y) = 1 /\ y[1] = x
      BY <3>1
    <3>4. \A k \in 1..Len(y) : y[k] = x
      BY <3>3
    <3>5. Remainder(plan, y)
      BY <3>2, <3>3, <3>4 DEF Remainder, Answered
    <3>6. AgreeExecutionDescriptor \in Seq(Agreement(AnyName)) /\ Header(AgreeExecutionDescriptor)
      <4>1. {"header", "ready", "minimum", "maximum", "preflight"} \subseteq AnyName
        BY DEF AnyName, MemberName
      <4> QED BY <4>1, DescriptorSteps
    <3>7. Whole(plan, AgreeExecutionDescriptor \o y) /\ Header(AgreeExecutionDescriptor \o y)
      BY <3>3, <3>5, <3>6, FrontWhole, HeaderKept
    <3> QED BY <3>1, <3>7 DEF Refuse, x
  <2>2. AgreeExecutionDescriptor \o (w \o s) = (AgreeExecutionDescriptor \o w) \o s
    <3>1. AgreeExecutionDescriptor \in Seq(Agreement(AnyName))
      <4>1. {"header", "ready", "minimum", "maximum", "preflight"} \subseteq AnyName
        BY DEF AnyName, MemberName
      <4> QED BY <4>1, DescriptorSteps
    <3>2. w \in Seq(Agreement(AnyName))
      BY TransportSteps
    <3>3. \E E : s \in Seq(E)
      BY <1>8 DEF Part
    <3> HIDE DEF w
    <3>4. (\E E : AgreeExecutionDescriptor \in Seq(E)) /\ (\E E : w \in Seq(E))
      BY <3>1, <3>2
    <3> QED BY <3>3, <3>4, JoinsAssociate
  <2>3. Whole(plan, (AgreeExecutionDescriptor \o w) \o s) /\ Header((AgreeExecutionDescriptor \o w) \o s)
    BY <1>8, TransportSteps, FrontOf, FrontSound
  <2>4. MixedTransport(m, s) = IF plan.method # "point to point" THEN AgreeExecutionDescriptor \o Refuse("transport")
                               ELSE AgreeExecutionDescriptor \o (w \o s)
    BY DEF MixedTransport
  <2> HIDE DEF w, x
  <2> QED BY <2>1, <2>2, <2>3, <2>4
<1>9. Whole(plan, MixedC2COverlap(direction, m)) /\ Header(MixedC2COverlap(direction, m))
  BY <1>8, MixedC2COverlappedPart DEF MixedC2COverlap
<1>10. Whole(plan, MixedR2COverlap(direction, m)) /\ Header(MixedR2COverlap(direction, m))
  <2>1. Part(plan, IF direction = "forward" THEN MixedR2CForwardOverlap(m) ELSE MixedR2CReverseOverlap(m))
    BY MixedR2CForwardOverlapPart, MixedR2CReverseOverlapPart
  <2> QED BY <1>8, <2>1 DEF MixedR2COverlap
<1> QED BY <1>1, <1>5, <1>6, <1>7, <1>9, <1>10 DEF ExecuteOverlap

(* Construction is agreements, and the result of the transitions.          *)
LEMMA ConstructWhole ==
  ASSUME plan \in Plans
  PROVE  Whole(plan, Construct) /\ Header(Construct)
<1> DEFINE h == AgreeHeader \o CollectiveDescriptor
           X == Agreement(InnerName)
<1>1. plan.family \in {"c2c", "r2r", "r2c", "mixed_c2c", "mixed_r2c"}
  BY PlanType
<1>2. h \in Seq(Agreement(AnyName)) /\ Header(h)
  <2>1. {"header", "ready", "minimum", "maximum", "preflight"} \subseteq AnyName /\ 0 \in Int
    BY DEF AnyName, MemberName
  <2> QED BY <2>1, DescriptorSteps
<1>3. ASSUME NEW s \in Seq(X) PROVE Part(plan, s) /\ Front(plan, AnyName, h \o s)
  BY <1>2, <1>3, AgreementsPart, FrontOf
<1>4. BuildTransitions \in Seq(X) /\ Part(plan, BuildTransitions)
  BY TransitionSteps, AgreementsPart
<1>5. Part(plan, Try(BuildTransitions, "transitions", 0))
  <2>1. "transitions" \in ResultName
    BY DEF ResultName
  <2> QED BY <2>1, TransitionSteps, AgreementsPart, TryPart
<1>6. /\ Agree("selection", 0) \in X /\ Agree("input", 0) \in X /\ Agree("threshold", 0) \in X
      /\ Agree("other input", 0) \in X /\ Agree("original route", 0) \in X /\ Agree("reduced route", 0) \in X
      /\ Agree("stages", 0) \in X /\ Agree("distributed", 0) \in X /\ Agree("route", 0) \in X
      /\ Agree("directions", 0) \in X /\ Agree("kinds", 0) \in X /\ Agree("layout stages", 0) \in X
      /\ Agree("graph", 0) \in X /\ Agree("pencils", 0) \in X /\ Agree("reduced input", 0) \in X
      /\ Agree("real pencils", 0) \in X /\ Agree("complex pencils", 0) \in X /\ Agree("lines", 0) \in X
  <2>1. /\ "selection" \in InnerName /\ "input" \in InnerName /\ "threshold" \in InnerName
        /\ "other input" \in InnerName /\ "original route" \in InnerName /\ "reduced route" \in InnerName
        /\ "stages" \in InnerName /\ "distributed" \in InnerName /\ "route" \in InnerName
        /\ "directions" \in InnerName /\ "kinds" \in InnerName /\ "layout stages" \in InnerName
        /\ "graph" \in InnerName /\ "pencils" \in InnerName /\ "reduced input" \in InnerName
        /\ "real pencils" \in InnerName /\ "complex pencils" \in InnerName /\ "lines" \in InnerName
    BY DEF InnerName
  <2>2. \A name \in InnerName : Agree(name, 0) \in X
    BY AgreeIs
  <2> HIDE DEF X
  <2> QED BY <2>1, <2>2
<1> HIDE DEF h, X
<1>7. Front(plan, AnyName, C2CConstruct)
  <2>1. <<Agree("route", 0), Agree("directions", 0), Agree("stages", 0)>> \in Seq(X)
    BY <1>6, ThreeOf
  <2> QED BY <1>3, <1>4, <2>1, FrontJoin DEF C2CConstruct, h
<1>8. Front(plan, AnyName, R2RConstruct)
  <2>1. <<Agree("input", 0), Agree("kinds", 0), Agree("route", 0), Agree("stages", 0),
          Agree("layout stages", 0)>> \in Seq(X)
    BY <1>6, FiveOf
  <2> QED BY <1>3, <1>4, <2>1, FrontJoin DEF R2RConstruct, h
<1>9. Front(plan, AnyName, R2CConstruct)
  <2>1. <<Agree("selection", 0), Agree("input", 0), Agree("threshold", 0), Agree("other input", 0),
          Agree("original route", 0), Agree("reduced route", 0), Agree("stages", 0),
          Agree("distributed", 0)>> \in Seq(X)
    BY <1>6, EightOf
  <2> QED BY <1>3, <1>4, <2>1, FrontJoin DEF R2CConstruct, h
<1>10. Front(plan, AnyName, MixedC2CConstruct)
  <2>1. <<Agree("graph", 0), Agree("directions", 0), Agree("input", 0), Agree("route", 0),
          Agree("stages", 0), Agree("pencils", 0), Agree("layout stages", 0)>> \in Seq(X)
    BY <1>6, SevenOf
  <2> QED BY <1>3, <1>5, <2>1, FrontJoin DEF MixedC2CConstruct, h
<1>11. Front(plan, AnyName, MixedR2CConstruct)
  <2>1. <<Agree("directions", 0), Agree("graph", 0), Agree("input", 0), Agree("original route", 0),
          Agree("reduced input", 0), Agree("reduced route", 0), Agree("stages", 0),
          Agree("threshold", 0), Agree("layout stages", 0), Agree("distributed", 0)>> \in Seq(X)
    BY <1>6, TenOf
  <2>2. <<Agree("real pencils", 0), Agree("complex pencils", 0), Agree("lines", 0)>> \in Seq(X)
    BY <1>6, ThreeOf
  <2>3. Part(plan, <<Agree("real pencils", 0), Agree("complex pencils", 0), Agree("lines", 0)>>)
    BY <1>3, <2>2
  <2>4. Front(plan, AnyName, h \o <<Agree("directions", 0), Agree("graph", 0), Agree("input", 0), Agree("original route", 0),
          Agree("reduced input", 0), Agree("reduced route", 0), Agree("stages", 0),
          Agree("threshold", 0), Agree("layout stages", 0), Agree("distributed", 0)>>)
    BY <1>3, <2>1
  <2> QED BY <1>5, <2>3, <2>4, FrontJoin DEF MixedR2CConstruct, h
<1>12. Front(plan, AnyName, Construct)
  BY <1>1, <1>7, <1>8, <1>9, <1>10, <1>11 DEF Construct
<1> QED BY <1>12, FrontSound

(* Collections: every member has been looked at before the first begins.   *)
(* The agreements on all members, before the first one is touched.         *)
LEMMA CollectionSteps ==
  ASSUME NEW N \in Nat
  PROVE  LET f == [k \in 1..(N - 1 + 1) |-> <<Agree("member preflight", 1 + k - 1)>>]
         IN  /\ CollectionBegin \o Ext!FlattenSeq(f) \in Seq(Agreement(AnyName))
             /\ Header(CollectionBegin \o Ext!FlattenSeq(f))
<1> DEFINE F(m) == <<Agree("member preflight", m)>>
           n == N - 1 + 1
           f == [k \in 1..n |-> F(1 + k - 1)]
           X == Agreement(AnyName)
<1>2. CollectionBegin \in Seq(X) /\ Header(CollectionBegin)
  <2>1. {"header", "ready", "minimum", "maximum", "preflight"} \subseteq AnyName /\ 0 \in Int
    BY DEF AnyName, MemberName
  <2>2. AgreeExecutionDescriptor \in Seq(X)
    BY <2>1, DescriptorSteps
  <2>3. Agree("header", 0) \in X
    BY <2>1, AgreeIs
  <2> HIDE DEF X
  <2>4. AgreeHeader \in Seq(X)
    BY <2>3, OneOf DEF AgreeHeader
  <2>5. Header(AgreeHeader)
    <3>1. PICK y, x : y = AgreeHeader /\ y = <<x>> /\ x = Agree("header", 0)
      BY DEF AgreeHeader
    <3>2. y # <<>> /\ y[1] = x
      BY <3>1
    <3> QED BY <3>1, <3>2 DEF Header
  <2> QED BY <2>2, <2>4, <2>5, JoinOf, HeaderKept DEF CollectionBegin
<1>3. Ext!FlattenSeq(f) \in Seq(X)
  <2>1. ASSUME NEW m \in Int PROVE F(m) \in Seq(X)
    <3>1. "member preflight" \in AnyName
      BY DEF AnyName
    <3>2. Agree("member preflight", m) \in X
      BY <3>1, AgreeIs
    <3> HIDE DEF X
    <3> QED BY <3>2, OneOf
  <2>2. n \in Int /\ \A k \in 1..n : f[k] \in Seq(X)
    <3> HIDE DEF F, X
    <3> QED BY <2>1
  <2>3. f = [k \in 1..n |-> f[k]]
    OBVIOUS
  <2> HIDE DEF n, f, X
  <2> QED BY <2>2, <2>3, FlattenSteps
<1> HIDE DEF X, f
<1>4. CollectionBegin \o Ext!FlattenSeq(f) \in Seq(X) /\ Header(CollectionBegin \o Ext!FlattenSeq(f))
  BY <1>2, <1>3, JoinOf, HeaderKept
<1> QED BY <1>4 DEF X, f

(* The script of every collection is whole.                                *)
LEMMA CollectionWhole ==
  ASSUME plan \in Plans, NEW c, c.n \in Nat
  PROVE  Whole(plan, Collection(c)) /\ Header(Collection(c))
<1> DEFINE F(m) == <<Agree("member preflight", m)>>
           G(m) == ExecuteOne(c, m)
           n == c.n - 1 + 1
           f == [k \in 1..n |-> F(1 + k - 1)]
           g == [k \in 1..n |-> G(1 + k - 1)]
           X == Agreement(AnyName)
<1>1. Collection(c) = CollectionBegin \o Ext!FlattenSeq(f) \o Ext!FlattenSeq(g)
  BY DEF Collection, Up
<1>2. /\ CollectionBegin \o Ext!FlattenSeq(f) \in Seq(X)
      /\ Header(CollectionBegin \o Ext!FlattenSeq(f))
  BY CollectionSteps
<1>4. Part(plan, Ext!FlattenSeq(g))
  <2>1. ASSUME NEW m \in Int PROVE Part(plan, G(m))
    BY ExecuteFront, ExecuteInPlaceFront, MemberPart DEF ExecuteOne
  <2>2. n \in Int /\ \A k \in 1..n : Part(plan, g[k])
    <3> HIDE DEF G
    <3> QED BY <2>1
  <2>3. g = [k \in 1..n |-> g[k]]
    OBVIOUS
  <2> HIDE DEF n, g
  <2> QED BY <2>2, <2>3, FlattenParts
<1> HIDE DEF f, g, X
<1> QED BY <1>1, <1>2, <1>4, FrontOf, FrontSound DEF X

(* Every script begins with the agreement on its header.                   *)
LEMMA ScriptWhole ==
  ASSUME plan \in Plans, NEW c, c.kind \in AllKinds, c.n \in Nat
  PROVE  Whole(plan, Script(c)) /\ Header(Script(c))
<1>1. Whole(plan, Execute(c.direction, 1)) /\ Header(Execute(c.direction, 1))
  <2>1. Front(plan, MemberName, Execute(c.direction, 1))
    BY ExecuteFront
  <2> QED BY <2>1, FrontSound
<1>2. Whole(plan, ExecuteInPlace(c.direction, 1)) /\ Header(ExecuteInPlace(c.direction, 1))
  <2>1. Front(plan, MemberName, ExecuteInPlace(c.direction, 1))
    BY ExecuteInPlaceFront
  <2> QED BY <2>1, FrontSound
<1>3. Whole(plan, ExecuteOverlap(c.direction, 1)) /\ Header(ExecuteOverlap(c.direction, 1))
  BY OverlapWhole
<1> QED BY <1>1, <1>2, <1>3, ConstructWhole, CollectionWhole DEF Script, AllKinds

----------------------------------------------------------------------------
(* Spectra that a call looks at.                                           *)

(* Who sees a spectrum in his steps looks at it.                           *)
LEMMA SeesLooks ==
  ASSUME NEW s, NEW m, Sees(s, m)
  PROVE  Looks(s, m)
BY DEF Sees, Looks

(* The agreements before a call and the steps around it hide nothing.      *)
LEMMA FrontSees ==
  ASSUME NEW s, Part(plan, s), NEW m \in Int, Sees(s, m), NEW d
  PROVE  /\ Sees(AgreeExecutionDescriptor \o Preflight(m) \o s, m)
         /\ Sees(AgreeExecutionDescriptor \o Preflight(m) \o <<InPlace("poison", m)>> \o s \o <<Finish(d, m)>>, m)
         /\ Sees(AgreeExecutionDescriptor \o Preflight(m) \o <<Agree("transport", 0)>> \o s, m)
         /\ Sees(AgreeExecutionDescriptor \o (Preflight(m) \o <<Agree("transport", 0)>> \o s), m)
<1> DEFINE a == AgreeExecutionDescriptor \o Preflight(m)
           b == <<InPlace("poison", m)>>
           e == <<Finish(d, m)>>
           t == <<Agree("transport", 0)>>
           h == AgreeExecutionDescriptor
           f == Preflight(m)
<1>1. (\E E : a \in Seq(E)) /\ (\E E : h \in Seq(E)) /\ (\E E : f \in Seq(E))
  <2>1. {"header", "ready", "minimum", "maximum", "preflight"} \subseteq MemberName
    BY DEF MemberName
  <2>2. /\ AgreeExecutionDescriptor \o Preflight(m) \in Seq(Agreement(MemberName))
        /\ AgreeExecutionDescriptor \in Seq(Agreement(MemberName))
        /\ Preflight(m) \in Seq(Agreement(MemberName))
    BY <2>1, DescriptorSteps
  <2> QED BY <2>2
<1>2. (\E E : b \in Seq(E)) /\ (\E E : e \in Seq(E)) /\ (\E E : s \in Seq(E))
  BY TransactionPart DEF Part
<1>3. (\E E : a \o t \in Seq(E)) /\ (\E E : f \o t \in Seq(E))
  BY TransportSteps
<1>4. a = h \o f
  OBVIOUS
<1> HIDE DEF a, b, e, t, h, f
<1>5. Sees(a \o s, m)
  BY <1>1, <1>2, JoinSees
<1>6. Sees(((a \o b) \o s) \o e, m)
  <2>1. \E E : a \o b \in Seq(E)
    BY <1>1, <1>2, JoinedSteps
  <2>2. Sees((a \o b) \o s, m) /\ \E E : (a \o b) \o s \in Seq(E)
    BY <1>2, <2>1, JoinSees, JoinedSteps
  <2> QED BY <1>2, <2>2, JoinSees
<1>7. Sees((a \o t) \o s, m)
  BY <1>2, <1>3, JoinSees
<1>8. Sees(h \o ((f \o t) \o s), m)
  <2>1. Sees((f \o t) \o s, m) /\ \E E : (f \o t) \o s \in Seq(E)
    BY <1>2, <1>3, JoinSees, JoinedSteps
  <2> QED BY <1>1, <2>1, JoinSees
<1> QED BY <1>5, <1>6, <1>7, <1>8 DEF a, b, e, t, h, f

(* Every way back of a real transform.                                     *)
LEMMA ReverseSees ==
  ASSUME plan \in Plans, IsReal, NEW m \in Int
  PROVE  /\ Sees(Execute("reverse", m), m) /\ Sees(ExecuteInPlace("reverse", m), m)
         /\ Looks(ExecuteOverlap("reverse", m), m)
<1>1. plan.family = "r2c" \/ plan.family = "mixed_r2c"
  BY DEF IsReal
<1>2. CASE plan.family = "r2c"
  <2>1. Sees(R2CExecuteReverse(m), m)
    BY R2CInversePart, FrontSees DEF R2CExecuteReverse
  <2>2. Sees(R2CExecuteInPlace("reverse", m), m)
    BY R2CReverseInPlacePart, FrontSees DEF R2CExecuteInPlace
  <2>3. Sees(R2COverlapReverse(m), m)
    BY R2CReverseOverlapPart, FrontSees DEF R2COverlapReverse
  <2> QED BY <1>2, <2>1, <2>2, <2>3, SeesLooks DEF Execute, ExecuteInPlace, ExecuteOverlap
<1>3. CASE plan.family = "mixed_r2c"
  <2>1. Sees(MixedR2CExecute("reverse", m), m)
    BY MixedR2CReversePart, FrontSees DEF MixedR2CExecute
  <2>2. Sees(MixedR2CExecuteInPlace("reverse", m), m)
    BY MixedR2CReverseInPlacePart, FrontSees DEF MixedR2CExecuteInPlace
  <2>3. Looks(MixedR2COverlap("reverse", m), m)
    <3> DEFINE h == AgreeExecutionDescriptor
               x == [do |-> "refuse", place |-> <<"transport", 0>>, caught |-> "no"]
    <3>1. Sees(h \o (Preflight(m) \o <<Agree("transport", 0)>> \o MixedR2CReverseOverlap(m)), m)
      BY MixedR2CReverseOverlapPart, FrontSees
    <3>2. Looks(h \o <<x>>, m)
      <4>1. \E E : h \in Seq(E)
        <5>1. {"header", "ready", "minimum", "maximum", "preflight"} \subseteq MemberName
          BY DEF MemberName
        <5>2. h \in Seq(Agreement(MemberName))
          BY <5>1, DescriptorSteps
        <5> QED BY <5>2
      <4>2. x.do = "refuse"
        OBVIOUS
      <4> HIDE DEF x, h
      <4>3. PICK y : y = <<x>>
        OBVIOUS
      <4>4. y \in Seq({x}) /\ Len(y) = 1 /\ y[1] = x
        BY <4>3
      <4>5. /\ Len(h) \in Nat /\ Len(h \o y) = Len(h) + Len(y)
            /\ \A k \in 1..Len(y) : (h \o y)[Len(h) + k] = y[k]
        BY <4>1, <4>4, JoinedSteps
      <4>6. Len(h) + 1 \in 1..Len(h \o y) /\ (h \o y)[Len(h) + 1] = x
        BY <4>4, <4>5
      <4> QED BY <4>2, <4>3, <4>6 DEF Looks
    <3> HIDE DEF h, x
    <3>3. Looks(h \o (Preflight(m) \o <<Agree("transport", 0)>> \o MixedR2CReverseOverlap(m)), m)
      BY <3>1, SeesLooks
    <3>4. MixedR2COverlap("reverse", m) =
            IF plan.method # "point to point" THEN h \o <<x>>
            ELSE h \o (Preflight(m) \o <<Agree("transport", 0)>> \o MixedR2CReverseOverlap(m))
      <4>1. MixedR2COverlap("reverse", m) =
              h \o (IF plan.method # "point to point" THEN <<x>>
                    ELSE Preflight(m) \o <<Agree("transport", 0)>> \o MixedR2CReverseOverlap(m))
        BY DEF MixedR2COverlap, MixedTransport, Refuse, h, x
      <4> QED BY <4>1
    <3> QED BY <3>2, <3>3, <3>4
  <2> QED BY <1>3, <2>1, <2>2, <2>3 DEF Execute, ExecuteInPlace, ExecuteOverlap
<1> QED BY <1>1, <1>2, <1>3

(* Within a collection as well.                                            *)
LEMMA MemberSees ==
  ASSUME NEW p, NEW s, Front(p, MemberName, s), NEW m, NEW x, Sees(s, x)
  PROVE  Sees(ExecuteMember(s, m), x)
<1>1. Whole(p, s)
  BY FrontSound
<1>2. PICK E : s \in Seq(E)
  BY <1>1 DEF Whole
<1>3. PICK k \in 1..Len(s) : s[k].do = "agree" /\ s[k].place = <<"spectrum", x>>
  BY DEF Sees
<1>4. Named(s[k])
  BY <1>1, <1>3 DEF Whole
<1> DEFINE c == [j \in DOMAIN s |-> [s[j] EXCEPT !.caught = IF @ = "no" THEN "member" ELSE @]]
           T == {c[j] : j \in DOMAIN s}
           y == Result("member execution", m)
<1>5. c \in Seq(T) /\ Len(c) = Len(s)
  <2>1. c \in [1..Len(s) -> T] /\ DOMAIN c = 1..Len(s) /\ Len(s) \in Nat
    BY <1>2
  <2> HIDE DEF T, c
  <2>2. c \in Seq(T)
    BY <2>1, SeqDef
  <2> QED BY <2>1, <2>2
<1>6. c[k].do = "agree" /\ c[k].place = <<"spectrum", x>>
  <2>1. k \in DOMAIN s
    BY <1>2, <1>3
  <2>2. PICK a, b, v : a = s[k] /\ b = c[k] /\ b = [a EXCEPT !.caught = v]
    BY <2>1
  <2> HIDE DEF c
  <2>3. {"do", "place"} \subseteq DOMAIN a
    BY <1>3, <1>4, <2>2 DEF Named, Refusing
  <2>4. b.do = a.do /\ b.place = a.place
    BY <2>2, <2>3
  <2> QED BY <1>3, <2>2, <2>4
<1>7. Sees(c, x)
  <2> HIDE DEF c
  <2> QED BY <1>3, <1>5, <1>6 DEF Sees
<1>8. ExecuteMember(s, m) = Append(c, y)
  BY DEF ExecuteMember
<1> HIDE DEF c, T, y
<1>9. Append(c, y) = c \o <<y>>
  BY <1>5
<1>10. \E F : <<y>> \in Seq(F)
  <2>1. <<y>> \in Seq({y})
    OBVIOUS
  <2> QED BY <2>1
<1> QED BY <1>5, <1>7, <1>8, <1>9, <1>10, JoinSees

(* A collection looks at the spectrum of each member.                      *)
LEMMA CollectionSees ==
  ASSUME plan \in Plans, IsReal, NEW c, c.n \in Nat, c.direction = "reverse", NEW m \in 1..c.n
  PROVE  Sees(Collection(c), m)
<1> DEFINE F(i) == <<Agree("member preflight", i)>>
           G(i) == ExecuteOne(c, i)
           n == c.n - 1 + 1
           f == [k \in 1..n |-> F(1 + k - 1)]
           g == [k \in 1..n |-> G(1 + k - 1)]
           X == Agreement(AnyName)
<1>1. Collection(c) = CollectionBegin \o Ext!FlattenSeq(f) \o Ext!FlattenSeq(g)
  BY DEF Collection, Up
<1>2. \A i \in Int : Part(plan, G(i)) /\ Sees(G(i), i)
  <2> SUFFICES ASSUME NEW i \in Int PROVE Part(plan, G(i)) /\ Sees(G(i), i)
    OBVIOUS
  <2>1. Part(plan, G(i))
    BY ExecuteFront, ExecuteInPlaceFront, MemberPart DEF ExecuteOne
  <2>2. Sees(ExecuteMember(Execute("reverse", i), i), i) /\ Sees(ExecuteMember(ExecuteInPlace("reverse", i), i), i)
    BY ExecuteFront, ExecuteInPlaceFront, ReverseSees, MemberSees
  <2>3. Sees(G(i), i)
    BY <2>2 DEF ExecuteOne
  <2> QED BY <2>1, <2>3
<1>3. n = c.n /\ n \in Nat /\ \A k \in 1..n : Part(plan, g[k]) /\ Sees(g[k], k)
  <2>1. n = c.n /\ n \in Nat
    OBVIOUS
  <2>2. \A k \in 1..n : 1 + k - 1 = k /\ k \in Int
    BY <2>1
  <2> HIDE DEF G
  <2>3. \A k \in 1..n : g[k] = G(k)
    BY <2>2
  <2> QED BY <1>2, <2>1, <2>2, <2>3
<1>4. g = [k \in 1..n |-> g[k]]
  OBVIOUS
<1>5. \E E : CollectionBegin \o Ext!FlattenSeq(f) \in Seq(E)
  <2>1. CollectionBegin \o Ext!FlattenSeq(f) \in Seq(Agreement(AnyName))
    BY CollectionSteps
  <2> QED BY <2>1
<1> HIDE DEF f, g, n
<1>6. (\E E : Ext!FlattenSeq(g) \in Seq(E)) /\ Sees(Ext!FlattenSeq(g), m)
  <2> DEFINE U == UNION {{g[k][i] : i \in 1..Len(g[k])} : k \in 1..n}
             Inv == [i \in 0..n |-> {s \in Seq(U) : \A j \in 1..i : Sees(s, j)}]
  <2>1. \A k \in 1..n : g[k] \in Seq(U)
    <3> SUFFICES ASSUME NEW k \in 1..n PROVE g[k] \in Seq(U)
      OBVIOUS
    <3>1. PICK E : g[k] \in Seq(E)
      BY <1>3 DEF Part
    <3>2. \A i \in 1..Len(g[k]) : g[k][i] \in U
      OBVIOUS
    <3> HIDE DEF U
    <3> QED BY <3>1, <3>2
  <2> HIDE DEF U
  <2>2. <<>> \in Inv[0]
    BY <1>3
  <2>3. n >= 1 => g[1] \in Inv[1]
    BY <1>3, <2>1
  <2>4. ASSUME NEW i \in 2..n, NEW s \in Inv[i - 1] PROVE s \o g[i] \in Inv[i]
    <3>1. i \in 1..n /\ i \in 0..n /\ i - 1 \in 0..n
      BY <1>3
    <3>2. s \in Seq(U) /\ \A j \in 1..(i - 1) : Sees(s, j)
      BY <2>4, <3>1
    <3>3. g[i] \in Seq(U) /\ Sees(g[i], i)
      BY <1>3, <2>1, <3>1
    <3>4. ASSUME NEW j \in 1..i PROVE Sees(s \o g[i], j)
      <4>1. j \in 1..(i - 1) \/ j = i
        BY <3>1
      <4>2. (\E E : s \in Seq(E)) /\ (\E E : g[i] \in Seq(E)) /\ (Sees(s, j) \/ Sees(g[i], j))
        BY <3>2, <3>3, <4>1
      <4> QED BY <4>2, JoinSees
    <3>5. s \o g[i] \in Seq(U)
      BY <3>2, <3>3
    <3> QED BY <3>1, <3>4, <3>5
  <2>5. Ext!FlattenSeq(g) \in Inv[n]
    <3>1. \A i \in 2..n : \A s \in Inv[i - 1] : s \o g[i] \in Inv[i]
      BY <2>4
    <3> HIDE DEF Inv
    <3> QED BY <1>3, <1>4, <2>2, <2>3, <3>1, FlattenKeeps
  <2> QED BY <1>3, <2>5
<1> QED BY <1>1, <1>5, <1>6, JoinSees

(* Whoever makes real data of spectra looks at each of them first, or is   *)
(* refused for the transport.                                              *)
LEMMA ScriptLooks ==
  ASSUME plan \in Plans, IsReal, NEW c, c.kind \in AllKinds, c.kind # "construct", c.direction = "reverse",
         c.n \in Nat, c.kind \notin CollectionKinds => c.n = 1, NEW m \in 1..c.n
  PROVE  Looks(Script(c), m)
<1>1. CASE c.kind \in CollectionKinds
  <2>1. Script(c) = Collection(c)
    BY <1>1 DEF Script, CollectionKinds
  <2> QED BY <2>1, CollectionSees, SeesLooks
<1>2. CASE c.kind \notin CollectionKinds
  <2>1. m = 1 /\ 1 \in Int
    BY <1>2
  <2>2. Looks(Execute("reverse", 1), 1) /\ Looks(ExecuteInPlace("reverse", 1), 1) /\ Looks(ExecuteOverlap("reverse", 1), 1)
    BY <2>1, ReverseSees, SeesLooks
  <2> QED BY <1>2, <2>1, <2>2 DEF Script, CollectionKinds, AllKinds
<1> QED BY <1>1, <1>2

----------------------------------------------------------------------------
(* What is left of a script.                                               *)

(* The end of a sequence.                                                  *)
LEMMA Suffix ==
  ASSUME NEW E, NEW s \in Seq(E), NEW h \in 1..(Len(s) + 1), NEW t, t = SubSeq(s, h, Len(s))
  PROVE  /\ t \in Seq(E) /\ Len(t) = Len(s) - h + 1
         /\ \A k \in 1..Len(t) : t[k] = s[h - 1 + k] /\ h - 1 + k \in 1..Len(s)
<1>1. Len(s) \in Nat /\ h \in Nat
  OBVIOUS
<1>2. t \in Seq(E)
  BY SubSeqProperties
<1>3. Len(t) = Len(s) - h + 1
  BY <1>1, SubSeqProperties
<1>4. \A k \in 1..Len(t) : t[k] = s[h - 1 + k]
  <2>1. \A k \in 1..(Len(s) - h + 1) : t[k] = s[h + k - 1]
    BY <1>1, SubSeqProperties
  <2>2. \A k \in 1..Len(t) : h + k - 1 = h - 1 + k
    BY <1>1, <1>3
  <2> QED BY <1>3, <2>1, <2>2
<1> QED BY <1>1, <1>2, <1>3, <1>4

(* Head and tail of a sequence.                                            *)
LEMMA TailIs ==
  ASSUME NEW E, NEW s \in Seq(E), s # <<>>
  PROVE  /\ Tail(s) = SubSeq(s, 2, Len(s)) /\ 2 \in 1..(Len(s) + 1) /\ Len(s) \in Nat \ {0}
         /\ Head(s) = s[1]
<1>1. Len(s) \in Nat /\ Len(s) # 0 /\ Head(s) = s[1]
  OBVIOUS
<1>2. Tail(s) \in Seq(E) /\ Len(Tail(s)) = Len(s) - 1 /\ \A i \in 1..Len(Tail(s)) : Tail(s)[i] = s[i + 1]
  BY HeadTailProperties
<1>3. PICK t : t = SubSeq(s, 2, Len(s))
  OBVIOUS
<1>4. t \in Seq(E) /\ Len(t) = Len(s) - 1 /\ \A k \in 1..Len(t) : t[k] = s[k + 1]
  <2>1. 2 \in 1..(Len(s) + 1)
    BY <1>1
  <2>2. PICK h : h = 2 /\ h \in 1..(Len(s) + 1) /\ t = SubSeq(s, h, Len(s))
    BY <1>3, <2>1
  <2>3. /\ t \in Seq(E) /\ Len(t) = Len(s) - h + 1
        /\ \A k \in 1..Len(t) : t[k] = s[h - 1 + k] /\ h - 1 + k \in 1..Len(s)
    <3>1. h \in 1..(Len(s) + 1) /\ t = SubSeq(s, h, Len(s))
      BY <2>2
    <3> QED BY <3>1, Suffix
  <2>4. \A k \in 1..Len(t) : h - 1 + k = k + 1
    BY <2>2
  <2>5. Len(s) - h + 1 = Len(s) - 1
    BY <1>1, <2>2
  <2> QED BY <2>3, <2>4, <2>5
<1>5. Tail(s) = t
  BY <1>2, <1>4
<1> QED BY <1>1, <1>3, <1>5

(* What is left of a whole script is whole.                                *)
LEMMA SuffixWhole ==
  ASSUME NEW p, NEW s, Whole(p, s), NEW h \in 1..(Len(s) + 1), NEW t, t = SubSeq(s, h, Len(s))
  PROVE  Whole(p, t)
<1>1. PICK E : s \in Seq(E)
  BY DEF Whole
<1> DEFINE n == Len(s)
           d == h - 1
<1>2. /\ t \in Seq(E) /\ Len(t) = n - d /\ n \in Nat /\ d \in 0..n /\ Len(t) \in Nat
      /\ \A k \in 1..Len(t) : t[k] = s[d + k] /\ d + k \in 1..n
  <2>1. /\ t \in Seq(E) /\ Len(t) = Len(s) - h + 1
        /\ \A k \in 1..Len(t) : t[k] = s[h - 1 + k] /\ h - 1 + k \in 1..Len(s)
    BY <1>1, Suffix
  <2>2. Len(s) \in Nat /\ Len(t) \in Nat
    BY <1>1, <2>1
  <2> QED BY <2>1, <2>2
<1>3. /\ \A k \in 1..n : MayFail(s[k]) =>
           \E j \in (k + 1)..n : s[j].do = "result" /\ \A i \in (k + 1)..(j - 1) : ~ Meeting(p, s[i])
      /\ \A k \in 1..n :
           /\ Named(s[k])
           /\ s[k].do = "refuse" => s[k].caught = "no"
           /\ s[k].do = "convert" => s[k].caught = "result"
           /\ TurnsDown(s[k]) => \A i \in 1..k : s[i].do = "agree"
  BY DEF Whole, Answered
<1> HIDE DEF n, d
<1>4. ASSUME NEW k \in 1..Len(t), MayFail(t[k])
      PROVE  \E j \in (k + 1)..Len(t) : t[j].do = "result" /\ \A i \in (k + 1)..(j - 1) : ~ Meeting(p, t[i])
  <2>1. d + k \in 1..n /\ MayFail(s[d + k])
    BY <1>2, <1>4
  <2>2. PICK j \in (d + k + 1)..n : s[j].do = "result" /\ \A i \in (d + k + 1)..(j - 1) : ~ Meeting(p, s[i])
    BY <1>3, <2>1
  <2>3. j - d \in (k + 1)..Len(t) /\ j - d \in 1..Len(t) /\ d + (j - d) = j
    <3>1. Len(t) = n - d /\ n \in Nat /\ d \in Nat /\ k \in Nat /\ j \in (d + k + 1)..n
      BY <1>2, <1>4
    <3> QED BY ONLY <3>1
  <2>4. t[j - d].do = "result"
    <3>1. t[j - d] = s[d + (j - d)]
      BY <1>2, <2>3
    <3> QED BY <2>2, <2>3, <3>1
  <2>5. ASSUME NEW i \in (k + 1)..(j - d - 1) PROVE ~ Meeting(p, t[i])
    <3>1. i \in 1..Len(t) /\ d + i \in (d + k + 1)..(j - 1)
      <4>1. d \in Nat /\ Len(t) \in Nat /\ j \in Int /\ k \in Nat /\ i \in Int
        BY <1>2
      <4>2. j - d <= Len(t) /\ k + 1 <= i /\ i <= j - d - 1
        BY <2>3
      <4> QED BY <4>1, <4>2
    <3> QED BY <1>2, <2>2, <3>1
  <2> QED BY <2>3, <2>4, <2>5
<1>5. ASSUME NEW k \in 1..Len(t)
      PROVE  /\ Named(t[k])
             /\ t[k].do = "refuse" => t[k].caught = "no"
             /\ t[k].do = "convert" => t[k].caught = "result"
             /\ TurnsDown(t[k]) => \A i \in 1..k : t[i].do = "agree"
  <2>1. t[k] = s[d + k] /\ d + k \in 1..n
    BY <1>2
  <2>2. ASSUME TurnsDown(s[d + k]), NEW i \in 1..k PROVE t[i].do = "agree"
    <3>1. i \in 1..Len(t) /\ d + i \in 1..(d + k)
      BY <1>2
    <3>2. s[d + i].do = "agree"
      BY <1>3, <2>1, <2>2, <3>1
    <3> QED BY <1>2, <3>1, <3>2
  <2> QED BY <1>3, <2>1, <2>2
<1> QED BY <1>2, <1>4, <1>5 DEF Whole, Answered

(* First finds the least element.                                          *)
LEMMA FirstIs ==
  ASSUME NEW S \in SUBSET Nat, S # {}
  PROVE  First(S) \in S /\ \A k \in S : First(S) <= k
<1>1. \E x \in S : \A y \in S : x <= y
  BY LeastNatural
<1> QED BY <1>1 DEF First

(* Steps that are no meetings do not change where a script leads.          *)
LEMMA OntoSuffix ==
  ASSUME NEW p, NEW E, NEW s \in Seq(E), NEW h \in 1..(Len(s) + 1), NEW t, t = SubSeq(s, h, Len(s)),
         \A i \in 1..(h - 1) : ~ Meeting(p, s[i])
  PROVE  Onto(p, t) = Onto(p, s)
<1> DEFINE n == Len(s)
           d == h - 1
           M == Meetings(p, s)
           N == Meetings(p, t)
<1>1. /\ t \in Seq(E) /\ Len(t) = n - d /\ n \in Nat /\ d \in 0..n /\ Len(t) \in Nat
      /\ \A k \in 1..Len(t) : t[k] = s[d + k] /\ d + k \in 1..n
  <2>1. /\ t \in Seq(E) /\ Len(t) = Len(s) - h + 1
        /\ \A k \in 1..Len(t) : t[k] = s[h - 1 + k] /\ h - 1 + k \in 1..Len(s)
    BY Suffix
  <2>2. Len(s) \in Nat /\ Len(t) \in Nat
    BY <2>1
  <2> QED BY <2>1, <2>2
<1>2. M \in SUBSET Nat /\ N \in SUBSET Nat /\ (\A k \in M : k \in 1..n /\ Meeting(p, s[k])) /\ (\A k \in 1..n : Meeting(p, s[k]) => k \in M)
      /\ (\A k \in N : k \in 1..Len(t) /\ Meeting(p, t[k])) /\ (\A k \in 1..Len(t) : Meeting(p, t[k]) => k \in N)
  BY <1>1 DEF Meetings
<1>3. \A i \in 1..d : ~ Meeting(p, s[i])
  OBVIOUS
<1> HIDE DEF n, d, M, N
<1>4. \A k \in N : d + k \in M
  BY <1>1, <1>2
<1>5. \A k \in M : k - d \in N
  <2> SUFFICES ASSUME NEW k \in M PROVE k - d \in N
    OBVIOUS
  <2>1. k \in 1..n /\ Meeting(p, s[k]) /\ k \notin 1..d
    BY <1>2, <1>3
  <2>2. k - d \in 1..Len(t) /\ d + (k - d) = k
    BY <1>1, <2>1
  <2>3. t[k - d] = s[d + (k - d)]
    BY <1>1, <2>2
  <2> QED BY <1>2, <2>1, <2>2, <2>3
<1>6. CASE M = {}
  <2>1. N = {}
    BY <1>4, <1>6
  <2> QED BY <1>6, <2>1 DEF Onto, M, N
<1>7. CASE M # {}
  <2>1. N # {}
    BY <1>5, <1>7
  <2>2. First(M) \in M /\ (\A k \in M : First(M) <= k) /\ First(N) \in N /\ \A k \in N : First(N) <= k
    BY <1>2, <1>7, <2>1, FirstIs
  <2>3. First(M) = d + First(N)
    <3>1. First(M) <= d + First(N) /\ First(N) <= First(M) - d
      BY <1>4, <1>5, <2>2
    <3>2. First(M) \in Nat /\ First(N) \in Nat
      BY <1>2, <2>2
    <3>3. PICK a, b : a = First(M) /\ b = First(N)
      OBVIOUS
    <3>4. a \in Nat /\ b \in Nat /\ d \in Nat /\ a <= d + b /\ b <= a - d
      BY <1>1, <3>1, <3>2, <3>3
    <3>5. a = d + b
      BY <3>4
    <3> QED BY <3>3, <3>5
  <2>4. PICK a, b, x, y : /\ a = First(M) /\ b = First(N)
                          /\ x = SubSeq(s, a, Len(s)) /\ y = SubSeq(t, b, Len(t))
    OBVIOUS
  <2>5. a \in 1..n /\ b \in 1..Len(t) /\ a = d + b
    BY <1>2, <2>2, <2>3, <2>4
  <2>6. x \in Seq(E) /\ Len(x) = n - a + 1 /\ \A k \in 1..Len(x) : x[k] = s[a - 1 + k]
    <3>1. a \in 1..(Len(s) + 1)
      BY <1>1, <2>5 DEF n
    <3> QED BY <2>4, <3>1, Suffix DEF n
  <2>7. y \in Seq(E) /\ Len(y) = Len(t) - b + 1 /\ \A k \in 1..Len(y) : y[k] = t[b - 1 + k] /\ b - 1 + k \in 1..Len(t)
    <3>1. b \in 1..(Len(t) + 1)
      BY <1>1, <2>5
    <3>2. t \in Seq(E) /\ y = SubSeq(t, b, Len(t)) /\ Len(t) \in Nat
      BY <1>1, <2>4
    <3>3. y \in Seq(E) /\ Len(y) = Len(t) - b + 1 /\ \A k \in 1..Len(y) : y[k] = t[b - 1 + k]
      BY <3>1, <3>2, Suffix
    <3>4. \A k \in 1..(Len(t) - b + 1) : b - 1 + k \in 1..Len(t)
      BY <3>1, <3>2
    <3> QED BY <3>3, <3>4
  <2>8. Len(x) = Len(y)
    BY <1>1, <2>5, <2>6, <2>7
  <2>9. ASSUME NEW k \in 1..Len(x) PROVE x[k] = y[k]
    <3>1. y[k] = t[b - 1 + k] /\ b - 1 + k \in 1..Len(t)
      BY <2>7, <2>8
    <3>2. y[k] = s[d + (b - 1 + k)]
      BY <1>1, <3>1
    <3>3. d + (b - 1 + k) = a - 1 + k
      BY <1>1, <2>5, <2>6
    <3> QED BY <2>6, <3>2, <3>3
  <2>10. x = y
    BY <2>6, <2>7, <2>8, <2>9
  <2> QED BY <1>7, <2>1, <2>4, <2>10 DEF Onto, M, N
<1> QED BY <1>6, <1>7

(* A meeting is where its script leads.                                    *)
LEMMA OntoMeeting ==
  ASSUME NEW p, NEW E, NEW s \in Seq(E), s # <<>>, Meeting(p, s[1])
  PROVE  Onto(p, s) = s
<1>1. Len(s) \in Nat \ {0} /\ 1 \in 1..Len(s)
  OBVIOUS
<1>2. 1 \in Meetings(p, s) /\ Meetings(p, s) \in SUBSET Nat /\ \A k \in Meetings(p, s) : 1 <= k
  BY <1>1 DEF Meetings
<1>3. First(Meetings(p, s)) = 1
  <2>1. First(Meetings(p, s)) \in Meetings(p, s) /\ First(Meetings(p, s)) <= 1
    BY <1>2, FirstIs
  <2> QED BY <1>2, <2>1
<1>4. SubSeq(s, 1, Len(s)) = s
  <2>1. PICK t : t = SubSeq(s, 1, Len(s))
    OBVIOUS
  <2>2. t \in Seq(E) /\ Len(t) = Len(s) - 1 + 1 /\ \A k \in 1..Len(t) : t[k] = s[1 - 1 + k]
    BY <1>1, <2>1, Suffix
  <2>3. Len(t) = Len(s) /\ \A k \in 1..Len(t) : t[k] = s[k]
    BY <1>1, <2>2
  <2> QED BY <2>1, <2>2, <2>3
<1> QED BY <1>2, <1>3, <1>4 DEF Onto

(* Nothing comes after nothing.                                            *)
LEMMA OntoNothing ==
  ASSUME NEW p
  PROVE  Onto(p, <<>>) = <<>>
<1>1. Len(<<>>) = 0
  OBVIOUS
<1>2. Meetings(p, <<>>) = {}
  BY <1>1 DEF Meetings
<1> QED BY <1>2 DEF Onto

----------------------------------------------------------------------------
(* Where the ranks are.                                                    *)

(* The script depends on what the header says.                             *)
LEMMA ScriptOf ==
  ASSUME NEW c, NEW d, c.kind = d.kind, c.direction = d.direction, c.n = d.n
  PROVE  Script(c) = Script(d)
BY DEF Script, Collection, ExecuteOne, Up

(* What the invariant says of one rank.                                    *)
LEMMA Standing ==
  ASSUME ControlInv, NEW r \in Rank
  PROVE  /\ plan \in Plans /\ RankInv(r)
         /\ \E E : todo[r] \in Seq(E)
         /\ Len(todo[r]) \in Nat
         /\ Whole(plan, todo[r])
         /\ Whole(plan, Script(call[r])) /\ Header(Script(call[r]))
<1>1. plan \in Plans /\ RankInv(r)
  BY DEF ControlInv
<1>2. Whole(plan, todo[r])
  BY <1>1 DEF RankInv
<1>3. PICK E : todo[r] \in Seq(E)
  BY <1>2 DEF Whole
<1>4. call[r].kind \in AllKinds /\ call[r].n \in Nat
  BY <1>1, TransformAssumption DEF RankInv, MemberIndex
<1>5. Whole(plan, Script(call[r])) /\ Header(Script(call[r]))
  BY <1>1, <1>4, ScriptWhole
<1>6. Len(todo[r]) \in Nat
  BY <1>3
<1> QED BY <1>1, <1>2, <1>3, <1>5, <1>6

(* A call opens with its header.                                           *)
LEMMA OpeningStep ==
  ASSUME ControlInv, NEW r \in Rank, Opening(r)
  PROVE  /\ todo[r] # <<>> /\ Step(r) = todo[r][1]
         /\ Step(r).do = "agree" /\ Step(r).caught = "no" /\ Step(r).place = <<"header", 0>>
         /\ Step(r).place[1] = "header"
         /\ Meeting(plan, todo[r][1])
         /\ Handlers(r) = {}
<1>1. Header(todo[r])
  BY Standing DEF Opening
<1>2. PICK E : todo[r] \in Seq(E)
  BY Standing
<1>3. todo[r] # <<>> /\ Step(r) = todo[r][1] /\ todo[r][1] = Agree("header", 0)
  BY <1>1, <1>2, TailIs DEF Header, Step
<1>4. Agree("header", 0).do = "agree" /\ Agree("header", 0).caught = "no" /\ Agree("header", 0).place = <<"header", 0>>
  BY DEF Agree
<1>5. Step(r).do = "agree" /\ Step(r).caught = "no" /\ Step(r).place = <<"header", 0>>
  BY <1>3, <1>4
<1>6. Step(r).place[1] = "header"
  BY <1>5
<1>7. Handlers(r) = {}
  BY <1>5 DEF Handlers
<1>8. Meeting(plan, todo[r][1])
  BY <1>3, <1>5 DEF Meeting
<1> QED BY <1>3, <1>5, <1>6, <1>7, <1>8

(* Two ranks that are in the same reduction, which all have entered, have  *)
(* the same outlook: also when it shows that they are not in the same call.*)
LEMMA SameOutlook ==
  ASSUME ControlInv, NEW p \in Rank, NEW q \in Rank, waiting[p], waiting[q], Ahead(q, p) = 0, Same(p, q)
  PROVE  Outlook(p) = Outlook(q)
<1>1. RankInv(p) /\ RankInv(q) /\ LogInv /\ LogType
  BY Standing DEF ControlInv, LogInv
<1>2. busy[p] /\ busy[q] /\ Engaged(p) /\ Engaged(q)
  BY <1>1 DEF RankInv, Engaged
<1>3. Words(p) = Words(q)
  BY <1>1, SameTurn
<1>4. CASE todo[p] = todo[q]
  <2>1. Step(p) = Step(q) /\ Accepted(p) = Accepted(q)
    BY <1>3, <1>4 DEF Step, Accepted
  <2>2. Passing(p) = Passing(q)
    BY <2>1 DEF Passing
  <2>3. Handlers(p) = Handlers(q)
    BY <1>4, <2>1 DEF Handlers
  <2>4. Rest(p) = Rest(q) /\ Dismissed(p) = Dismissed(q)
    BY <1>4, <2>2, <2>3 DEF Rest, Dismissed
  <2> QED BY <1>2, <2>1, <2>4 DEF Outlook
<1>5. CASE todo[p] # todo[q]
  <2>1. Opening(p) /\ Opening(q)
    BY <1>5 DEF Same
  <2>2. <<call[p].kind, call[p].direction, call[p].n>> # <<call[q].kind, call[q].direction, call[q].n>>
    BY <1>5, <2>1, ScriptOf DEF Opening
  <2>3. /\ Own(p).word.about = <<call[p].kind, call[p].direction, call[p].n>>
        /\ Own(q).word.about = <<call[q].kind, call[q].direction, call[q].n>>
    BY <1>1, <2>1 DEF RankInv
  <2>4. Own(p).word \in Words(p) /\ Own(q).word \in Words(p)
    BY <1>1, OwnWord
  <2>5. ~ Accepted(p) /\ ~ Accepted(q)
    BY <1>3, <2>2, <2>3, <2>4 DEF Accepted
  <2>6. /\ Step(p).place = <<"header", 0>> /\ Step(p).place[1] = "header" /\ Handlers(p) = {}
        /\ Step(q).place = <<"header", 0>> /\ Step(q).place[1] = "header" /\ Handlers(q) = {}
    BY <2>1, OpeningStep
  <2>7. Dismissed(p) /\ Dismissed(q)
    BY <2>5, <2>6 DEF Dismissed, Passing, Silent
  <2> QED BY <1>2, <2>6, <2>7 DEF Outlook
<1> QED BY <1>4, <1>5

(* Scripts depend on the plan alone.                                       *)
LEMMA ScriptStays ==
  ASSUME plan' = plan, NEW c
  PROVE  Script(c)' = Script(c)
<1>1. (Construct)' = Construct
  BY DEF Construct, BuildTransitions, C2CConstruct, R2RConstruct, R2CConstruct, MixedC2CConstruct, MixedR2CConstruct,
         If, Last, Boundary, IsReal, Try, Caught, Up, Down, OverlappedInto, Overlapped,
         AgreeHeader, CollectiveDescriptor, AgreeExecutionDescriptor, Preflight, ReduceChunks, ValidateBoundary
<1>2. ASSUME NEW d, NEW m
      PROVE  Execute(d, m)' = Execute(d, m)
  BY DEF Execute, ForwardTail, InverseTail, C2CForward, C2CInverse, C2CExecute, R2RChecked, R2RForward, R2RReverse, R2RExecute,
         ZeroAcceptedBoundary, R2CForward, R2CInverse, R2CExecuteForward, R2CExecuteReverse,
         MixedTransition, AgreedStage, MixedForwardTail, MixedReverseTail, MixedC2CForward, MixedC2CReverse, MixedC2CExecute,
         ZeroMixedBoundary, MixedR2CForward, MixedR2CReverse, MixedR2CExecute,
         If, Last, Boundary, IsReal, Try, Caught, Up, Down, OverlappedInto, Overlapped,
         AgreeHeader, CollectiveDescriptor, AgreeExecutionDescriptor, Preflight, ReduceChunks, ValidateBoundary
<1>3. (ExecuteOverlap(c.direction, 1))' = ExecuteOverlap(c.direction, 1)
  BY DEF ExecuteOverlap, C2CForwardOverlap, C2CInverseOverlap, C2COverlap, R2RChecked, R2RForwardOverlap, R2RReverseOverlap,
         R2ROverlap, ZeroAcceptedBoundary, R2CForwardOverlap, BoundaryC2RAfterTransition, R2CReverseOverlap, R2COverlapForward,
         R2COverlapReverse, AgreedStage, MixedC2COverlapped, MixedTransport, MixedC2COverlap,
         MixedR2CForwardOverlap, OverlappedOrAgreed, MixedR2CReverseOverlap, MixedR2COverlap,
         If, Last, Boundary, IsReal, Try, Caught, Up, Down, OverlappedInto, Overlapped,
         AgreeHeader, CollectiveDescriptor, AgreeExecutionDescriptor, Preflight, ReduceChunks, ValidateBoundary
<1>4. ASSUME NEW d, NEW m
      PROVE  ExecuteInPlace(d, m)' = ExecuteInPlace(d, m)
  BY DEF ExecuteInPlace, C2CForwardInPlace, C2CInverseInPlace, RunInPlaceTransaction, C2CExecuteInPlace, R2RChecked,
         R2RForwardInPlace, R2RReverseInPlace, R2RTransaction, R2RExecuteInPlace,
         ZeroAcceptedBoundary, R2CForwardInPlace, R2CReverseInPlace, R2CExecuteInPlace,
         MixedTransition, AgreedStage, MixedC2CForwardInPlace, MixedC2CReverseInPlace, MixedC2CExecuteInPlace,
         ZeroMixedBoundary, MixedR2CForwardInPlace, MixedR2CReverseInPlace, MixedR2CExecuteInPlace,
         If, Last, Boundary, IsReal, Try, Caught, Up, Down, OverlappedInto, Overlapped,
         AgreeHeader, CollectiveDescriptor, AgreeExecutionDescriptor, Preflight, ReduceChunks, ValidateBoundary
<1>5. Execute(c.direction, 1)' = Execute(c.direction, 1) /\ ExecuteInPlace(c.direction, 1)' = ExecuteInPlace(c.direction, 1)
  BY <1>2, <1>4
<1>6. Collection(c)' = Collection(c)
  BY SMTT(30) DEF Collection, CollectionBegin, ExecuteOne, ExecuteMember,
         Execute, ForwardTail, InverseTail, C2CForward, C2CInverse, C2CExecute, R2RChecked, R2RForward,
         R2RReverse, R2RExecute, ZeroAcceptedBoundary, R2CForward, R2CInverse, R2CExecuteForward,
         R2CExecuteReverse, MixedTransition, AgreedStage, MixedForwardTail, MixedReverseTail,
         MixedC2CForward, MixedC2CReverse, MixedC2CExecute, ZeroMixedBoundary, MixedR2CForward,
         MixedR2CReverse, MixedR2CExecute, ExecuteInPlace, C2CForwardInPlace, C2CInverseInPlace,
         RunInPlaceTransaction, C2CExecuteInPlace, R2RForwardInPlace, R2RReverseInPlace, R2RTransaction,
         R2RExecuteInPlace, R2CForwardInPlace, R2CReverseInPlace, R2CExecuteInPlace, MixedC2CForwardInPlace,
         MixedC2CReverseInPlace, MixedC2CExecuteInPlace, MixedR2CForwardInPlace, MixedR2CReverseInPlace,
         MixedR2CExecuteInPlace, If, Last, Boundary, IsReal, Try, Caught, Up, Down, OverlappedInto,
         Overlapped, AgreeHeader, CollectiveDescriptor, AgreeExecutionDescriptor, Preflight, ReduceChunks,
         ValidateBoundary
<1> QED BY <1>1, <1>3, <1>5, <1>6 DEF Script

(* A script changes only with its call.                                    *)
LEMMA ScriptKept ==
  ASSUME plan' = plan, NEW q, call'[q] = call[q]
  PROVE  Script(call[q])' = Script(call[q])
<1>1. PICK c : c = call[q]
  OBVIOUS
<1>2. Script(c)' = Script(c)
  BY ScriptStays
<1>3. Script(call[q])' = Script(c)'
  BY <1>1
<1> QED BY <1>1, <1>2, <1>3

(* A rank keeps its outlook when nothing that it stands on changes.        *)
LEMMA OutlookKept ==
  ASSUME plan' = plan, NEW q \in Rank, call'[q] = call[q], busy'[q] = busy[q], todo'[q] = todo[q],
         waiting'[q] = waiting[q], result'[q] = result[q],
         waiting[q] => Accepted(q)' = Accepted(q)
  PROVE  Outlook(q)' = Outlook(q) /\ Opening(q)' = Opening(q)
<1>1. Opening(q)' = Opening(q)
  BY ScriptKept DEF Opening
<1>2. Handlers(q)' = Handlers(q) /\ Step(q)' = Step(q)
  BY DEF Handlers, Step
<1>3. waiting[q] => Passing(q)' = Passing(q)
  BY <1>2 DEF Passing
<1>4. Rest(q)' = Rest(q) /\ Dismissed(q)' = Dismissed(q)
  BY <1>2, <1>3 DEF Rest, Dismissed
<1>5. Engaged(q)' = Engaged(q)
  BY <1>1 DEF Engaged
<1>6. Leads(plan, Rest(q))' = Leads(plan, Rest(q))
  BY <1>4 DEF Leads, Onto, Meetings, Meeting
<1> QED BY <1>1, <1>2, <1>4, <1>5, <1>6 DEF Outlook

(* Outlooks of ranks that are in no reduction.                             *)
LEMMA OutlookIdle ==
  ASSUME NEW q \in Rank, ~ waiting[q]
  PROVE  /\ ~ busy[q] => Outlook(q) = <<"ends", result[q]>>
         /\ Opening(q) => Outlook(q) = <<"ends", result[q]>>
         /\ busy[q] /\ ~ Opening(q) => Outlook(q) = Leads(plan, todo[q])
BY DEF Outlook, Engaged, Dismissed, Rest

(* The same of the next state.                                             *)
LEMMA OutlookIdleNext ==
  ASSUME NEW q \in Rank, ~ waiting'[q]
  PROVE  /\ ~ busy'[q] => Outlook(q)' = <<"ends", result'[q]>>
         /\ Opening(q)' => Outlook(q)' = <<"ends", result'[q]>>
         /\ busy'[q] /\ ~ Opening(q)' => Outlook(q)' = Leads(plan', todo'[q])
BY DEF Outlook, Engaged, Dismissed, Rest

(* Once a step of its script is done a rank is no more at the opening.     *)
LEMMA NoOpening ==
  ASSUME plan' = plan, NEW q \in Rank, call'[q] = call[q], Len(Script(call[q])) \in Nat,
         Len(todo'[q]) \in Nat, Len(todo'[q]) < Len(Script(call[q]))
  PROVE  ~ Opening(q)'
BY ScriptKept DEF Opening

(* Ranks that enter no reduction stay in step if their outlook stays.      *)
LEMMA UnloggedInStep ==
  ASSUME ControlInv, log' = log, plan' = plan, NEW r \in Rank,
         \A q \in Rank : q # r => /\ call'[q] = call[q] /\ busy'[q] = busy[q] /\ todo'[q] = todo[q]
                                  /\ waiting'[q] = waiting[q] /\ result'[q] = result[q],
         Outlook(r)' = Outlook(r), ~ waiting'[r], waiting[r] => Complete(r)
  PROVE  InStep'
<1>1. \A p, q \in Rank : Ahead(q, p)' = Ahead(q, p)
  BY DEF Ahead, Turn
<1>2. ASSUME NEW q \in Rank, q # r
      PROVE  Outlook(q)' = Outlook(q) /\ Opening(q)' = Opening(q) /\ waiting'[q] = waiting[q] /\ todo'[q] = todo[q]
  <2>1. Accepted(q)' = Accepted(q)
    BY DEF Accepted, Words, WordOf, Ahead, Turn
  <2> QED BY <1>2, <2>1, OutlookKept
<1>3. \A q \in Rank : Outlook(q)' = Outlook(q)
  BY <1>2
<1>4. LogInv /\ LogType
  BY DEF ControlInv, LogInv
<1>5. \A p, q \in Rank : (Ahead(q, p) = 0 => Same(p, q)) /\ (Ahead(q, p) = 1 => Lead(q, p))
  BY DEF ControlInv, InStep
<1>6. ASSUME NEW p \in Rank, NEW q \in Rank, Ahead(q, p) = 0
      PROVE  Same(p, q)'
  <2>1. Same(p, q)
    BY <1>5, <1>6
  <2>2. CASE waiting'[p] /\ waiting'[q]
    <3>1. p # r /\ q # r
      BY <2>2
    <3> QED BY <1>2, <2>1, <2>2, <3>1 DEF Same
  <2>3. CASE ~ (waiting'[p] /\ waiting'[q])
    <3>1. Outlook(p) = Outlook(q)
      <4>1. CASE waiting[p] /\ waiting[q]
        BY <1>6, <2>1, <4>1, SameOutlook
      <4>2. CASE ~ (waiting[p] /\ waiting[q])
        BY <2>1, <4>2 DEF Same
      <4> QED BY <4>1, <4>2
    <3> QED BY <1>3, <2>3, <3>1 DEF Same
  <2> QED BY <2>2, <2>3
<1>7. ASSUME NEW p \in Rank, NEW q \in Rank, Ahead(q, p) = 1
      PROVE  Lead(q, p)'
  <2>1. Lead(q, p)
    BY <1>5, <1>7
  <2>2. q # r
    BY <1>4, <1>7, <2>1, LedIsComplete DEF Lead
  <2> QED BY <1>2, <1>3, <2>1, <2>2 DEF Lead
<1> QED BY <1>1, <1>6, <1>7 DEF InStep

(* A rank that enters a reduction joins those that are in it, or waits for *)
(* those that will come to it.                                             *)
LEMMA EnterInStep ==
  ASSUME ControlInv, plan' = plan, NEW r \in Rank, NEW p, NEW w, Enter(r, p, w),
         busy[r], ~ waiting[r], todo[r] # <<>>, Meeting(plan, todo[r][1]), todo[r][1].do # "refuse",
         \A q \in Rank : /\ call'[q] = call[q] /\ busy'[q] = busy[q] /\ todo'[q] = todo[q]
                         /\ q # r => waiting'[q] = waiting[q]
                         /\ result'[q] = result[q],
         waiting'[r]
  PROVE  InStep'
<1>0. /\ LogInv /\ LogType /\ Complete(r)
      /\ \A q \in Rank : RankInv(q)
  BY Standing DEF ControlInv, LogInv, RankInv
<1>1. \A x \in Rank, y \in Rank :
        (Ahead(y, x) = 0 => Same(x, y)) /\ (Ahead(y, x) = 1 => Lead(y, x))
  BY DEF ControlInv, InStep
<1>2. PICK E : todo[r] \in Seq(E)
  BY Standing
<1>3. Outlook(r) = <<"meets", todo[r]>> \/ (Opening(r) /\ Outlook(r) = <<"ends", result[r]>>)
  <2>1. CASE Opening(r)
    BY <2>1, OutlookIdle
  <2>2. CASE ~ Opening(r)
    <3>1. Outlook(r) = Leads(plan, todo[r])
      BY <2>2, OutlookIdle
    <3>2. Onto(plan, todo[r]) = todo[r]
      BY <1>2, OntoMeeting
    <3> QED BY <3>1, <3>2 DEF Leads
  <2> QED BY <2>1, <2>2
<1>4. ASSUME NEW q \in Rank
      PROVE  Opening(q)' = Opening(q)
  BY ScriptKept DEF Opening
<1>5. ASSUME NEW q \in Rank, q # r, Complete(q)
      PROVE  Outlook(q)' = Outlook(q)
  <2>1. waiting[q] => Accepted(q)' = Accepted(q)
    <3> SUFFICES ASSUME waiting[q] PROVE Accepted(q)' = Accepted(q)
      OBVIOUS
    <3>1. Len(log[q]) >= 1
      BY <1>0 DEF RankInv
    <3>2. Words(q)' = Words(q)
      BY <1>0, <1>5, <3>1, Stable
    <3> QED BY <3>2 DEF Accepted
  <2> QED BY <1>5, <2>1, OutlookKept
<1>6. ASSUME NEW q \in Rank, q # r
      PROVE  /\ Ahead(q, r) = 1 \/ Ahead(q, r) = 0
             /\ Ahead(q, r)' = 0 <=> Ahead(q, r) = 1
             /\ Ahead(r, q)' = 1 <=> Ahead(q, r) = 0
             /\ Ahead(q, r)' # 1
             /\ Ahead(r, q)' = 0 <=> Ahead(q, r) = 1
  <2>1. Ahead(q, r) \in {0, 1}
    BY <1>0 DEF Complete
  <2>2. Ahead(q, r)' = (Ahead(q, r) + 3) % 4 /\ Ahead(r, q)' = (Ahead(r, q) + 1) % 4
    BY <1>0, <1>6, EnterAhead
  <2>3. /\ Ahead(r, q) \in 0..3 /\ (Ahead(q, r) = 0 <=> Ahead(r, q) = 0)
        /\ (Ahead(q, r) = 1 <=> Ahead(r, q) = 3)
    BY <1>0, AheadType
  <2> QED BY <2>1, <2>2, <2>3
<1>7. Ahead(r, r)' = 0
  <2>1. Turn(r)' \in 0..3
    <3>1. Turn(r)' = (Turn(r) + 1) % 4 /\ Turn(r) \in 0..3
      BY <1>0, EnterTurn, TurnType
    <3> QED BY <3>1
  <2> QED BY <2>1 DEF Ahead
<1>8. ASSUME NEW x \in Rank, NEW y \in Rank, x # r, y # r
      PROVE  Ahead(y, x)' = Ahead(y, x)
  BY <1>0, <1>8, EnterAhead
<1>9. ASSUME NEW x \in Rank, NEW y \in Rank, x # r, y # r, Ahead(y, x) = 0
      PROVE  Same(x, y)'
  <2>1. Same(x, y)
    BY <1>1, <1>9
  <2>2. CASE waiting[x] /\ waiting[y]
    BY <1>4, <1>9, <2>1, <2>2 DEF Same
  <2>3. CASE ~ (waiting[x] /\ waiting[y])
    <3>1. Complete(x) /\ Complete(y)
      <4>1. Complete(x) \/ Complete(y)
        BY <1>0, <2>3 DEF RankInv
      <4>2. Complete(x) = Complete(y)
        BY <1>0, <1>9, SameTurn
      <4> QED BY <4>1, <4>2
    <3>2. Outlook(x)' = Outlook(x) /\ Outlook(y)' = Outlook(y)
      BY <1>5, <1>9, <3>1
    <3> QED BY <1>9, <2>1, <2>3, <3>2 DEF Same
  <2> QED BY <2>2, <2>3
<1>10. ASSUME NEW x \in Rank, NEW y \in Rank, x # r, y # r, Ahead(y, x) = 1
       PROVE  Lead(y, x)'
  <2>1. Lead(y, x) /\ Complete(x)
    BY <1>0, <1>1, <1>10, LedIsComplete
  <2>2. Outlook(x)' = Outlook(x)
    BY <1>5, <1>10, <2>1
  <2> QED BY <1>4, <1>10, <2>1, <2>2 DEF Lead
<1>11. ASSUME NEW q \in Rank, q # r, Ahead(q, r) = 0
       PROVE  Lead(r, q)'
  <2>1. Same(r, q) /\ Complete(q)
    BY <1>0, <1>1, <1>11, SameTurn
  <2>2. Outlook(q)' = Outlook(q) /\ Outlook(q) = Outlook(r)
    BY <1>5, <1>11, <2>1 DEF Same
  <2>3. Outlook(r)[1] = "meets" \/ (Opening(r) /\ Outlook(r)[1] = "ends")
    BY <1>3
  <2> QED BY <1>3, <1>4, <2>2, <2>3 DEF Lead
<1>12. ASSUME NEW q \in Rank, q # r, Ahead(q, r) = 1
       PROVE  Same(r, q)' /\ Same(q, r)'
  <2>1. Lead(q, r)
    BY <1>1, <1>12
  <2>2. todo[r] = todo[q] \/ (Opening(r) /\ Opening(q))
    <3>1. CASE Outlook(r) = <<"meets", todo[q]>>
      BY <1>3, <3>1
    <3>2. CASE Outlook(r)[1] = "ends" /\ Opening(q)
      <4>1. Outlook(r) # <<"meets", todo[r]>>
        BY <3>2
      <4> QED BY <1>3, <3>2, <4>1
    <3> QED BY <2>1, <3>1, <3>2 DEF Lead
  <2> QED BY <1>4, <1>12, <2>1, <2>2 DEF Same, Lead
<1>13. Same(r, r)'
  BY DEF Same
<1>14. ASSUME NEW x \in Rank, NEW y \in Rank
       PROVE  (Ahead(y, x)' = 0 => Same(x, y)') /\ (Ahead(y, x)' = 1 => Lead(y, x)')
  <2>1. CASE x # r /\ y # r
    BY <1>8, <1>9, <1>10, <2>1
  <2>2. CASE x = r /\ y = r
    BY <1>7, <1>13, <2>2
  <2>3. CASE x = r /\ y # r
    BY <1>6, <1>12, <2>3
  <2>4. CASE x # r /\ y = r
    BY <1>6, <1>11, <1>12, <2>4
  <2> QED BY <2>1, <2>2, <2>3, <2>4
<1> QED BY <1>14 DEF InStep

----------------------------------------------------------------------------
(* Steps of one rank.                                                      *)

(* Nobody but r moves. *)
Only(r) ==
  \A q \in Rank : q # r =>
    /\ call'[q] = call[q] /\ busy'[q] = busy[q] /\ todo'[q] = todo[q]
    /\ waiting'[q] = waiting[q] /\ result'[q] = result[q]

(* A rank about which nothing changes keeps its invariant.                 *)
LEMMA RankKept ==
  ASSUME NEW q \in Rank, RankInv(q), plan' = plan, log'[q] = log[q], call'[q] = call[q], busy'[q] = busy[q],
         todo'[q] = todo[q], waiting'[q] = waiting[q], ~ waiting[q] => Complete(q)'
  PROVE  RankInv(q)'
<1>1. Script(call[q])' = Script(call[q])
  BY ScriptKept
<1>2. Opening(q)' = Opening(q) /\ Own(q)' = Own(q)
  BY <1>1 DEF Opening, Own
<1>3. Whole(plan, todo[q])' /\ (call[q].n \in MemberIndex)' /\ Len(todo'[q]) <= Len(Script(call[q])')
  BY <1>1 DEF RankInv, MemberIndex
<1>4. waiting[q] =>
       /\ busy[q] /\ todo[q] # <<>> /\ Len(log[q]) >= 1
       /\ Meeting(plan, todo[q][1]) /\ todo[q][1].do # "refuse"
       /\ Opening(q) => Own(q).word.about = <<call[q].kind, call[q].direction, call[q].n>>
  BY DEF RankInv
<1>5. waiting'[q] =>
       /\ busy'[q] /\ todo'[q] # <<>> /\ Len(log'[q]) >= 1
       /\ Meeting(plan', todo'[q][1]) /\ todo'[q][1].do # "refuse"
       /\ Opening(q)' => Own(q)'.word.about = <<call'[q].kind, call'[q].direction, call'[q].n>>
  BY <1>2, <1>4
<1> QED BY <1>3, <1>5 DEF RankInv

(* Without an entry a completed reduction stays complete.                  *)
LEMMA LogKept ==
  ASSUME log' = log
  PROVE  /\ \A q \in Rank : Complete(q)' = Complete(q) /\ Own(q)' = Own(q) /\ Words(q)' = Words(q)
         /\ LogInv => LogInv'
<1>1. \A p, q \in Rank : Ahead(q, p)' = Ahead(q, p) /\ WordOf(q, p)' = WordOf(q, p)
  BY DEF Ahead, Turn, WordOf
<1>2. \A q \in Rank : Complete(q)' = Complete(q) /\ Own(q)' = Own(q) /\ Words(q)' = Words(q)
  BY <1>1 DEF Complete, Own, Words
<1>3. LogType => LogType'
  BY DEF LogType, Turn
<1>4. LogClose => LogClose'
  BY <1>1 DEF LogClose
<1> QED BY <1>2, <1>3, <1>4 DEF LogInv

(* A step of rank r alone that leaves its outlook as it is.                *)
LEMMA Unlogged ==
  ASSUME ControlInv, plan' = plan, log' = log, Shapes', NEW r \in Rank, Only(r),
         RankInv(r)', Outlook(r)' = Outlook(r), ~ waiting'[r], waiting[r] => Complete(r)
  PROVE  ControlInv'
<1>1. InStep'
  BY UnloggedInStep DEF Only
<1>2. ASSUME NEW q \in Rank PROVE RankInv(q)'
  <2>1. CASE q = r
    BY <2>1
  <2>2. CASE q # r
    <3>1. RankInv(q)
      BY DEF ControlInv
    <3>2. ~ waiting[q] => Complete(q)'
      BY <3>1, LogKept DEF RankInv
    <3> QED BY <2>2, <3>1, <3>2, RankKept DEF Only
  <2> QED BY <2>1, <2>2
<1>3. LogInv' /\ plan' \in Plans
  BY LogKept DEF ControlInv
<1> QED BY <1>1, <1>2, <1>3 DEF ControlInv

(* A rank goes on in its script.                                           *)
LEMMA GoesOn ==
  ASSUME ControlInv, plan' = plan, log' = log, Shapes', NEW r \in Rank, Only(r), call'[r] = call[r],
         busy[r], busy'[r], result'[r] = result[r], ~ waiting'[r],
         NEW h \in 2..(Len(todo[r]) + 1), todo'[r] = SubSeq(todo[r], h, Len(todo[r])),
         \/ ~ waiting[r] /\ ~ Opening(r) /\ \A i \in 1..(h - 1) : ~ Meeting(plan, todo[r][i])
         \/ waiting[r] /\ Complete(r) /\ ~ Dismissed(r) /\ todo'[r] = Rest(r)
  PROVE  ControlInv'
<1>1. PICK E : todo[r] \in Seq(E)
  BY Standing
<1>2. RankInv(r) /\ Whole(plan, todo[r]) /\ Len(todo[r]) \in Nat
  BY Standing
<1>3. PICK t : t = SubSeq(todo[r], h, Len(todo[r])) /\ todo'[r] = t
  OBVIOUS
<1>4. h \in 1..(Len(todo[r]) + 1)
  BY <1>2
<1>5. Whole(plan, t)
  BY <1>2, <1>3, <1>4, SuffixWhole
<1>6. t \in Seq(E) /\ Len(t) = Len(todo[r]) - h + 1
  <2>1. t = SubSeq(todo[r], h, Len(todo[r]))
    BY <1>3
  <2> QED BY ONLY <1>1, <1>4, <2>1, Suffix
<1>7. Len(t) \in Nat /\ Len(t) < Len(todo[r])
  BY <1>2, <1>6
<1>8. Len(Script(call[r])) \in Nat /\ Len(todo[r]) <= Len(Script(call[r]))
  <2>1. Whole(plan, Script(call[r]))
    BY Standing
  <2>2. PICK F : Script(call[r]) \in Seq(F)
    BY <2>1 DEF Whole
  <2> QED BY <1>2, <2>2 DEF RankInv
<1>9. Len(todo'[r]) \in Nat /\ Len(todo'[r]) < Len(Script(call[r]))
  BY <1>2, <1>3, <1>7, <1>8
<1>10. ~ Opening(r)'
  BY <1>8, <1>9, NoOpening
<1>11. Outlook(r)' = Leads(plan, t)
  BY <1>3, <1>10, OutlookIdleNext
<1>12. Outlook(r) = Leads(plan, t)
  <2>1. CASE ~ waiting[r] /\ ~ Opening(r) /\ \A i \in 1..(h - 1) : ~ Meeting(plan, todo[r][i])
    <3>1. Outlook(r) = Leads(plan, todo[r])
      BY <2>1, OutlookIdle
    <3>2. Onto(plan, t) = Onto(plan, todo[r])
      BY <1>1, <1>3, <1>4, <2>1, OntoSuffix
    <3> QED BY <3>1, <3>2 DEF Leads
  <2>2. CASE waiting[r] /\ Complete(r) /\ ~ Dismissed(r) /\ todo'[r] = Rest(r)
    BY <1>3, <2>2 DEF Outlook, Engaged
  <2> QED BY <2>1, <2>2
<1>13. RankInv(r)'
  <2>1. Script(call[r])' = Script(call[r])
    BY ScriptKept
  <2>2. Complete(r)'
    BY <1>2, LogKept DEF RankInv
  <2>3. Len(todo[r])' <= Len(Script(call[r]))'
    BY <1>8, <1>9, <2>1
  <2>4. (call[r].n \in MemberIndex)' /\ call'[r].kind \in AllKinds /\ call'[r].direction \in {"forward", "reverse"}
    BY <1>2 DEF RankInv, MemberIndex
  <2> QED BY <1>3, <1>5, <2>2, <2>3, <2>4 DEF RankInv
<1> QED BY <1>11, <1>12, <1>13, Unlogged

(* A rank comes to the end of its call.                                    *)
LEMMA Ends ==
  ASSUME ControlInv, plan' = plan, log' = log, Shapes', NEW r \in Rank, Only(r), call'[r] = call[r],
         ~ busy'[r], ~ waiting'[r], waiting[r] => Complete(r), todo'[r] = <<>>,
         Outlook(r) = <<"ends", result'[r]>>
  PROVE  ControlInv'
<1>1. Outlook(r)' = Outlook(r)
  BY OutlookIdleNext
<1>2. RankInv(r) /\ plan \in Plans
  BY Standing
<1>3. RankInv(r)'
  <2>1. Script(call[r])' = Script(call[r])
    BY ScriptKept
  <2>2. Complete(r)'
    BY <1>2, LogKept DEF RankInv
  <2>3. Whole(plan, <<>>)
    BY PartRemains, NoPart, <1>2 DEF Whole, Remainder
  <2>4. Len(<<>>) = 0 /\ Len(Script(call[r])) \in Nat
    <3>1. Whole(plan, Script(call[r]))
      BY Standing
    <3>2. PICK F : Script(call[r]) \in Seq(F)
      BY <3>1 DEF Whole
    <3> QED BY <3>2
  <2>5. (call[r].n \in MemberIndex)' /\ call'[r].kind \in AllKinds /\ call'[r].direction \in {"forward", "reverse"}
    BY <1>2 DEF RankInv, MemberIndex
  <2>6. Len(todo[r])' <= Len(Script(call[r]))'
    BY <2>1, <2>4
  <2> QED BY <2>2, <2>3, <2>5, <2>6 DEF RankInv
<1> QED BY <1>1, <1>3, Unlogged

----------------------------------------------------------------------------
(* Actions.                                                                *)

(* Whatever leaves scripts and reductions alone keeps the ranks in step.   *)
LEMMA Frame ==
  ASSUME ControlInv, UNCHANGED <<plan, log, call, busy, todo, waiting, result>>, Shapes'
  PROVE  ControlInv'
<1>1. ASSUME NEW q \in Rank PROVE RankInv(q)'
  <2>1. RankInv(q)
    BY DEF ControlInv
  <2>2. ~ waiting[q] => Complete(q)'
    BY <2>1, LogKept DEF RankInv
  <2> QED BY <2>1, <2>2, RankKept
<1>2. \A p, q \in Rank : Ahead(q, p)' = Ahead(q, p)
  BY DEF Ahead, Turn
<1>3. ASSUME NEW q \in Rank PROVE Outlook(q)' = Outlook(q) /\ Opening(q)' = Opening(q)
  <2>1. Accepted(q)' = Accepted(q)
    BY DEF Accepted, Words, WordOf, Ahead, Turn
  <2> QED BY <2>1, OutlookKept
<1>4. \A p, q \in Rank : (Ahead(q, p) = 0 => Same(p, q)) /\ (Ahead(q, p) = 1 => Lead(q, p))
  BY DEF ControlInv, InStep
<1>5. \A p, q \in Rank : Same(p, q)' = Same(p, q) /\ Lead(q, p)' = Lead(q, p)
  BY <1>3 DEF Same, Lead
<1>6. InStep'
  BY <1>2, <1>4, <1>5 DEF InStep
<1> QED BY <1>1, <1>6, LogKept DEF ControlInv

(* A rank at a step that is no meeting.                                    *)
LEMMA AtLocal ==
  ASSUME ControlInv, NEW r \in Rank, busy[r], todo[r] # <<>>, ~ Meeting(plan, Step(r))
  PROVE  ~ waiting[r] /\ ~ Opening(r) /\ Step(r) = todo[r][1]
<1>1. PICK E : todo[r] \in Seq(E)
  BY Standing
<1>2. Step(r) = todo[r][1]
  BY <1>1, TailIs DEF Step
<1>3. RankInv(r)
  BY Standing
<1>4. ~ waiting[r]
  BY <1>2, <1>3 DEF RankInv
<1>5. ~ Opening(r)
  BY <1>2, OpeningStep
<1> QED BY <1>2, <1>4, <1>5

(* A rank does one step of its script alone.                               *)
LEMMA Advances ==
  ASSUME ControlInv, plan' = plan, log' = log, Shapes', NEW r \in Rank, Only(r), call'[r] = call[r],
         busy[r], busy'[r], result'[r] = result[r], waiting'[r] = waiting[r],
         todo[r] # <<>>, ~ Meeting(plan, Step(r)), todo'[r] = Tail(todo[r])
  PROVE  ControlInv'
<1>1. ~ waiting[r] /\ ~ Opening(r) /\ Step(r) = todo[r][1]
  BY AtLocal
<1>2. PICK E : todo[r] \in Seq(E)
  BY Standing
<1>3. Tail(todo[r]) = SubSeq(todo[r], 2, Len(todo[r])) /\ Len(todo[r]) \in Nat \ {0}
  BY <1>2, TailIs
<1>4. PICK h : h = 2 /\ h \in 2..(Len(todo[r]) + 1) /\ todo'[r] = SubSeq(todo[r], h, Len(todo[r]))
  BY <1>3
<1>5. \A i \in 1..(h - 1) : ~ Meeting(plan, todo[r][i])
  BY <1>1, <1>4
<1>6. h \in 2..(Len(todo[r]) + 1) /\ todo'[r] = SubSeq(todo[r], h, Len(todo[r]))
  BY <1>4
<1>7. ~ waiting[r] /\ ~ Opening(r) /\ \A i \in 1..(h - 1) : ~ Meeting(plan, todo[r][i])
  BY <1>1, <1>5
<1>8. ~ waiting'[r]
  BY <1>1
<1> QED BY <1>6, <1>7, <1>8, GoesOn

(* A step that may fail on one rank alone has a result to look at it, and  *)
(* no meeting in between.                                                  *)
LEMMA FailsAlone ==
  ASSUME ControlInv, NEW r \in Rank, busy[r], todo[r] # <<>>, MayFail(Step(r))
  PROVE  /\ ~ waiting[r] /\ ~ Opening(r) /\ Handlers(r) # {}
         /\ First(Handlers(r)) \in 2..(Len(todo[r]) + 1) /\ First(Handlers(r)) \in Handlers(r)
         /\ \A i \in 1..(First(Handlers(r)) - 1) : ~ Meeting(plan, todo[r][i])
<1>1. ~ Meeting(plan, Step(r))
  BY DEF MayFail, Meeting
<1>2. ~ waiting[r] /\ ~ Opening(r) /\ Step(r) = todo[r][1]
  BY <1>1, AtLocal
<1>3. Len(todo[r]) \in Nat /\ Whole(plan, todo[r])
  BY Standing
<1>4. 1 \in 1..Len(todo[r])
  <2>1. PICK E : todo[r] \in Seq(E)
    BY Standing
  <2>2. Len(todo[r]) \in Nat \ {0}
    BY <2>1, TailIs
  <2> QED BY <2>2
<1>5. \E h \in (1 + 1)..Len(todo[r]) : todo[r][h].do = "result" /\ \A i \in (1 + 1)..(h - 1) : ~ Meeting(plan, todo[r][i])
  BY <1>2, <1>3, <1>4 DEF Whole, Answered
<1>6. PICK h \in 2..Len(todo[r]) : todo[r][h].do = "result" /\ \A i \in 2..(h - 1) : ~ Meeting(plan, todo[r][i])
  BY <1>5
<1>7. h \in Handlers(r) /\ Handlers(r) \in SUBSET Nat /\ \A k \in Handlers(r) : k \in 2..Len(todo[r])
  BY <1>3, <1>6 DEF Handlers, MayFail
<1>8. First(Handlers(r)) \in Handlers(r) /\ \A k \in Handlers(r) : First(Handlers(r)) <= k
  BY <1>7, FirstIs
<1>9. PICK f : f = First(Handlers(r))
  OBVIOUS
<1>10. f \in 2..Len(todo[r]) /\ f <= h
  BY <1>7, <1>8, <1>9
<1>11. \A i \in 1..(f - 1) : i = 1 \/ i \in 2..(h - 1)
  BY <1>3, <1>10
<1>12. \A i \in 1..(f - 1) : ~ Meeting(plan, todo[r][i])
  BY <1>1, <1>2, <1>6, <1>11
<1>13. f \in 2..(Len(todo[r]) + 1)
  BY <1>3, <1>10
<1> QED BY <1>2, <1>7, <1>8, <1>9, <1>12, <1>13

(* A rank is refused: it goes on at the result that looks at it, or its    *)
(* call ends.                                                              *)
LEMMA IsRefused ==
  ASSUME ControlInv, plan' = plan, log' = log, Shapes', NEW r \in Rank, Only(r), call'[r] = call[r],
         busy[r], todo[r] # <<>>, ~ waiting'[r],
         IF Handlers(r) # {}
         THEN /\ todo'[r] = SubSeq(todo[r], First(Handlers(r)), Len(todo[r]))
              /\ busy'[r] = busy[r] /\ result'[r] = result[r]
         ELSE todo'[r] = <<>> /\ ~ busy'[r] /\ result'[r] = Step(r).place,
         \/ ~ waiting[r] /\ MayFail(Step(r))
         \/ ~ waiting[r] /\ Step(r).do = "refuse"
         \/ waiting[r] /\ Complete(r) /\ ~ Passing(r)
  PROVE  ControlInv'
<1>1. PICK E : todo[r] \in Seq(E)
  BY Standing
<1>2. Step(r) = todo[r][1] /\ Len(todo[r]) \in Nat \ {0}
  BY <1>1, TailIs DEF Step
<1>3. Whole(plan, todo[r]) /\ RankInv(r)
  BY Standing
<1>4. CASE ~ waiting[r] /\ MayFail(Step(r))
  <2>1. /\ ~ waiting[r] /\ ~ Opening(r) /\ Handlers(r) # {}
        /\ First(Handlers(r)) \in 2..(Len(todo[r]) + 1)
        /\ \A i \in 1..(First(Handlers(r)) - 1) : ~ Meeting(plan, todo[r][i])
    BY <1>4, FailsAlone
  <2>2. PICK h : h = First(Handlers(r))
    OBVIOUS
  <2>3. /\ h \in 2..(Len(todo[r]) + 1) /\ todo'[r] = SubSeq(todo[r], h, Len(todo[r]))
        /\ ~ waiting[r] /\ ~ Opening(r) /\ \A i \in 1..(h - 1) : ~ Meeting(plan, todo[r][i])
        /\ busy'[r] /\ result'[r] = result[r]
    BY <2>1, <2>2
  <2> QED BY <2>3, GoesOn
<1>5. CASE ~ waiting[r] /\ Step(r).do = "refuse"
  <2>1. 1 \in 1..Len(todo[r])
    BY <1>2
  <2>2. Step(r).caught = "no"
    BY <1>2, <1>3, <1>5, <2>1 DEF Whole
  <2>3. Handlers(r) = {}
    BY <2>2 DEF Handlers
  <2>4. Meeting(plan, todo[r][1])
    BY <1>2, <1>5 DEF Meeting
  <2>5. Onto(plan, todo[r]) = todo[r]
    BY <1>1, <2>4, OntoMeeting
  <2>6. ~ Opening(r)
    BY <1>5, OpeningStep
  <2>7. Outlook(r) = <<"ends", Step(r).place>>
    BY <1>2, <1>5, <2>5, <2>6, OutlookIdle DEF Leads
  <2>8. ~ busy'[r] /\ (waiting[r] => Complete(r)) /\ todo'[r] = <<>> /\ Outlook(r) = <<"ends", result'[r]>>
    BY <1>5, <2>3, <2>7
  <2> QED BY <2>8, Ends
<1>6. CASE waiting[r] /\ Complete(r) /\ ~ Passing(r)
  <2>1. CASE Handlers(r) # {}
    <3>1. Handlers(r) \in SUBSET Nat /\ \A k \in Handlers(r) : k \in 2..Len(todo[r])
      <4>1. Len(todo[r]) \in Nat /\ \A k \in 2..Len(todo[r]) : k \in Nat
        BY <1>2
      <4>2. \A k \in Handlers(r) : k \in 2..Len(todo[r])
        BY DEF Handlers
      <4> QED BY <4>1, <4>2
    <3>2. First(Handlers(r)) \in Handlers(r)
      BY <2>1, <3>1, FirstIs
    <3>3. PICK h : h = First(Handlers(r))
      OBVIOUS
    <3>4. h \in 2..Len(todo[r])
      BY <3>1, <3>2, <3>3
    <3>5. h \in 2..(Len(todo[r]) + 1) /\ todo'[r] = SubSeq(todo[r], h, Len(todo[r]))
      BY <1>2, <2>1, <3>3, <3>4
    <3>6. waiting[r] /\ Complete(r) /\ ~ Dismissed(r) /\ todo'[r] = Rest(r) /\ busy'[r] /\ result'[r] = result[r]
      BY <1>6, <2>1 DEF Dismissed, Rest
    <3> QED BY <3>5, <3>6, GoesOn
  <2>2. CASE Handlers(r) = {}
    <3>1. Outlook(r) = <<"ends", Step(r).place>>
      BY <1>6, <2>2 DEF Outlook, Engaged, Dismissed
    <3>2. ~ busy'[r] /\ (waiting[r] => Complete(r)) /\ todo'[r] = <<>> /\ Outlook(r) = <<"ends", result'[r]>>
      BY <1>6, <2>2, <3>1
    <3> QED BY <3>2, Ends
  <2> QED BY <2>1, <2>2
<1> QED BY <1>4, <1>5, <1>6

(* At first nobody is in a call.                                           *)
LEMMA InitControl ==
  ASSUME Init
  PROVE  ControlInv
<1>1. log = [r \in Rank |-> <<>>]
  BY DEF Init, NoReductions
<1>2. \A r \in Rank : Turn(r) = 0
  BY <1>1 DEF Turn
<1>3. \A p, q \in Rank : Ahead(q, p) = 0
  BY <1>2 DEF Ahead
<1>4. LogInv
  <2>1. log \in [Rank -> Seq({})] /\ \A r \in Rank : Len(log[r]) = 0
    BY <1>1
  <2>2. LogType
    BY <1>2, <2>1 DEF LogType
  <2>3. LogClose
    BY <1>3, <2>1 DEF LogClose
  <2> QED BY <2>2, <2>3 DEF LogInv
<1>5. Shapes /\ plan \in Plans
  BY DEF Init, Shapes
<1>6. ASSUME NEW r \in Rank PROVE Outlook(r) = <<"ends", OK>>
  BY DEF Init, Outlook, Engaged
<1>7. InStep
  <2>1. \A r \in Rank : ~ waiting[r]
    BY DEF Init
  <2> QED BY <1>3, <1>6, <2>1 DEF InStep, Same
<1>8. ASSUME NEW r \in Rank PROVE RankInv(r)
  <2>1. call[r] = NoCall /\ todo[r] = <<>> /\ ~ waiting[r]
    BY DEF Init
  <2>2. NoCall.kind = "construct" /\ NoCall.direction = "forward" /\ NoCall.n = 1
    BY DEF NoCall
  <2>3. call[r].kind \in AllKinds /\ call[r].direction \in {"forward", "reverse"} /\ call[r].n = 1
    BY <2>1, <2>2 DEF AllKinds
  <2>4. call[r].n \in MemberIndex /\ call[r].n \in Nat
    <3>1. Members[plan] \in Nat \ {0}
      BY <1>5, TransformAssumption
    <3> QED BY <2>3, <3>1 DEF MemberIndex
  <2>5. Whole(plan, <<>>)
    BY PartRemains, NoPart, <1>5 DEF Whole, Remainder
  <2>6. Len(<<>>) = 0 /\ Len(Script(call[r])) \in Nat
    <3>1. Whole(plan, Script(call[r]))
      BY <1>5, <2>3, <2>4, ScriptWhole
    <3>2. PICK F : Script(call[r]) \in Seq(F)
      BY <3>1 DEF Whole
    <3> QED BY <3>2
  <2>7. Complete(r)
    BY <1>3 DEF Complete
  <2>8. Len(todo[r]) <= Len(Script(call[r])) /\ Whole(plan, todo[r])
    BY <2>1, <2>5, <2>6
  <2> QED BY <2>1, <2>3, <2>4, <2>7, <2>8 DEF RankInv
<1> QED BY <1>4, <1>5, <1>7, <1>8 DEF ControlInv

(* A call, its script and what it changes.                                 *)
LEMMA CallMade ==
  ASSUME NEW r \in Rank, Call(r)
  PROVE  \E c :
               /\ c.kind \in Kinds[plan] /\ c.direction \in {"forward", "reverse"} /\ c.n \in MemberIndex
               /\ c.bad # {} => /\ IsReal /\ c.direction = "reverse" /\ c.kind # "construct"
                                /\ c.bad \subseteq 1..c.n
               /\ c.kind \notin CollectionKinds => c.n = 1
               /\ call' = [call EXCEPT ![r] = c]
               /\ todo' = [todo EXCEPT ![r] = Script(c)]
               /\ \E f : data' = [data EXCEPT ![r] = f]
<1> DEFINE D(kind, direction) ==
             [b \in Buffers |-> CASE b[1] = "source" /\ kind \in OutOfPlaceKinds -> Content(Start(direction))
                                  [] b[1] = "destination" -> Content(Old)
                                  [] OTHER -> data[r][b]]
<1>1. PICK kind \in Kinds[plan], direction \in {"forward", "reverse"}, n \in MemberIndex,
           descriptor \in {"plan", "other"}, bad \in SUBSET MemberIndex :
        LET c == [kind |-> kind, direction |-> direction, n |-> n, descriptor |-> descriptor, bad |-> bad]
        IN  /\ kind = "construct" => direction = "forward"
            /\ kind \notin CollectionKinds => n = 1
            /\ bad # {} => /\ IsReal /\ direction = "reverse" /\ kind # "construct"
                           /\ bad \subseteq 1..n
            /\ faults' = faults + (IF descriptor = "other" THEN 1 ELSE 0)
                                + (IF bad # {} THEN 1 ELSE 0)
                                + (IF Strays(r, c) THEN 1 ELSE 0)
            /\ faults' <= MaxFaults
            /\ call' = [call EXCEPT ![r] = c]
            /\ todo' = [todo EXCEPT ![r] = Script(c)]
            /\ data' = [data EXCEPT ![r] = D(kind, direction)]
  BY Zenon DEF Call
<1>2. PICK c : c = [kind |-> kind, direction |-> direction, n |-> n, descriptor |-> descriptor, bad |-> bad]
  OBVIOUS
<1> HIDE DEF D
<1>3. /\ bad # {} => /\ IsReal /\ direction = "reverse" /\ kind # "construct"
                     /\ bad \subseteq 1..n
      /\ kind \notin CollectionKinds => n = 1
      /\ call' = [call EXCEPT ![r] = c] /\ todo' = [todo EXCEPT ![r] = Script(c)]
      /\ data' = [data EXCEPT ![r] = D(kind, direction)]
  BY <1>1, <1>2
<1> QED BY <1>2, <1>3

(* A call does not count before its first reduction.                       *)
LEMMA CallControl ==
  ASSUME ControlInv, NEW r \in Rank, Call(r)
  PROVE  ControlInv'
<1>1. /\ ~ busy[r] /\ busy' = [busy EXCEPT ![r] = TRUE]
      /\ UNCHANGED <<plan, log, waiting, failing, result, poisoned, state, storage>>
  BY DEF Call
<1>2. PICK c : /\ c.kind \in Kinds[plan] /\ c.direction \in {"forward", "reverse"} /\ c.n \in MemberIndex
               /\ c.bad # {} => /\ IsReal /\ c.direction = "reverse" /\ c.kind # "construct"
                                /\ c.bad \subseteq 1..c.n
               /\ c.kind \notin CollectionKinds => c.n = 1
               /\ call' = [call EXCEPT ![r] = c]
               /\ todo' = [todo EXCEPT ![r] = Script(c)]
               /\ \E f : data' = [data EXCEPT ![r] = f]
  BY CallMade
<1>3. Shapes /\ plan \in Plans /\ RankInv(r)
  BY DEF ControlInv
<1>4. call'[r] = c /\ todo'[r] = Script(c) /\ busy'[r] /\ waiting'[r] = waiting[r] /\ ~ waiting[r]
  BY <1>1, <1>2, <1>3 DEF Shapes, RankInv
<1>5. Only(r)
  BY <1>1, <1>2, <1>3 DEF Only, Shapes
<1>6. Shapes'
  <2>1. DOMAIN data' = DOMAIN data
    BY <1>2
  <2> QED BY <1>1, <1>2, <1>3, <2>1 DEF Shapes
<1>7. Script(c)' = Script(c)
  BY <1>1, ScriptStays
<1>8. Script(call[r])' = Script(c)
  <2>1. Script(call[r])' = Script(c)'
    BY <1>4
  <2> QED BY <1>7, <2>1
<1>9. Opening(r)'
  BY <1>4, <1>8 DEF Opening
<1>10. Outlook(r)' = Outlook(r)
  BY <1>1, <1>4, <1>9, OutlookIdle, OutlookIdleNext
<1>11. RankInv(r)'
  <2>1. c.kind \in AllKinds
    <3>1. Kinds[plan] \in SUBSET AllKinds
      BY <1>3, TransformAssumption
    <3> QED BY <1>2, <3>1
  <2>2. (call[r].n \in MemberIndex)' /\ c.n \in Nat
    <3>1. c.n \in MemberIndex /\ Members[plan] \in Nat \ {0}
      BY <1>2, <1>3, TransformAssumption
    <3> QED BY <1>1, <1>4, <3>1 DEF MemberIndex
  <2>3. Whole(plan, Script(c))
    BY <1>3, <2>1, <2>2, ScriptWhole
  <2>4. PICK F : Script(c) \in Seq(F)
    BY <2>3 DEF Whole
  <2>5. Len(Script(c)) \in Nat
    BY <2>4
  <2>6. Complete(r)'
    BY <1>1, <1>3, <1>4, LogKept DEF RankInv
  <2>7. Len(todo[r])' <= Len(Script(call[r]))' /\ Whole(plan, todo[r])'
    BY <1>1, <1>4, <1>8, <2>3, <2>5
  <2> QED BY <1>2, <1>4, <2>1, <2>2, <2>6, <2>7 DEF RankInv
<1> QED BY <1>1, <1>4, <1>5, <1>6, <1>10, <1>11, Unlogged

(* New arrays and a panic do not move any rank on.                         *)
LEMMA ReallocateControl ==
  ASSUME ControlInv, NEW r \in Rank, Reallocate(r) \/ Panic(r)
  PROVE  ControlInv'
<1>1. Shapes
  BY DEF ControlInv
<1>2. UNCHANGED <<plan, log, call, busy, todo, waiting, result, failing>>
  BY DEF Reallocate, Panic
<1>3. DOMAIN data' = Rank /\ DOMAIN poisoned' = Rank /\ DOMAIN state' = Rank /\ DOMAIN storage' = Rank
  <2>1. CASE Reallocate(r)
    BY <1>1, <2>1 DEF Reallocate, Shapes
  <2>2. CASE Panic(r)
    BY <1>1, <2>2 DEF Panic, Shapes
  <2> QED BY <2>1, <2>2
<1>4. Shapes'
  BY <1>1, <1>2, <1>3 DEF Shapes
<1> QED BY <1>2, <1>4, Frame

(* A call returns where its script has ended.                              *)
LEMMA ReturnControl ==
  ASSUME ControlInv, NEW r \in Rank, Return(r)
  PROVE  ControlInv'
<1>1. Shapes /\ RankInv(r)
  BY DEF ControlInv
<1>2. /\ busy[r] /\ todo[r] = <<>> /\ busy' = [busy EXCEPT ![r] = FALSE]
      /\ result' = [result EXCEPT ![r] = OK]
      /\ UNCHANGED <<plan, log, call, todo, waiting, failing, data, poisoned, state, storage>>
  BY DEF Return, Working
<1>3. Shapes' /\ Only(r)
  BY <1>1, <1>2 DEF Shapes, Only
<1>4. ~ waiting[r]
  BY <1>1, <1>2 DEF RankInv
<1>5. ~ Opening(r)
  BY <1>2, OpeningStep
<1>6. Outlook(r) = <<"ends", OK>>
  <2>1. Outlook(r) = Leads(plan, <<>>)
    BY <1>2, <1>4, <1>5, OutlookIdle
  <2> QED BY <2>1, OntoNothing DEF Leads
<1>7. ~ busy'[r] /\ ~ waiting'[r] /\ todo'[r] = <<>> /\ Outlook(r) = <<"ends", result'[r]>>
  BY <1>1, <1>2, <1>4, <1>6 DEF Shapes
<1> QED BY <1>2, <1>3, <1>4, <1>7, Ends

(* Who comes to a joint step is at a meeting.                              *)
LEMMA JointMeets ==
  ASSUME NEW r \in Rank, Joint(r)
  PROVE  busy[r] /\ todo[r] # <<>> /\ Meeting(plan, Step(r)) /\ Step(r).do # "refuse"
BY DEF Joint, At, Working, Meeting, Step

(* Entering a reduction keeps the ranks in step.                           *)
LEMMA EnterControl ==
  ASSUME ControlInv, NEW r \in Rank, EnterAgreement(r)
  PROVE  ControlInv'
<1>0. Shapes /\ LogInv /\ plan \in Plans /\ \A q \in Rank : RankInv(q)
  BY DEF ControlInv
<1>1. /\ Joint(r) /\ ~ waiting[r] /\ waiting' = [waiting EXCEPT ![r] = TRUE]
      /\ UNCHANGED <<plan, call, calls, busy, todo, failing, cause, result, data, poisoned, state, storage, stopped>>
  BY DEF EnterAgreement
<1>2. PICK w : Enter(r, Step(r).place, w) /\ w.about = About(r)
  BY DEF EnterAgreement
<1>3. busy[r] /\ todo[r] # <<>> /\ Meeting(plan, Step(r)) /\ Step(r).do # "refuse"
  BY <1>1, JointMeets
<1>4. PICK E : todo[r] \in Seq(E)
  BY Standing
<1>5. Step(r) = todo[r][1]
  BY <1>3, <1>4, TailIs DEF Step
<1>6. Meeting(plan, todo[r][1]) /\ todo[r][1].do # "refuse"
  BY <1>3, <1>5
<1>7. waiting'[r] /\ \A q \in Rank : q # r => waiting'[q] = waiting[q]
  BY <1>0, <1>1 DEF Shapes
<1>8. \A q \in Rank : /\ call'[q] = call[q] /\ busy'[q] = busy[q] /\ todo'[q] = todo[q]
                      /\ q # r => waiting'[q] = waiting[q]
                      /\ result'[q] = result[q]
  BY <1>1, <1>7
<1>9. plan' = plan /\ Complete(r)
  BY <1>0, <1>1 DEF RankInv
<1>10. InStep'
  <2>1. PICK p : Enter(r, p, w)
    BY <1>2
  <2> QED BY <1>1, <1>3, <1>6, <1>7, <1>8, <1>9, <2>1, EnterInStep
<1>11. LogInv'
  BY <1>0, <1>2, <1>9, EnterClose
<1>12. Shapes'
  BY <1>0, <1>1 DEF Shapes
<1>13. ASSUME NEW q \in Rank, q # r PROVE RankInv(q)'
  <2>1. log'[q] = log[q]
    <3>1. LogType
      BY <1>0 DEF LogInv
    <3> QED BY <1>2, <1>13, <3>1, EnterLog
  <2>2. ~ waiting[q] => Complete(q)'
    BY <1>0, <1>2, <1>9, <1>13, Stable DEF RankInv
  <2> QED BY <1>0, <1>8, <1>9, <1>13, <2>1, <2>2, RankKept
<1>14. RankInv(r)'
  <2>1. Script(call[r])' = Script(call[r])
    BY <1>8, <1>9, ScriptKept
  <2>2. /\ log'[r][1].word = w
        /\ Len(log'[r]) = OneMore(Len(log[r])) /\ Len(log[r]) \in 0..3
    <3>1. LogType
      BY <1>0 DEF LogInv
    <3>2. /\ log'[r][1] = [turn |-> (Turn(r) + 1) % 4, place |-> Step(r).place, word |-> w]
          /\ Len(log'[r]) = OneMore(Len(log[r]))
      BY <1>2, <3>1, EnterLog
    <3> QED BY <3>1, <3>2, TurnType
  <2>3. Len(log'[r]) >= 1
    BY <2>2 DEF OneMore
  <2>4. Opening(r)' => Own(r)'.word.about = <<call'[r].kind, call'[r].direction, call'[r].n>>
    <3> SUFFICES ASSUME Opening(r)' PROVE Own(r)'.word.about = <<call'[r].kind, call'[r].direction, call'[r].n>>
      OBVIOUS
    <3>1. Opening(r)
      BY <1>8, <2>1 DEF Opening
    <3>2. Step(r).place[1] = "header"
      BY <3>1, OpeningStep
    <3>3. About(r) = <<call[r].kind, call[r].direction, call[r].n>>
      BY <3>2 DEF About
    <3> QED BY <1>2, <1>8, <2>2, <3>3 DEF Own
  <2>5. (call[r].n \in MemberIndex)' /\ call'[r].kind \in AllKinds /\ call'[r].direction \in {"forward", "reverse"}
    BY <1>0, <1>8, <1>9 DEF RankInv, MemberIndex
  <2>6. Len(todo[r])' <= Len(Script(call[r]))' /\ Whole(plan, todo[r])'
    BY <1>0, <1>8, <1>9, <2>1 DEF RankInv
  <2>7. busy'[r] /\ todo'[r] # <<>> /\ Meeting(plan', todo'[r][1]) /\ todo'[r][1].do # "refuse"
    BY <1>3, <1>6, <1>8, <1>9
  <2> QED BY <1>7, <2>3, <2>4, <2>5, <2>6, <2>7 DEF RankInv
<1> QED BY <1>0, <1>9, <1>10, <1>11, <1>12, <1>13, <1>14 DEF ControlInv

(* Ranks leave a reduction the same way.                                   *)
LEMMA LeaveControl ==
  ASSUME ControlInv, NEW r \in Rank, LeaveAgreement(r)
  PROVE  ControlInv'
<1>1. /\ waiting[r] /\ busy[r] /\ Complete(r) /\ waiting' = [waiting EXCEPT ![r] = FALSE]
      /\ UNCHANGED <<plan, log, call, calls, state, storage>>
      /\ DOMAIN poisoned' = DOMAIN poisoned
  BY DEF LeaveAgreement, Working
<1>2. RankInv(r) /\ Shapes
  BY DEF ControlInv
<1>3. todo[r] # <<>>
  BY <1>1, <1>2 DEF RankInv
<1>4. PICK E : todo[r] \in Seq(E)
  BY Standing
<1>5. Tail(todo[r]) = SubSeq(todo[r], 2, Len(todo[r])) /\ Len(todo[r]) \in Nat \ {0}
  BY <1>3, <1>4, TailIs
<1>6. ~ waiting'[r] /\ \A q \in Rank : q # r => waiting'[q] = waiting[q]
  BY <1>1, <1>2 DEF Shapes
<1>7. CASE Passing(r)
  <2>1. /\ todo' = [todo EXCEPT ![r] = Tail(@)]
        /\ DOMAIN data' = DOMAIN data
        /\ UNCHANGED <<busy, failing, cause, result>>
    BY <1>7 DEF LeaveAgreement, Passing, Advance, MoveData
  <2>2. Shapes' /\ Only(r)
    BY <1>1, <1>2, <1>6, <2>1 DEF Shapes, Only
  <2>3. todo'[r] = Tail(todo[r]) /\ busy'[r] /\ result'[r] = result[r] /\ call'[r] = call[r]
    BY <1>1, <1>2, <2>1 DEF Shapes
  <2>4. PICK h : h = 2 /\ h \in 2..(Len(todo[r]) + 1) /\ todo'[r] = SubSeq(todo[r], h, Len(todo[r]))
    BY <1>5, <2>3
  <2>5. h \in 2..(Len(todo[r]) + 1) /\ todo'[r] = SubSeq(todo[r], h, Len(todo[r]))
    BY <2>4
  <2>6. waiting[r] /\ Complete(r) /\ ~ Dismissed(r) /\ todo'[r] = Rest(r)
    BY <1>1, <1>7, <2>3 DEF Dismissed, Rest
  <2> QED BY <1>1, <1>6, <2>2, <2>3, <2>5, <2>6, GoesOn
<1>8. CASE ~ Passing(r)
  <2>1. Refused(r, Step(r).place) /\ UNCHANGED data
    BY <1>8 DEF LeaveAgreement, Passing
  <2>2. Shapes' /\ Only(r)
    BY <1>1, <1>2, <1>6, <2>1 DEF Shapes, Only, Refused
  <2>3. IF Handlers(r) # {}
         THEN /\ todo'[r] = SubSeq(todo[r], First(Handlers(r)), Len(todo[r]))
              /\ busy'[r] = busy[r] /\ result'[r] = result[r]
         ELSE todo'[r] = <<>> /\ ~ busy'[r] /\ result'[r] = Step(r).place
    BY <1>2, <2>1 DEF Shapes, Refused
  <2> QED BY <1>1, <1>3, <1>6, <1>8, <2>2, <2>3, IsRefused
<1> QED BY <1>7, <1>8

(* The steps that a rank does alone.                                       *)
LEMMA LocalControl ==
  ASSUME ControlInv, NEW r \in Rank,
         \/ LocalMove(r) \/ LocalStage(r) \/ CopyData(r) \/ ZeroEndpoints(r) \/ Overwrite(r) \/ SetState(r) \/ TakeReal(r)
  PROVE  ControlInv'
<1>1. /\ busy[r] /\ todo[r] # <<>> /\ ~ Meeting(plan, Step(r))
      /\ todo' = [todo EXCEPT ![r] = Tail(@)]
      /\ UNCHANGED <<plan, log, call, busy, waiting, failing, result>>
  <2>1. CASE LocalMove(r)
    BY <2>1 DEF LocalMove, At, Joint, Working, Advance, Meeting, Step
  <2>2. CASE LocalStage(r)
    BY <2>2 DEF LocalStage, At, Working, Advance, Meeting, Step
  <2>3. CASE CopyData(r)
    BY <2>3 DEF CopyData, At, Working, Advance, Meeting, Step
  <2>4. CASE ZeroEndpoints(r)
    BY <2>4 DEF ZeroEndpoints, At, Working, Advance, Meeting, Step
  <2>5. CASE Overwrite(r)
    BY <2>5 DEF Overwrite, At, Working, Advance, Meeting, Step
  <2>6. CASE SetState(r)
    BY <2>6 DEF SetState, At, Working, Advance, Meeting, Step
  <2>7. CASE TakeReal(r)
    BY <2>7 DEF TakeReal, At, Working, Advance, Meeting, Step
  <2> QED BY <2>1, <2>2, <2>3, <2>4, <2>5, <2>6, <2>7
<1>2. /\ DOMAIN data' = DOMAIN data /\ DOMAIN poisoned' = DOMAIN poisoned
      /\ DOMAIN state' = DOMAIN state /\ DOMAIN storage' = DOMAIN storage
  <2>1. CASE LocalMove(r)
    BY <2>1 DEF LocalMove, MoveData
  <2>2. CASE LocalStage(r)
    BY <2>2 DEF LocalStage
  <2>3. CASE CopyData(r)
    BY <2>3 DEF CopyData
  <2>4. CASE ZeroEndpoints(r)
    BY <2>4 DEF ZeroEndpoints
  <2>5. CASE Overwrite(r)
    BY <2>5 DEF Overwrite
  <2>6. CASE SetState(r)
    BY <2>6 DEF SetState
  <2>7. CASE TakeReal(r)
    BY <2>7 DEF TakeReal
  <2> QED BY <2>1, <2>2, <2>3, <2>4, <2>5, <2>6, <2>7
<1>3. Shapes
  BY DEF ControlInv
<1>4. Shapes' /\ Only(r)
  BY <1>1, <1>2, <1>3 DEF Shapes, Only
<1>5. todo'[r] = Tail(todo[r]) /\ busy'[r] /\ result'[r] = result[r] /\ call'[r] = call[r] /\ waiting'[r] = waiting[r]
  BY <1>1, <1>3 DEF Shapes
<1> QED BY <1>1, <1>4, <1>5, Advances

(* A refusal that all come to ends the call for all.                       *)
LEMMA RefuseControl ==
  ASSUME ControlInv, NEW r \in Rank, RefuseAlone(r)
  PROVE  ControlInv'
<1>1. /\ busy[r] /\ todo[r] # <<>> /\ Step(r).do = "refuse" /\ Refused(r, Step(r).place)
      /\ UNCHANGED <<plan, log, call, waiting, data, poisoned, state, storage>>
  BY DEF RefuseAlone, At, Working, Step
<1>2. Shapes /\ RankInv(r)
  BY DEF ControlInv
<1>3. Shapes' /\ Only(r)
  BY <1>1, <1>2 DEF Shapes, Only, Refused
<1>4. IF Handlers(r) # {}
         THEN /\ todo'[r] = SubSeq(todo[r], First(Handlers(r)), Len(todo[r]))
              /\ busy'[r] = busy[r] /\ result'[r] = result[r]
         ELSE todo'[r] = <<>> /\ ~ busy'[r] /\ result'[r] = Step(r).place
  BY <1>1, <1>2 DEF Shapes, Refused
<1>5. PICK E : todo[r] \in Seq(E)
  BY Standing
<1>6. Step(r) = todo[r][1]
  BY <1>1, <1>5, TailIs DEF Step
<1>7. ~ waiting[r] /\ ~ waiting'[r]
  BY <1>1, <1>2, <1>6 DEF RankInv
<1> QED BY <1>1, <1>3, <1>4, <1>7, IsRefused

(* A failure of one rank leads it to the next meeting of all.              *)
LEMMA FailControl ==
  ASSUME ControlInv, NEW r \in Rank, busy[r], todo[r] # <<>>, MayFail(Step(r)), Refused(r, Step(r).place),
         UNCHANGED <<plan, log, call, waiting>>,
         DOMAIN data' = DOMAIN data /\ DOMAIN poisoned' = DOMAIN poisoned,
         DOMAIN state' = DOMAIN state /\ DOMAIN storage' = DOMAIN storage
  PROVE  ControlInv'
<1>1. Shapes /\ RankInv(r)
  BY DEF ControlInv
<1>2. Shapes' /\ Only(r)
  BY <1>1 DEF Shapes, Only, Refused
<1>3. IF Handlers(r) # {}
         THEN /\ todo'[r] = SubSeq(todo[r], First(Handlers(r)), Len(todo[r]))
              /\ busy'[r] = busy[r] /\ result'[r] = result[r]
         ELSE todo'[r] = <<>> /\ ~ busy'[r] /\ result'[r] = Step(r).place
  BY <1>1 DEF Shapes, Refused
<1>4. ~ waiting[r] /\ ~ waiting'[r]
  BY FailsAlone
<1> QED BY <1>2, <1>3, <1>4, IsRefused

(* A stage that fails.                                                     *)
LEMMA FailStageControl ==
  ASSUME ControlInv, NEW r \in Rank, FailStage(r)
  PROVE  ControlInv'
<1>1. /\ busy[r] /\ todo[r] # <<>> /\ MayFail(Step(r)) /\ Refused(r, Step(r).place)
      /\ UNCHANGED <<plan, log, call, waiting>>
      /\ DOMAIN data' = DOMAIN data /\ DOMAIN poisoned' = DOMAIN poisoned
      /\ DOMAIN state' = DOMAIN state /\ DOMAIN storage' = DOMAIN storage
  BY DEF FailStage, At, Working, Step, MayFail
<1> QED BY <1>1, FailControl

(* A conversion goes on or is refused.                                     *)
LEMMA ConvertCases ==
  ASSUME ControlInv, NEW r \in Rank, ConvertStorage(r)
  PROVE  /\ busy[r] /\ todo[r] # <<>> /\ MayFail(Step(r)) /\ ~ Meeting(plan, Step(r))
         /\ UNCHANGED <<plan, log, call, calls, waiting, poisoned, state>>
         /\ DOMAIN data' = DOMAIN data /\ DOMAIN storage' = DOMAIN storage
         /\ \/ todo' = [todo EXCEPT ![r] = Tail(@)] /\ UNCHANGED <<busy, failing, cause, result>>
            \/ Refused(r, Step(r).place)
<1>1. /\ busy[r] /\ todo[r] # <<>> /\ Step(r).do = "convert"
      /\ UNCHANGED <<plan, log, call, calls, waiting, poisoned, state>>
  BY DEF ConvertStorage, At, Working, Step
<1>2. DOMAIN data' = DOMAIN data /\ DOMAIN storage' = DOMAIN storage
  BY DEF ConvertStorage
<1>3. \/ todo' = [todo EXCEPT ![r] = Tail(@)] /\ UNCHANGED <<busy, failing, cause, result>>
      \/ Refused(r, Step(r).place)
  BY DEF ConvertStorage, Advance
<1>4. Step(r).caught = "result"
  <2>1. PICK E : todo[r] \in Seq(E)
    BY Standing
  <2>2. Step(r) = todo[r][1] /\ Len(todo[r]) \in Nat \ {0}
    BY <1>1, <2>1, TailIs DEF Step
  <2>3. Whole(plan, todo[r]) /\ 1 \in 1..Len(todo[r])
    BY <2>2, Standing
  <2> QED BY <1>1, <2>2, <2>3 DEF Whole
<1>5. MayFail(Step(r)) /\ ~ Meeting(plan, Step(r))
  BY <1>1, <1>4 DEF MayFail, Meeting
<1> QED BY <1>1, <1>2, <1>3, <1>5

(* A conversion that goes on or fails.                                     *)
LEMMA ConvertControl ==
  ASSUME ControlInv, NEW r \in Rank, ConvertStorage(r)
  PROVE  ControlInv'
<1>1. /\ busy[r] /\ todo[r] # <<>> /\ MayFail(Step(r)) /\ ~ Meeting(plan, Step(r))
      /\ UNCHANGED <<plan, log, call, calls, waiting, poisoned, state>>
      /\ DOMAIN data' = DOMAIN data /\ DOMAIN storage' = DOMAIN storage
      /\ \/ todo' = [todo EXCEPT ![r] = Tail(@)] /\ UNCHANGED <<busy, failing, cause, result>>
         \/ Refused(r, Step(r).place)
  BY ConvertCases
<1>2. CASE Refused(r, Step(r).place)
  BY <1>1, <1>2, FailControl
<1>3. CASE todo' = [todo EXCEPT ![r] = Tail(@)] /\ UNCHANGED <<busy, failing, cause, result>>
  <2>1. Shapes
    BY DEF ControlInv
  <2>2. Shapes' /\ Only(r)
    BY <1>1, <1>3, <2>1 DEF Shapes, Only
  <2>3. todo'[r] = Tail(todo[r]) /\ busy'[r] /\ result'[r] = result[r] /\ call'[r] = call[r] /\ waiting'[r] = waiting[r]
    BY <1>1, <1>3, <2>1 DEF Shapes
  <2> QED BY <1>1, <2>2, <2>3, Advances
<1> QED BY <1>1, <1>2, <1>3

(* Every step keeps the ranks in step.                                     *)
LEMMA NextControl ==
  ASSUME ControlInv, [Next]_vars
  PROVE  ControlInv'
<1>1. ASSUME NEW r \in Rank, Call(r) \/ Reallocate(r) \/ StepOf(r) \/ Panic(r)
      PROVE  ControlInv'
  BY <1>1, CallControl, ReallocateControl, EnterControl, LeaveControl, ReturnControl, LocalControl,
     FailStageControl, RefuseControl, ConvertControl DEF StepOf
<1>2. ASSUME UNCHANGED vars PROVE ControlInv'
  <2>1. UNCHANGED <<plan, log, call, busy, todo, waiting, result>> /\ Shapes'
    BY <1>2 DEF vars, ControlInv, Shapes
  <2> QED BY <2>1, Frame
<1> QED BY <1>1, <1>2 DEF Next, AllDone

(* The ranks stay in step: what the others will meet does not depend on    *)
(* which of them moves.                                                    *)
THEOREM TransformInStep == Spec => []ControlInv
<1>1. Init => ControlInv
  BY InitControl
<1>2. ControlInv /\ [Next]_vars => ControlInv'
  BY NextControl
<1> QED BY <1>1, <1>2, PTL DEF Spec

(* OutcomesAgree: once every rank has returned from the same number of     *)
(* calls all of them have the same result, whichever of them failed and    *)
(* wherever (execute and execute_many of the transforms).                  *)
THEOREM TransformOutcomesAgree == Spec => []OutcomesAgree
<1>1. ControlInv => OutcomesAgree
  <2> SUFFICES ASSUME ControlInv, Quiet, NEW p \in Rank, NEW q \in Rank
               PROVE  result[p] = result[q]
    BY DEF OutcomesAgree
  <2>1. RankInv(p) /\ RankInv(q) /\ LogInv /\ InStep
    BY DEF ControlInv
  <2>2. ~ busy[p] /\ ~ busy[q] /\ ~ waiting[p] /\ ~ waiting[q] /\ Complete(p) /\ Complete(q)
    BY <2>1 DEF Quiet, RankInv
  <2>3. Ahead(q, p) = 0
    BY <2>1, <2>2, BothComplete
  <2>4. Outlook(p) = Outlook(q)
    BY <2>1, <2>2, <2>3 DEF InStep, Same
  <2> QED BY <2>2, <2>4, OutlookIdle
<1> QED BY <1>1, TransformInStep, PTL

----------------------------------------------------------------------------
(* Writes.                                                                 *)

Kept(r) == data'[r] = data[r] /\ poisoned'[r] = poisoned[r] /\ state'[r] = state[r] /\ storage'[r] = storage[r]

(* Nobody writes into the arrays of another rank.                          *)
LEMMA OthersKept ==
  ASSUME Shapes, NEW q \in Rank, NEW r \in Rank, r # q, Call(q) \/ Reallocate(q) \/ StepOf(q) \/ Panic(q)
  PROVE  Kept(r)
<1>1. CASE Call(q)
  <2>1. \E f : data' = [data EXCEPT ![q] = f]
    BY <1>1, CallMade
  <2>2. UNCHANGED <<poisoned, state, storage>>
    BY <1>1 DEF Call
  <2> QED BY <2>1, <2>2 DEF Kept, Shapes
<1>2. CASE Reallocate(q)
  BY <1>2 DEF Reallocate, Kept, Shapes
<1>3. CASE EnterAgreement(q) \/ Return(q)
  BY <1>3 DEF EnterAgreement, Return, Kept
<1>4. CASE LeaveAgreement(q)
  BY <1>4 DEF LeaveAgreement, MoveData, Kept, Shapes
<1>5. CASE LocalMove(q)
  BY <1>5 DEF LocalMove, MoveData, Kept, Shapes
<1>6. CASE LocalStage(q)
  BY <1>6 DEF LocalStage, Kept, Shapes
<1>7. CASE FailStage(q)
  BY <1>7 DEF FailStage, Kept, Shapes
<1>8. CASE CopyData(q)
  BY <1>8 DEF CopyData, Kept, Shapes
<1>9. CASE ZeroEndpoints(q)
  BY <1>9 DEF ZeroEndpoints, Kept, Shapes
<1>10. CASE Overwrite(q)
  BY <1>10 DEF Overwrite, Kept, Shapes
<1>11. CASE RefuseAlone(q)
  BY <1>11 DEF RefuseAlone, Kept
<1>12. CASE SetState(q)
  BY <1>12 DEF SetState, Kept, Shapes
<1>13. CASE TakeReal(q)
  BY <1>13 DEF TakeReal, Kept, Shapes
<1>14. CASE ConvertStorage(q)
  BY <1>14 DEF ConvertStorage, Kept, Shapes
<1>15. CASE Panic(q)
  BY <1>15 DEF Panic, Kept, Shapes
<1> QED BY <1>1, <1>2, <1>3, <1>4, <1>5, <1>6, <1>7, <1>8, <1>9, <1>10, <1>11, <1>12, <1>13, <1>14, <1>15
        DEF StepOf

(* A rank does not write while it agrees on whether to begin.              *)
LEMMA AgreeingKept ==
  ASSUME Shapes, NEW r \in Rank, busy[r], todo[r] = <<>> \/ Step(r).do = "agree",
         Call(r) \/ Reallocate(r) \/ StepOf(r) \/ Panic(r), waiting[r] => todo[r] # <<>>
  PROVE  Kept(r)
<1>1. ~ Call(r) /\ ~ Reallocate(r)
  BY DEF Call, Reallocate
<1>2. CASE EnterAgreement(r) \/ Return(r) \/ RefuseAlone(r)
  BY <1>2 DEF EnterAgreement, Return, RefuseAlone, Kept
<1>3. CASE LeaveAgreement(r)
  <2>1. Step(r).do = "agree"
    BY <1>3 DEF LeaveAgreement
  <2> QED BY <1>3, <2>1 DEF LeaveAgreement, Kept, Shapes
<1>4. CASE LocalMove(r) \/ LocalStage(r) \/ FailStage(r) \/ CopyData(r) \/ ZeroEndpoints(r) \/ Overwrite(r)
             \/ SetState(r) \/ TakeReal(r) \/ ConvertStorage(r) \/ Panic(r)
  <2>1. At(r, {"move"}) \/ At(r, {"stage"}) \/ At(r, {"copy"}) \/ At(r, {"zero"}) \/ At(r, {"overwrite"})
          \/ At(r, {"poison", "finish"}) \/ At(r, {"take", "put back"}) \/ At(r, {"convert"})
    BY <1>4 DEF LocalMove, LocalStage, FailStage, CopyData, ZeroEndpoints, Overwrite, SetState, TakeReal,
                ConvertStorage, Panic
  <2>2. todo[r] # <<>> /\ Step(r).do # "agree"
    BY <2>1 DEF At, Step
  <2> QED BY <2>2
<1> QED BY <1>1, <1>2, <1>3, <1>4 DEF StepOf

(* WritesAfterStart: a rank that writes has passed every agreement that    *)
(* may turn the call down (the preflights that open execute and            *)
(* execute_many).                                                          *)
THEOREM TransformWritesAfterStart == Spec => WritesAfterStart
<1> DEFINE A == \A r \in Rank :
       /\ busy[r]
       /\ data'[r] # data[r] \/ poisoned'[r] # poisoned[r] \/ state'[r] # state[r]
            \/ storage'[r] # storage[r]
       => \A k \in DOMAIN todo[r] : ~TurnsDown(todo[r][k])
<1>1. ControlInv /\ [Next]_vars => [A]_vars
  <2> SUFFICES ASSUME ControlInv, Next, NEW r \in Rank, busy[r], ~ Kept(r),
                      NEW k \in DOMAIN todo[r], TurnsDown(todo[r][k])
               PROVE  FALSE
    BY DEF Kept, vars
  <2>1. Shapes /\ RankInv(r)
    BY DEF ControlInv
  <2>2. PICK q \in Rank : Call(q) \/ Reallocate(q) \/ StepOf(q) \/ Panic(q)
    BY DEF Next, AllDone, vars, Kept
  <2>3. q = r
    BY <2>1, <2>2, OthersKept
  <2>4. waiting[r] => todo[r] # <<>>
    BY <2>1 DEF RankInv
  <2>5. todo[r] # <<>> /\ Step(r).do # "agree"
    BY <2>1, <2>2, <2>3, <2>4, AgreeingKept
  <2>6. PICK E : todo[r] \in Seq(E)
    BY Standing
  <2>7. Step(r) = todo[r][1] /\ Len(todo[r]) \in Nat \ {0}
    BY <2>5, <2>6, TailIs DEF Step
  <2>8. k \in 1..Len(todo[r])
    BY <2>6
  <2>9. \A i \in 1..k : todo[r][i].do = "agree"
    BY <2>8, Standing DEF Whole
  <2>10. 1 \in 1..k
    BY <2>7, <2>8
  <2> QED BY <2>5, <2>7, <2>9, <2>10
<1>2. WritesAfterStart <=> [][A]_vars
  BY DEF WritesAfterStart
<1> HIDE DEF A
<1> QED BY <1>1, <1>2, TransformInStep, PTL DEF Spec

----------------------------------------------------------------------------
(* Invalid spectra are found.                                              *)

(* The other steps may go, and the spectrum is still looked at.            *)
LEMMA LooksTail ==
  ASSUME NEW E, NEW s \in Seq(E), s # <<>>, NEW m, Looks(s, m),
         s[1].do # "refuse", ~ (s[1].do = "agree" /\ s[1].place = <<"spectrum", m>>)
  PROVE  Looks(Tail(s), m)
<1>1. PICK k \in 1..Len(s) : s[k].do = "refuse" \/ (s[k].do = "agree" /\ s[k].place = <<"spectrum", m>>)
  BY DEF Looks
<1>2. Len(s) \in Nat \ {0} /\ Len(Tail(s)) = Len(s) - 1 /\ \A i \in 1..Len(Tail(s)) : Tail(s)[i] = s[i + 1]
  BY HeadTailProperties
<1>3. k # 1
  BY <1>1
<1>4. k - 1 \in 1..Len(Tail(s)) /\ (k - 1) + 1 = k
  BY <1>2, <1>3
<1>5. Tail(s)[k - 1] = s[k]
  BY <1>2, <1>4
<1> QED BY <1>1, <1>4, <1>5 DEF Looks

(* A rank about which nothing changes.                                     *)
LEMMA SpectrumKept ==
  ASSUME NEW q \in Rank, SpectrumInv(q), call'[q] = call[q], busy'[q] = busy[q], todo'[q] = todo[q],
         failing'[q] = failing[q], result'[q] = result[q], waiting'[q] = waiting[q], log'[q] = log[q]
  PROVE  SpectrumInv(q)'
<1>1. Own(q)' = Own(q)
  BY DEF Own
<1>2. \A m : Looks(todo[q], m)' = Looks(todo[q], m)
  BY DEF Looks
<1> QED BY <1>1, <1>2 DEF SpectrumInv

(* A step that does not look at a bad spectrum leaves those that do.       *)
LEMMA SpectrumAdvances ==
  ASSUME ControlInv, NEW r \in Rank, SpectrumInv(r), call'[r] = call[r], busy[r], busy'[r], ~ waiting'[r],
         todo[r] # <<>>, todo'[r] = Tail(todo[r]), ~ failing[r], ~ failing'[r], Step(r).do # "refuse",
         ~ (Step(r).do = "agree" /\ Step(r).place[1] = "spectrum" /\ Step(r).place[2] \in call[r].bad)
  PROVE  SpectrumInv(r)'
<1>1. PICK E : todo[r] \in Seq(E)
  BY Standing
<1>2. Step(r) = todo[r][1]
  BY <1>1, TailIs DEF Step
<1>3. ASSUME NEW m \in call[r].bad PROVE Looks(todo[r], m)'
  <2>1. Looks(todo[r], m)
    BY DEF SpectrumInv
  <2>2. ~ (todo[r][1].do = "agree" /\ todo[r][1].place = <<"spectrum", m>>)
    BY <1>2
  <2>3. Looks(Tail(todo[r]), m)
    BY <1>1, <1>2, <2>1, <2>2, LooksTail
  <2> QED BY <2>3 DEF Looks
<1> QED BY <1>3 DEF SpectrumInv

(* A refused rank is failing, or its call has ended with an error.         *)
LEMMA SpectrumRefused ==
  ASSUME ControlInv, NEW r \in Rank, call'[r] = call[r], busy[r], ~ waiting'[r], todo[r] # <<>>,
         Refused(r, Step(r).place), Step(r).place # OK
  PROVE  SpectrumInv(r)'
<1>1. PICK E : todo[r] \in Seq(E)
  BY Standing
<1>2. Shapes /\ Len(todo[r]) \in Nat
  BY Standing DEF ControlInv
<1>3. CASE Handlers(r) # {}
  <2>1. Len(todo[r]) \in Nat /\ \A k \in 2..Len(todo[r]) : k \in Nat
    BY <1>2
  <2>2. Handlers(r) \in SUBSET Nat /\ \A k \in Handlers(r) : k \in 2..Len(todo[r]) /\ todo[r][k].do = "result"
    <3>1. \A k \in Handlers(r) : k \in 2..Len(todo[r]) /\ todo[r][k].do = "result"
      BY DEF Handlers
    <3> QED BY <2>1, <3>1
  <2>3. First(Handlers(r)) \in Handlers(r)
    BY <1>3, <2>2, FirstIs
  <2>4. PICK h, t : h = First(Handlers(r)) /\ t = SubSeq(todo[r], h, Len(todo[r]))
    OBVIOUS
  <2>5. h \in 2..Len(todo[r]) /\ h \in 1..(Len(todo[r]) + 1) /\ todo[r][h].do = "result"
    BY <2>1, <2>2, <2>3, <2>4
  <2>6. todo'[r] = t /\ failing'[r] /\ busy'[r]
    BY <1>2, <1>3, <2>4 DEF Refused, Shapes
  <2>7. t \in Seq(E) /\ Len(t) = Len(todo[r]) - h + 1 /\ \A k \in 1..Len(t) : t[k] = todo[r][h - 1 + k]
    BY <1>1, <2>4, <2>5, Suffix
  <2>8. 1 \in 1..Len(t) /\ h - 1 + 1 = h
    BY <2>1, <2>5, <2>7
  <2>9. t # <<>> /\ t[1] = todo[r][h]
    BY <2>7, <2>8
  <2> QED BY <2>5, <2>6, <2>9 DEF SpectrumInv
<1>4. CASE Handlers(r) = {}
  <2>1. ~ busy'[r] /\ ~ failing'[r] /\ result'[r] = Step(r).place
    BY <1>2, <1>4 DEF Refused, Shapes
  <2> QED BY <2>1 DEF SpectrumInv
<1> QED BY <1>3, <1>4

(* The others stay where they are.                                         *)
LEMMA OthersStay ==
  ASSUME ControlInv, NEW q \in Rank, NEW r \in Rank, r # q, Call(q) \/ Reallocate(q) \/ StepOf(q) \/ Panic(q)
  PROVE  /\ call'[r] = call[r] /\ busy'[r] = busy[r] /\ todo'[r] = todo[r]
         /\ failing'[r] = failing[r] /\ result'[r] = result[r] /\ waiting'[r] = waiting[r] /\ log'[r] = log[r]
<1>0. Shapes /\ LogType
  BY DEF ControlInv, LogInv
<1> DEFINE S == /\ call'[r] = call[r] /\ busy'[r] = busy[r] /\ todo'[r] = todo[r]
                /\ failing'[r] = failing[r] /\ result'[r] = result[r] /\ waiting'[r] = waiting[r] /\ log'[r] = log[r]
<1>1. CASE Call(q)
  <2>1. PICK c : call' = [call EXCEPT ![q] = c] /\ todo' = [todo EXCEPT ![q] = Script(c)]
    BY <1>1, CallMade
  <2>2. busy' = [busy EXCEPT ![q] = TRUE] /\ UNCHANGED <<log, waiting, failing, result>>
    BY <1>1 DEF Call
  <2> QED BY <1>0, <2>1, <2>2 DEF Shapes
<1>2. CASE Reallocate(q) \/ Panic(q)
  BY <1>2 DEF Reallocate, Panic
<1>3. CASE EnterAgreement(q)
  <2>1. /\ waiting' = [waiting EXCEPT ![q] = TRUE] /\ UNCHANGED <<call, busy, todo, failing, result>>
        /\ \E w : Enter(q, Step(q).place, w)
    BY <1>3 DEF EnterAgreement
  <2>2. log'[r] = log[r]
    BY <1>0, <2>1, EnterLog
  <2> QED BY <1>0, <2>1, <2>2 DEF Shapes
<1>4. CASE LeaveAgreement(q)
  <2>1. /\ waiting' = [waiting EXCEPT ![q] = FALSE] /\ UNCHANGED <<call, log>>
        /\ \/ Advance(q) /\ UNCHANGED <<busy, failing, result>>
           \/ Refused(q, Step(q).place)
    BY <1>4 DEF LeaveAgreement
  <2> QED BY <1>0, <2>1 DEF Shapes, Advance, Refused
<1>5. CASE Return(q)
  BY <1>0, <1>5 DEF Return, Shapes
<1>6. CASE LocalMove(q) \/ LocalStage(q) \/ CopyData(q) \/ ZeroEndpoints(q) \/ Overwrite(q) \/ SetState(q) \/ TakeReal(q)
  <2>1. Advance(q) /\ UNCHANGED <<call, log, busy, failing, result, waiting>>
    BY <1>6 DEF LocalMove, LocalStage, CopyData, ZeroEndpoints, Overwrite, SetState, TakeReal
  <2> QED BY <1>0, <2>1 DEF Shapes, Advance
<1>7. CASE FailStage(q) \/ RefuseAlone(q)
  <2>1. Refused(q, Step(q).place) /\ UNCHANGED <<call, log, waiting>>
    BY <1>7 DEF FailStage, RefuseAlone
  <2> QED BY <1>0, <2>1 DEF Shapes, Refused
<1>8. CASE ConvertStorage(q)
  <2>1. UNCHANGED <<call, log, waiting>> /\ ((Advance(q) /\ UNCHANGED <<busy, failing, result>>) \/ Refused(q, Step(q).place))
    BY <1>8 DEF ConvertStorage
  <2> QED BY <1>0, <2>1 DEF Shapes, Advance, Refused
<1> QED BY <1>1, <1>2, <1>3, <1>4, <1>5, <1>6, <1>7, <1>8 DEF StepOf

(* A rank that fails, or whose spectrum is bad, says so.                   *)
LEMMA SpectrumCall ==
  ASSUME ControlInv, NEW r \in Rank, SpectrumInv(r), Call(r)
  PROVE  SpectrumInv(r)'
<1>1. /\ ~ busy[r] /\ busy' = [busy EXCEPT ![r] = TRUE]
      /\ UNCHANGED <<plan, log, waiting, failing, result>>
  BY DEF Call
<1>2. PICK c : /\ c.kind \in Kinds[plan] /\ c.direction \in {"forward", "reverse"} /\ c.n \in MemberIndex
               /\ c.bad # {} => /\ IsReal /\ c.direction = "reverse" /\ c.kind # "construct"
                                /\ c.bad \subseteq 1..c.n
               /\ c.kind \notin CollectionKinds => c.n = 1
               /\ call' = [call EXCEPT ![r] = c]
               /\ todo' = [todo EXCEPT ![r] = Script(c)]
               /\ \E f : data' = [data EXCEPT ![r] = f]
  BY CallMade
<1>3. Shapes /\ plan \in Plans /\ RankInv(r)
  BY DEF ControlInv
<1>4. call'[r] = c /\ todo'[r] = Script(c) /\ busy'[r] /\ ~ waiting'[r] /\ ~ failing'[r]
  BY <1>1, <1>2, <1>3 DEF Shapes, RankInv, SpectrumInv
<1>5. ASSUME NEW m \in c.bad PROVE Looks(Script(c), m)
  <2>1. c.kind \in AllKinds
    <3>1. Kinds[plan] \in SUBSET AllKinds
      BY <1>3, TransformAssumption
    <3> QED BY <1>2, <3>1
  <2>2. c.n \in Nat
    <3>1. c.n \in MemberIndex /\ Members[plan] \in Nat \ {0}
      BY <1>2, <1>3, TransformAssumption
    <3> QED BY <3>1 DEF MemberIndex
  <2>3. IsReal /\ c.kind # "construct" /\ c.direction = "reverse" /\ m \in 1..c.n
    BY <1>2, <1>5
  <2> QED BY <1>2, <1>3, <2>1, <2>2, <2>3, ScriptLooks
<1>6. ASSUME NEW m \in call'[r].bad PROVE Looks(todo[r], m)'
  <2>1. m \in c.bad
    BY <1>4, <1>6
  <2>2. Looks(Script(c), m)
    BY <1>5, <2>1
  <2> QED BY <1>4, <2>2 DEF Looks
<1> QED BY <1>4, <1>6 DEF SpectrumInv

(* What a rank enters a reduction with.                                    *)
LEMMA SpectrumEnter ==
  ASSUME ControlInv, NEW r \in Rank, SpectrumInv(r), EnterAgreement(r)
  PROVE  SpectrumInv(r)'
<1>1. /\ Joint(r) /\ UNCHANGED <<call, busy, todo, failing, result>>
  BY DEF EnterAgreement
<1>2. PICK w : Enter(r, Step(r).place, w) /\ (w.ok => Able(r))
  <2>1. CASE Enter(r, Step(r).place, [ok |-> Able(r), about |-> About(r)])
    BY <2>1
  <2>2. CASE Enter(r, Step(r).place, [ok |-> FALSE, about |-> About(r)])
    BY <2>2
  <2> QED BY <2>1, <2>2 DEF EnterAgreement
<1>3. busy[r] /\ todo[r] # <<>>
  BY <1>1, JointMeets
<1>4. PICK E : todo[r] \in Seq(E)
  BY Standing
<1>5. Step(r) = todo[r][1]
  BY <1>3, <1>4, TailIs DEF Step
<1>6. Own(r)'.word = w
  <2>1. LogType
    BY DEF ControlInv, LogInv
  <2>2. log'[r][1] = [turn |-> (Turn(r) + 1) % 4, place |-> Step(r).place, word |-> w]
    BY <1>2, <2>1, EnterLog
  <2> QED BY <2>2 DEF Own
<1>7. todo[r][1].do = "result" /\ failing[r] => ~ w.ok
  <2>1. Len(todo[r]) \in Nat \ {0} /\ Whole(plan, todo[r])
    BY <1>3, <1>4, TailIs, Standing
  <2>2. 1 \in 1..Len(todo[r])
    BY <2>1
  <2>3. Named(todo[r][1])
    BY <2>1, <2>2 DEF Whole
  <2>4. todo[r][1].do = "result" => todo[r][1].place[1] \notin Judged
    BY <2>3 DEF Named
  <2> QED BY <1>2, <1>5, <2>4 DEF Able, Judged
<1>8. todo[r][1].do = "agree" /\ todo[r][1].place[1] = "spectrum" /\ todo[r][1].place[2] \in call[r].bad => ~ w.ok
  BY <1>2, <1>5 DEF Able, Member
<1>9. \A m : Looks(todo[r], m)' = Looks(todo[r], m)
  BY <1>1 DEF Looks
<1> QED BY <1>1, <1>6, <1>7, <1>8, <1>9 DEF SpectrumInv

(* One word that is not ok is enough for all.                              *)
LEMMA SpectrumLeave ==
  ASSUME ControlInv, NEW r \in Rank, SpectrumInv(r), LeaveAgreement(r)
  PROVE  SpectrumInv(r)'
<1>1. /\ waiting[r] /\ busy[r] /\ waiting' = [waiting EXCEPT ![r] = FALSE] /\ call' = call
  BY DEF LeaveAgreement, Working
<1>2. RankInv(r) /\ Shapes /\ LogType
  BY DEF ControlInv, LogInv
<1>3. todo[r] # <<>> /\ Meeting(plan, todo[r][1]) /\ todo[r][1].do # "refuse"
  BY <1>1, <1>2 DEF RankInv
<1>4. PICK E : todo[r] \in Seq(E)
  BY Standing
<1>5. Step(r) = todo[r][1] /\ Len(todo[r]) \in Nat \ {0}
  BY <1>3, <1>4, TailIs DEF Step
<1>6. Named(todo[r][1])
  <2>1. Whole(plan, todo[r]) /\ 1 \in 1..Len(todo[r])
    BY <1>5, Standing
  <2> QED BY <2>1 DEF Whole
<1>7. ~ Own(r).word.ok => ~ Accepted(r)
  BY <1>2, OwnWord DEF Accepted
<1>8. ~ waiting'[r]
  BY <1>1, <1>2 DEF Shapes
<1>9. CASE Passing(r)
  <2>1. todo' = [todo EXCEPT ![r] = Tail(@)] /\ UNCHANGED <<busy, failing>>
    BY <1>9 DEF LeaveAgreement, Passing, Advance
  <2>2. ~ failing[r]
    <3> SUFFICES ASSUME failing[r] PROVE FALSE
      OBVIOUS
    <3>1. todo[r][1].do = "result" /\ ~ Own(r).word.ok
      BY <1>1 DEF SpectrumInv
    <3>2. todo[r][1].place[1] \notin Silent
      BY <1>6, <3>1 DEF Named
    <3> QED BY <1>5, <1>7, <1>9, <3>1, <3>2 DEF Passing
  <2>3. ~ (Step(r).do = "agree" /\ Step(r).place[1] = "spectrum" /\ Step(r).place[2] \in call[r].bad)
    <3> SUFFICES ASSUME Step(r).do = "agree", Step(r).place[1] = "spectrum", Step(r).place[2] \in call[r].bad PROVE FALSE
      OBVIOUS
    <3>1. ~ Own(r).word.ok
      BY <1>1, <1>5 DEF SpectrumInv
    <3>2. Step(r).place[1] \notin Silent
      BY DEF Silent
    <3> QED BY <1>7, <1>9, <3>1, <3>2 DEF Passing
  <2>4. todo'[r] = Tail(todo[r]) /\ busy'[r] /\ ~ failing'[r] /\ call'[r] = call[r]
    BY <1>1, <1>2, <2>1, <2>2 DEF Shapes
  <2> QED BY <1>1, <1>3, <1>5, <1>8, <2>2, <2>3, <2>4, SpectrumAdvances
<1>10. CASE ~ Passing(r)
  <2>1. Refused(r, Step(r).place)
    BY <1>10 DEF LeaveAgreement, Passing
  <2>2. Step(r).place # OK
    BY <1>3, <1>5, <1>6 DEF Named, Meeting, Refusing
  <2>3. call'[r] = call[r]
    BY <1>1
  <2> QED BY <1>1, <1>3, <1>8, <2>1, <2>2, <2>3, SpectrumRefused
<1> QED BY <1>9, <1>10

(* Success is returned only when every bad spectrum has been looked at.    *)
LEMMA SpectrumReturn ==
  ASSUME ControlInv, NEW r \in Rank, SpectrumInv(r), Return(r)
  PROVE  SpectrumInv(r)'
<1>1. /\ busy[r] /\ todo[r] = <<>> /\ busy' = [busy EXCEPT ![r] = FALSE]
      /\ UNCHANGED <<call, todo, waiting, failing>>
  BY DEF Return, Working
<1>2. Shapes /\ RankInv(r)
  BY DEF ControlInv
<1>3. ~ failing[r] /\ ~ waiting[r]
  BY <1>1, <1>2 DEF SpectrumInv, RankInv
<1>4. \A m : ~ Looks(todo[r], m)
  BY <1>1 DEF Looks
<1>5. call'[r].bad = {}
  BY <1>1, <1>3, <1>4 DEF SpectrumInv
<1> QED BY <1>1, <1>3, <1>5 DEF SpectrumInv

(* What a rank does alone.                                                 *)
LEMMA SpectrumAlone ==
  ASSUME ControlInv, NEW r \in Rank, SpectrumInv(r),
         \/ LocalMove(r) \/ LocalStage(r) \/ CopyData(r) \/ ZeroEndpoints(r) \/ Overwrite(r) \/ SetState(r) \/ TakeReal(r)
         \/ FailStage(r) \/ RefuseAlone(r) \/ ConvertStorage(r)
  PROVE  SpectrumInv(r)'
<1>1. Shapes /\ RankInv(r)
  BY DEF ControlInv
<1>2. PICK E : todo[r] \in Seq(E)
  BY Standing
<1>3. busy[r] /\ todo[r] # <<>> => /\ Step(r) = todo[r][1] /\ Named(Step(r))
                                   /\ waiting[r] => Meeting(plan, Step(r)) /\ Step(r).do # "refuse"
  <2> SUFFICES ASSUME busy[r], todo[r] # <<>>
               PROVE  /\ Step(r) = todo[r][1] /\ Named(Step(r))
                      /\ waiting[r] => Meeting(plan, Step(r)) /\ Step(r).do # "refuse"
    OBVIOUS
  <2>1. Step(r) = todo[r][1] /\ Len(todo[r]) \in Nat \ {0}
    BY <1>2, TailIs DEF Step
  <2>2. Whole(plan, todo[r]) /\ 1 \in 1..Len(todo[r])
    BY <2>1, Standing
  <2>3. Named(Step(r))
    BY <2>1, <2>2 DEF Whole
  <2> QED BY <1>1, <2>1, <2>3 DEF RankInv
<1>4. /\ busy[r] /\ todo[r] # <<>> /\ call' = call /\ waiting' = waiting
      /\ Step(r).do \in {"move", "stage", "copy", "zero", "overwrite", "poison", "finish", "take", "put back", "convert", "refuse"}
      /\ Step(r).do = "move" => ~ Meeting(plan, Step(r))
  <2>1. CASE LocalMove(r)
    BY <2>1 DEF LocalMove, At, Joint, Working, Meeting, Step
  <2>2. CASE LocalStage(r) \/ FailStage(r)
    BY <2>2 DEF LocalStage, FailStage, At, Working, Step
  <2>3. CASE CopyData(r) \/ ZeroEndpoints(r)
    BY <2>3 DEF CopyData, ZeroEndpoints, At, Working, Step
  <2>4. CASE Overwrite(r) \/ RefuseAlone(r)
    BY <2>4 DEF Overwrite, RefuseAlone, At, Working, Step
  <2>5. CASE SetState(r)
    BY <2>5 DEF SetState, At, Working, Step
  <2>6. CASE TakeReal(r)
    BY <2>6 DEF TakeReal, At, Working, Step
  <2>7. CASE ConvertStorage(r)
    BY <2>7 DEF ConvertStorage, At, Working, Step
  <2> QED BY <2>1, <2>2, <2>3, <2>4, <2>5, <2>6, <2>7
<1>5. ~ waiting[r] /\ ~ waiting'[r] /\ call'[r] = call[r]
  BY <1>3, <1>4 DEF Meeting
<1>6. ~ failing[r]
  <2>1. failing[r] => todo[r][1].do = "result"
    BY DEF SpectrumInv
  <2> QED BY <1>3, <1>4, <2>1
<1>7. CASE Advance(r) /\ UNCHANGED <<busy, failing>> /\ Step(r).do # "refuse"
  <2>1. todo'[r] = Tail(todo[r]) /\ busy'[r] /\ ~ failing'[r]
    BY <1>1, <1>4, <1>6, <1>7 DEF Shapes, Advance
  <2> QED BY <1>4, <1>5, <1>6, <1>7, <2>1, SpectrumAdvances
<1>8. CASE Refused(r, Step(r).place) /\ Step(r).do \in {"stage", "convert", "refuse"}
  <2>1. Step(r).place # OK
    BY <1>3, <1>4, <1>8 DEF Named, Refusing
  <2> QED BY <1>4, <1>5, <1>8, <2>1, SpectrumRefused
<1>9. CASE LocalMove(r) \/ LocalStage(r) \/ CopyData(r) \/ ZeroEndpoints(r) \/ Overwrite(r) \/ SetState(r) \/ TakeReal(r)
  <2>1. Advance(r) /\ UNCHANGED <<busy, failing>>
    BY <1>9 DEF LocalMove, LocalStage, CopyData, ZeroEndpoints, Overwrite, SetState, TakeReal
  <2>2. Step(r).do # "refuse"
    BY <1>9 DEF LocalMove, LocalStage, CopyData, ZeroEndpoints, Overwrite, SetState, TakeReal, At, Step
  <2> QED BY <1>7, <2>1, <2>2
<1>10. CASE FailStage(r) \/ RefuseAlone(r)
  BY <1>8, <1>10 DEF FailStage, RefuseAlone, At, Step
<1>11. CASE ConvertStorage(r)
  <2>1. Step(r).do = "convert" /\ ((Advance(r) /\ UNCHANGED <<busy, failing>>) \/ Refused(r, Step(r).place))
    BY <1>11 DEF ConvertStorage, At, Step
  <2> QED BY <1>7, <1>8, <2>1
<1> QED BY <1>9, <1>10, <1>11

(* Every step of a rank, for that rank.                                    *)
LEMMA SpectrumOwn ==
  ASSUME ControlInv, NEW r \in Rank, SpectrumInv(r), Call(r) \/ Reallocate(r) \/ StepOf(r) \/ Panic(r)
  PROVE  SpectrumInv(r)'
<1>1. CASE Call(r)
  BY <1>1, SpectrumCall
<1>2. CASE Reallocate(r) \/ Panic(r)
  <2>1. UNCHANGED <<call, busy, todo, failing, result, waiting, log>>
    BY <1>2 DEF Reallocate, Panic
  <2> QED BY <2>1, SpectrumKept
<1>3. CASE StepOf(r)
  BY <1>3, SpectrumEnter, SpectrumLeave, SpectrumReturn, SpectrumAlone DEF StepOf
<1> QED BY <1>1, <1>2, <1>3

(* Every step, for all ranks.                                              *)
LEMMA NextSpectrum ==
  ASSUME TransformInv, [Next]_vars
  PROVE  TransformInv'
<1>1. ControlInv /\ \A r \in Rank : SpectrumInv(r)
  BY DEF TransformInv
<1>2. ControlInv'
  BY <1>1, NextControl
<1>3. ASSUME NEW r \in Rank PROVE SpectrumInv(r)'
  <2>1. ASSUME NEW q \in Rank, Call(q) \/ Reallocate(q) \/ StepOf(q) \/ Panic(q) PROVE SpectrumInv(r)'
    <3>1. CASE q = r
      BY <1>1, <2>1, <3>1, SpectrumOwn
    <3>2. CASE q # r
      <4>1. /\ call'[r] = call[r] /\ busy'[r] = busy[r] /\ todo'[r] = todo[r]
            /\ failing'[r] = failing[r] /\ result'[r] = result[r] /\ waiting'[r] = waiting[r] /\ log'[r] = log[r]
        BY <1>1, <2>1, <3>2, OthersStay
      <4> QED BY <1>1, <4>1, SpectrumKept
    <3> QED BY <3>1, <3>2
  <2>2. CASE UNCHANGED vars
    <3>1. UNCHANGED <<call, busy, todo, failing, result, waiting, log>>
      BY <2>2 DEF vars
    <3> QED BY <1>1, <3>1, SpectrumKept
  <2>3. CASE AllDone
    <3>1. UNCHANGED vars
      BY <2>3 DEF AllDone
    <3> QED BY <2>2, <3>1
  <2> QED BY <2>1, <2>2, <2>3 DEF Next
<1> QED BY <1>2, <1>3 DEF TransformInv

(* An invalid spectrum is rejected: once all ranks have returned from the  *)
(* same calls and one of them was given a spectrum that is not the image   *)
(* of real data, none of them reports success.                             *)
THEOREM TransformInvalidSpectrumRejected == Spec => []InvalidSpectrumRejected
<1>1. Init => TransformInv
  <2> SUFFICES ASSUME Init PROVE TransformInv
    OBVIOUS
  <2>1. ControlInv
    BY InitControl
  <2>2. ASSUME NEW r \in Rank PROVE SpectrumInv(r)
    BY DEF Init, SpectrumInv, NoCall
  <2> QED BY <2>1, <2>2 DEF TransformInv
<1>2. TransformInv /\ [Next]_vars => TransformInv'
  BY NextSpectrum
<1>3. TransformInv /\ OutcomesAgree => InvalidSpectrumRejected
  <2> SUFFICES ASSUME TransformInv, OutcomesAgree, Quiet, NEW r \in Rank, call[r].bad # {}, NEW q \in Rank
               PROVE  result[q] # OK
    BY DEF InvalidSpectrumRejected
  <2>1. SpectrumInv(r) /\ ~ busy[r]
    BY DEF TransformInv, Quiet
  <2>2. result[r] # OK
    BY <2>1 DEF SpectrumInv
  <2>3. result[q] = result[r]
    BY DEF OutcomesAgree
  <2> QED BY <2>2, <2>3
<1> QED BY <1>1, <1>2, <1>3, TransformOutcomesAgree, PTL DEF Spec
===============================================================================
