------------------------------ MODULE MpiIoProofs ------------------------------
(***************************************************************************)
(* Calls of MpiIo end alike on all ranks, with nothing held, and the       *)
(* commit marker of a file tells the truth, for any number of ranks, any   *)
(* sequence of calls, and whatever fails or crashes.                       *)
(***************************************************************************)
EXTENDS MpiIoInvariant, FiniteSetTheorems

----------------------------------------------------------------------------
(* Scripts.                                                                *)

(* A part of the script of o from place a to place b, with the places S in *)
(* it.                                                                     *)
Segment(o, s, a, b, S) ==
  /\ s \in Seq(AnyPlace) /\ Len(s) >= 1 /\ s[1] = a /\ s[Len(s)] = b
  /\ \A i \in 1..Len(s) : Fits(o, s[i])
  /\ \A i \in 1..(Len(s) - 1) : Leads(o, s[i], s[i + 1])
  /\ \A x \in S : \E i \in 1..Len(s) : s[i] = x

LEMMA Join ==
  ASSUME NEW o, NEW s, NEW t, NEW a, NEW b, NEW c, NEW d, NEW S, NEW T,
         Segment(o, s, a, b, S), Segment(o, t, c, d, T), Leads(o, b, c)
  PROVE  Segment(o, s \o t, a, d, S \union T)
<1> DEFINE u == s \o t
           m == Len(s)
           n == Len(t)
<1>1. s \in Seq(AnyPlace) /\ t \in Seq(AnyPlace) /\ m \in Nat /\ n \in Nat /\ m >= 1 /\ n >= 1
  BY DEF Segment
<1>2. /\ u \in Seq(AnyPlace) /\ Len(u) = m + n
      /\ \A i \in 1..m : u[i] = s[i]
      /\ \A i \in 1..n : u[m + i] = t[i]
  BY <1>1
<1>2a. \A i \in (m + 1)..(m + n) : u[i] = t[i - m] /\ i - m \in 1..n
  <2>1. ASSUME NEW i \in (m + 1)..(m + n) PROVE u[i] = t[i - m] /\ i - m \in 1..n
    <3>1. i - m \in 1..n /\ m + (i - m) = i
      BY <1>1
    <3>2. u[m + (i - m)] = t[i - m]
      BY <1>2, <3>1
    <3> QED BY <3>1, <3>2
  <2> QED BY <2>1
<1>3. s[1] = a /\ s[m] = b /\ t[1] = c /\ t[n] = d
  BY DEF Segment
<1> HIDE DEF u, m, n
<1>4. u[1] = a /\ u[m] = b /\ u[m + 1] = c /\ u[m + n] = d
  BY <1>1, <1>2, <1>3
<1>5. ASSUME NEW i \in 1..(m + n) PROVE Fits(o, u[i])
  <2>1. CASE i \in 1..m
    BY <1>2, <2>1 DEF Segment, m
  <2>2. CASE i \in (m + 1)..(m + n)
    <3>1. u[i] = t[i - m] /\ i - m \in 1..n
      BY <1>2a, <2>2
    <3> QED BY <3>1 DEF Segment, n
  <2> QED BY <1>1, <2>1, <2>2
<1>6. ASSUME NEW i \in 1..(m + n - 1) PROVE Leads(o, u[i], u[i + 1])
  <2>1. CASE i \in 1..(m - 1)
    <3>1. i \in 1..m /\ i + 1 \in 1..m
      BY <1>1, <2>1
    <3>2. Leads(o, s[i], s[i + 1])
      BY <2>1 DEF Segment, m
    <3> QED BY <1>2, <3>1, <3>2
  <2>2. CASE i = m
    BY <1>4, <2>2
  <2>3. CASE i \in (m + 1)..(m + n - 1)
    <3>1. i \in (m + 1)..(m + n) /\ i + 1 \in (m + 1)..(m + n)
      BY <1>1, <2>3
    <3>2. u[i] = t[i - m] /\ u[i + 1] = t[(i + 1) - m]
      BY <1>2a, <3>1
    <3>3. (i + 1) - m = (i - m) + 1 /\ i - m \in 1..(n - 1)
      BY <1>1, <2>3
    <3>4. Leads(o, t[i - m], t[(i - m) + 1])
      BY <3>3 DEF Segment, n
    <3> QED BY <3>2, <3>3, <3>4
  <2> QED BY <1>1, <2>1, <2>2, <2>3
<1>7. ASSUME NEW x \in S \union T PROVE \E i \in 1..(m + n) : u[i] = x
  <2>1. CASE x \in S
    <3>1. PICK i \in 1..m : s[i] = x
      BY <2>1 DEF Segment, m
    <3>2. i \in 1..(m + n) /\ u[i] = x
      BY <1>1, <1>2, <3>1
    <3> QED BY <3>2
  <2>2. CASE x \in T
    <3>1. PICK i \in 1..n : t[i] = x
      BY <2>2 DEF Segment, n
    <3>2. u[m + i] = x
      BY <1>2, <3>1
    <3>3. m + i \in 1..(m + n)
      BY <1>1, <3>1
    <3> QED BY <3>2, <3>3
  <2> QED BY <2>1, <2>2
<1>8. Len(u) >= 1 /\ u[Len(u)] = d /\ Len(u) - 1 = m + n - 1
  BY <1>1, <1>2, <1>4
<1>9. Segment(o, u, a, d, S \union T)
  BY <1>2, <1>4, <1>5, <1>6, <1>7, <1>8 DEF Segment
<1> QED BY <1>9 DEF u

(* Parts of scripts before the file is opened. *)
EarlyPart(s, a, b) ==
  /\ s \in Seq(EarlyPlace) /\ Len(s) >= 1 /\ s[1] = a /\ s[Len(s)] = b
  /\ \A i \in 1..Len(s) : i # 1 => s[i] # "descriptor"

LEMMA EarlyFits ==
  ASSUME NEW o, o \notin Void, NEW p \in EarlyPlace
  PROVE  Fits(o, p)
<1>1. p \in AnyPlace
  BY DEF AnyPlace
<1>2. p \notin WriteStep \union {"payload size", "marker view"}
  BY DEF EarlyPlace, WriteStep
<1>3. p \notin UnseenPlace \union SeenPlace \union {"prefix validation", "raw file size"}
  BY DEF EarlyPlace, UnseenPlace, SeenPlace
<1>4. p \notin Cataloguing \union {"catalog validation"}
  BY DEF EarlyPlace, Cataloguing
<1>5. p \notin {"payload read", "physical staging", "datatype", "file view", "post cleanup"}
  BY DEF EarlyPlace
<1>6. "file size" \in UnseenPlace
  BY DEF UnseenPlace
<1> HIDE DEF EarlyPlace
<1>7. p # "file size" /\ p # "raw file size"
  BY <1>3, <1>6
<1> QED BY <1>1, <1>2, <1>3, <1>4, <1>5, <1>7 DEF Fits

LEMMA EarlySegment ==
  ASSUME NEW o, o \notin Void, NEW s, NEW a, NEW b, EarlyPart(s, a, b)
  PROVE  Segment(o, s, a, b, {})
<1>0. s \in Seq(EarlyPlace) /\ Len(s) >= 1 /\ s[1] = a /\ s[Len(s)] = b
  BY DEF EarlyPart
<1>1. Len(s) \in Nat /\ \A i \in 1..Len(s) : s[i] \in EarlyPlace
  BY <1>0
<1>2. \A p \in EarlyPlace : Fits(o, p)
  BY EarlyFits
<1>3. ASSUME NEW i \in 1..(Len(s) - 1) PROVE Leads(o, s[i], s[i + 1])
  <2>1. i \in 1..Len(s) /\ i + 1 \in 1..Len(s) /\ i + 1 # 1
    BY <1>1
  <2>2. s[i] \in EarlyPlace /\ s[i + 1] \in EarlyPlace /\ s[i + 1] # "descriptor"
    BY <1>1, <2>1 DEF EarlyPart
  <2> QED BY <2>2 DEF Leads
<1>4. s \in Seq(AnyPlace)
  <2>1. EarlyPlace \subseteq AnyPlace
    BY DEF AnyPlace
  <2> QED BY <1>0, <2>1
<1> QED BY <1>0, <1>1, <1>2, <1>3, <1>4 DEF Segment

(* Places that may follow a descriptor. *)
Prepared == EarlyPlace \ {"descriptor"}

LEMMA EarlyPair ==
  ASSUME NEW a \in EarlyPlace
  PROVE  EarlyPart(<<a>>, a, a) /\ \A b \in Prepared : EarlyPart(<<a, b>>, a, b)
<1>1. EarlyPart(<<a>>, a, a)
  BY DEF EarlyPart, Prepared
<1>2. ASSUME NEW b \in Prepared PROVE EarlyPart(<<a, b>>, a, b)
  BY DEF EarlyPart, Prepared
<1> QED BY <1>1, <1>2

LEMMA EarlyTuples ==
  ASSUME NEW a \in EarlyPlace, NEW b \in Prepared, NEW c \in Prepared,
         NEW d \in Prepared, NEW e \in Prepared, NEW f \in Prepared
  PROVE  /\ EarlyPart(<<a, b, c>>, a, c) /\ EarlyPart(<<a, b, c, d>>, a, d)
         /\ EarlyPart(<<a, b, c, d, e, f>>, a, f)
<1>1. EarlyPart(<<a, b, c>>, a, c)
  BY DEF EarlyPart, Prepared
<1>2. EarlyPart(<<a, b, c, d>>, a, d)
  BY DEF EarlyPart, Prepared
<1>3. EarlyPart(<<a, b, c, d, e, f>>, a, f)
  BY DEF EarlyPart, Prepared
<1> QED BY <1>1, <1>2, <1>3

(* Parts given place by place. *)

LEMMA Segment1 ==
  ASSUME NEW o, NEW p1, Fits(o, p1)
  PROVE  Segment(o, <<p1>>, p1, p1, {p1})
<1> DEFINE s == <<p1>>
<1>0. {p1} \subseteq AnyPlace
  BY DEF Fits
<1>1. s \in Seq(AnyPlace) /\ Len(s) = 1
  BY <1>0
<1>2. s[1] = p1
  OBVIOUS
<1> HIDE DEF s
<1>3. \A i \in 1..1 : Fits(o, s[i])
  BY <1>2
<1>4. \A i \in 1..0 : Leads(o, s[i], s[i + 1])
  BY <1>2
<1>5. \A x \in {p1} : \E i \in 1..1 : s[i] = x
  BY <1>2
<1>6. Segment(o, s, p1, p1, {p1})
  BY <1>1, <1>2, <1>3, <1>4, <1>5 DEF Segment
<1> QED BY <1>6 DEF s

LEMMA Segment2 ==
  ASSUME NEW o, NEW p1, NEW p2, Fits(o, p1), Fits(o, p2), Leads(o, p1, p2)
  PROVE  Segment(o, <<p1, p2>>, p1, p2, {p1, p2})
<1> DEFINE s == <<p1, p2>>
<1>0. {p1, p2} \subseteq AnyPlace
  BY DEF Fits
<1>1. s \in Seq(AnyPlace) /\ Len(s) = 2
  BY <1>0
<1>2. s[1] = p1 /\ s[2] = p2
  OBVIOUS
<1> HIDE DEF s
<1>3. \A i \in 1..2 : Fits(o, s[i])
  BY <1>2
<1>4. \A i \in 1..1 : Leads(o, s[i], s[i + 1])
  BY <1>2
<1>5. \A x \in {p1, p2} : \E i \in 1..2 : s[i] = x
  BY <1>2
<1>6. Segment(o, s, p1, p2, {p1, p2})
  BY <1>1, <1>2, <1>3, <1>4, <1>5 DEF Segment
<1> QED BY <1>6 DEF s

LEMMA Segment3 ==
  ASSUME NEW o, NEW p1, NEW p2, NEW p3, Fits(o, p1), Fits(o, p2), Fits(o, p3), Leads(o, p1, p2),
         Leads(o, p2, p3)
  PROVE  Segment(o, <<p1, p2, p3>>, p1, p3, {p1, p2, p3})
<1> DEFINE s == <<p1, p2, p3>>
<1>0. {p1, p2, p3} \subseteq AnyPlace
  BY DEF Fits
<1>1. s \in Seq(AnyPlace) /\ Len(s) = 3
  BY <1>0
<1>2. s[1] = p1 /\ s[2] = p2 /\ s[3] = p3
  OBVIOUS
<1> HIDE DEF s
<1>3. \A i \in 1..3 : Fits(o, s[i])
  BY <1>2
<1>4. \A i \in 1..2 : Leads(o, s[i], s[i + 1])
  BY <1>2
<1>5. \A x \in {p1, p2, p3} : \E i \in 1..3 : s[i] = x
  BY <1>2
<1>6. Segment(o, s, p1, p3, {p1, p2, p3})
  BY <1>1, <1>2, <1>3, <1>4, <1>5 DEF Segment
<1> QED BY <1>6 DEF s

LEMMA Segment4 ==
  ASSUME NEW o, NEW p1, NEW p2, NEW p3, NEW p4, Fits(o, p1), Fits(o, p2), Fits(o, p3),
         Fits(o, p4), Leads(o, p1, p2), Leads(o, p2, p3), Leads(o, p3, p4)
  PROVE  Segment(o, <<p1, p2, p3, p4>>, p1, p4, {p1, p2, p3, p4})
<1> DEFINE s == <<p1, p2, p3, p4>>
<1>0. {p1, p2, p3, p4} \subseteq AnyPlace
  BY DEF Fits
<1>1. s \in Seq(AnyPlace) /\ Len(s) = 4
  BY <1>0
<1>2. s[1] = p1 /\ s[2] = p2 /\ s[3] = p3 /\ s[4] = p4
  OBVIOUS
<1> HIDE DEF s
<1>3. \A i \in 1..4 : Fits(o, s[i])
  BY <1>2
<1>4. \A i \in 1..3 : Leads(o, s[i], s[i + 1])
  BY <1>2
<1>5. \A x \in {p1, p2, p3, p4} : \E i \in 1..4 : s[i] = x
  BY <1>2
<1>6. Segment(o, s, p1, p4, {p1, p2, p3, p4})
  BY <1>1, <1>2, <1>3, <1>4, <1>5 DEF Segment
<1> QED BY <1>6 DEF s

LEMMA Segment5 ==
  ASSUME NEW o, NEW p1, NEW p2, NEW p3, NEW p4, NEW p5, Fits(o, p1), Fits(o, p2), Fits(o, p3),
         Fits(o, p4), Fits(o, p5), Leads(o, p1, p2), Leads(o, p2, p3), Leads(o, p3, p4),
         Leads(o, p4, p5)
  PROVE  Segment(o, <<p1, p2, p3, p4, p5>>, p1, p5, {p1, p2, p3, p4, p5})
<1> DEFINE s == <<p1, p2, p3, p4, p5>>
<1>0. {p1, p2, p3, p4, p5} \subseteq AnyPlace
  BY DEF Fits
<1>1. s \in Seq(AnyPlace) /\ Len(s) = 5
  BY <1>0
<1>2. s[1] = p1 /\ s[2] = p2 /\ s[3] = p3 /\ s[4] = p4 /\ s[5] = p5
  OBVIOUS
<1> HIDE DEF s
<1>3. \A i \in 1..5 : Fits(o, s[i])
  BY <1>2
<1>4. \A i \in 1..4 : Leads(o, s[i], s[i + 1])
  BY <1>2
<1>5. \A x \in {p1, p2, p3, p4, p5} : \E i \in 1..5 : s[i] = x
  BY <1>2
<1>6. Segment(o, s, p1, p5, {p1, p2, p3, p4, p5})
  BY <1>1, <1>2, <1>3, <1>4, <1>5 DEF Segment
<1> QED BY <1>6 DEF s

LEMMA Segment7 ==
  ASSUME NEW o, NEW p1, NEW p2, NEW p3, NEW p4, NEW p5, NEW p6, NEW p7, Fits(o, p1),
         Fits(o, p2), Fits(o, p3), Fits(o, p4), Fits(o, p5), Fits(o, p6), Fits(o, p7),
         Leads(o, p1, p2), Leads(o, p2, p3), Leads(o, p3, p4), Leads(o, p4, p5),
         Leads(o, p5, p6), Leads(o, p6, p7)
  PROVE  Segment(o, <<p1, p2, p3, p4, p5, p6, p7>>, p1, p7, {p1, p2, p3, p4, p5, p6, p7})
<1> DEFINE s == <<p1, p2, p3, p4, p5, p6, p7>>
<1>0. {p1, p2, p3, p4, p5, p6, p7} \subseteq AnyPlace
  BY DEF Fits
<1>1. s \in Seq(AnyPlace) /\ Len(s) = 7
  BY <1>0
<1>2. s[1] = p1 /\ s[2] = p2 /\ s[3] = p3 /\ s[4] = p4 /\ s[5] = p5 /\ s[6] = p6 /\ s[7] = p7
  OBVIOUS
<1> HIDE DEF s
<1>3. \A i \in 1..7 : Fits(o, s[i])
  BY <1>2
<1>4. \A i \in 1..6 : Leads(o, s[i], s[i + 1])
  BY <1>2
<1>5. \A x \in {p1, p2, p3, p4, p5, p6, p7} : \E i \in 1..7 : s[i] = x
  BY <1>2
<1>6. Segment(o, s, p1, p7, {p1, p2, p3, p4, p5, p6, p7})
  BY <1>1, <1>2, <1>3, <1>4, <1>5 DEF Segment
<1> QED BY <1>6 DEF s

LEMMA Segment9 ==
  ASSUME NEW o, NEW p1, NEW p2, NEW p3, NEW p4, NEW p5, NEW p6, NEW p7, NEW p8, NEW p9,
         Fits(o, p1), Fits(o, p2), Fits(o, p3), Fits(o, p4), Fits(o, p5), Fits(o, p6),
         Fits(o, p7), Fits(o, p8), Fits(o, p9), Leads(o, p1, p2), Leads(o, p2, p3),
         Leads(o, p3, p4), Leads(o, p4, p5), Leads(o, p5, p6), Leads(o, p6, p7),
         Leads(o, p7, p8), Leads(o, p8, p9)
  PROVE  Segment(o, <<p1, p2, p3, p4, p5, p6, p7, p8, p9>>, p1, p9, {p1, p2, p3, p4, p5, p6, p7, p8, p9})
<1> DEFINE s == <<p1, p2, p3, p4, p5, p6, p7, p8, p9>>
<1>0. {p1, p2, p3, p4, p5, p6, p7, p8, p9} \subseteq AnyPlace
  BY DEF Fits
<1>1. s \in Seq(AnyPlace) /\ Len(s) = 9
  BY <1>0
<1>2. /\ s[1] = p1 /\ s[2] = p2 /\ s[3] = p3 /\ s[4] = p4 /\ s[5] = p5 /\ s[6] = p6 /\ s[7] = p7
      /\ s[8] = p8 /\ s[9] = p9
  OBVIOUS
<1> HIDE DEF s
<1>3. \A i \in 1..9 : Fits(o, s[i])
  BY <1>2
<1>4. \A i \in 1..8 : Leads(o, s[i], s[i + 1])
  BY <1>2
<1>5. \A x \in {p1, p2, p3, p4, p5, p6, p7, p8, p9} : \E i \in 1..9 : s[i] = x
  BY <1>2
<1>6. Segment(o, s, p1, p9, {p1, p2, p3, p4, p5, p6, p7, p8, p9})
  BY <1>1, <1>2, <1>3, <1>4, <1>5 DEF Segment
<1> QED BY <1>6 DEF s

LEMMA Segment10 ==
  ASSUME NEW o, NEW p1, NEW p2, NEW p3, NEW p4, NEW p5, NEW p6, NEW p7, NEW p8, NEW p9, NEW p10,
         Fits(o, p1), Fits(o, p2), Fits(o, p3), Fits(o, p4), Fits(o, p5), Fits(o, p6),
         Fits(o, p7), Fits(o, p8), Fits(o, p9), Fits(o, p10), Leads(o, p1, p2),
         Leads(o, p2, p3), Leads(o, p3, p4), Leads(o, p4, p5), Leads(o, p5, p6),
         Leads(o, p6, p7), Leads(o, p7, p8), Leads(o, p8, p9), Leads(o, p9, p10)
  PROVE  Segment(o, <<p1, p2, p3, p4, p5, p6, p7, p8, p9, p10>>, p1, p10, {p1, p2, p3, p4, p5, p6, p7, p8, p9, p10})
<1> DEFINE s == <<p1, p2, p3, p4, p5, p6, p7, p8, p9, p10>>
<1>0. {p1, p2, p3, p4, p5, p6, p7, p8, p9, p10} \subseteq AnyPlace
  BY DEF Fits
<1>1. s \in Seq(AnyPlace) /\ Len(s) = 10
  BY <1>0
<1>2. /\ s[1] = p1 /\ s[2] = p2 /\ s[3] = p3 /\ s[4] = p4 /\ s[5] = p5 /\ s[6] = p6 /\ s[7] = p7
      /\ s[8] = p8 /\ s[9] = p9 /\ s[10] = p10
  OBVIOUS
<1> HIDE DEF s
<1>3. \A i \in 1..10 : Fits(o, s[i])
  BY <1>2
<1>4. \A i \in 1..9 : Leads(o, s[i], s[i + 1])
  BY <1>2
<1>5. \A x \in {p1, p2, p3, p4, p5, p6, p7, p8, p9, p10} : \E i \in 1..10 : s[i] = x
  BY <1>2
<1>6. Segment(o, s, p1, p10, {p1, p2, p3, p4, p5, p6, p7, p8, p9, p10})
  BY <1>1, <1>2, <1>3, <1>4, <1>5 DEF Segment
<1> QED BY <1>6 DEF s

(* Opening the file. *)
LEMMA OpeningSegment ==
  ASSUME NEW o, o \notin Void
  PROVE  Segment(o, Opening, "MPI_Comm_dup", "file handler",
                 {"MPI_Comm_dup", "handler restoration", "communicator handler", "MPI_File_open",
                   "file handler"})
<1>1. /\ Fits(o, "MPI_Comm_dup") /\ Fits(o, "handler restoration")
      /\ Fits(o, "communicator handler") /\ Fits(o, "MPI_File_open") /\ Fits(o, "file handler")
  BY DEF Fits, AnyPlace, EarlyPlace, MidPlace, PastPlace, ClosingPlace, WriteStep, Cataloguing,
         UnseenPlace, SeenPlace, UnseenCatalog, SeenCatalog, Void, Writing, ReadOp
<1>2. /\ Leads(o, "MPI_Comm_dup", "handler restoration")
      /\ Leads(o, "handler restoration", "communicator handler")
      /\ Leads(o, "communicator handler", "MPI_File_open")
      /\ Leads(o, "MPI_File_open", "file handler")
  BY DEF Leads, EarlyPlace, UnseenPlace, SeenPlace, UnseenCatalog, SeenCatalog, Void, Writing, ReadOp
<1> QED BY <1>1, <1>2, Segment5, Zenon DEF Opening

(* Writing it. *)
LEMMA WritesSegment ==
  ASSUME NEW o, o \in Writing
  PROVE  Segment(o, Writes, "header write", "marker flush",
                 {"header write", "header flush", "datatype", "file view", "payload write",
                   "payload flush", "payload size", "marker view", "marker write", "marker flush"})
<1>1. /\ Fits(o, "header write") /\ Fits(o, "header flush") /\ Fits(o, "datatype")
      /\ Fits(o, "file view") /\ Fits(o, "payload write") /\ Fits(o, "payload flush")
      /\ Fits(o, "payload size") /\ Fits(o, "marker view") /\ Fits(o, "marker write")
      /\ Fits(o, "marker flush")
  BY DEF Fits, AnyPlace, EarlyPlace, MidPlace, PastPlace, ClosingPlace, WriteStep, Cataloguing,
         UnseenPlace, SeenPlace, UnseenCatalog, SeenCatalog, Void, Writing, ReadOp
<1>2. /\ Leads(o, "header write", "header flush") /\ Leads(o, "header flush", "datatype")
      /\ Leads(o, "datatype", "file view") /\ Leads(o, "file view", "payload write")
      /\ Leads(o, "payload write", "payload flush") /\ Leads(o, "payload flush", "payload size")
      /\ Leads(o, "payload size", "marker view") /\ Leads(o, "marker view", "marker write")
      /\ Leads(o, "marker write", "marker flush")
  BY DEF Leads, EarlyPlace, UnseenPlace, SeenPlace, UnseenCatalog, SeenCatalog, Void, Writing, ReadOp
<1> QED BY <1>1, <1>2, Segment10, Zenon DEF Writes

(* Reading its header. *)
LEMMA HeaderSegment ==
  ASSUME NEW o, o \in ReadOp
  PROVE  Segment(o, ReadingHeader, "file size", "metadata validation",
                 {"file size", "size comparison", "prefix read", "prefix broadcast",
                   "prefix validation", "header allocation", "header read", "header broadcast",
                   "metadata validation"})
<1>1. /\ Fits(o, "file size") /\ Fits(o, "size comparison") /\ Fits(o, "prefix read")
      /\ Fits(o, "prefix broadcast") /\ Fits(o, "prefix validation")
      /\ Fits(o, "header allocation") /\ Fits(o, "header read") /\ Fits(o, "header broadcast")
      /\ Fits(o, "metadata validation")
  BY DEF Fits, AnyPlace, EarlyPlace, MidPlace, PastPlace, ClosingPlace, WriteStep, Cataloguing,
         UnseenPlace, SeenPlace, UnseenCatalog, SeenCatalog, Void, Writing, ReadOp
<1>2. /\ Leads(o, "file size", "size comparison") /\ Leads(o, "size comparison", "prefix read")
      /\ Leads(o, "prefix read", "prefix broadcast")
      /\ Leads(o, "prefix broadcast", "prefix validation")
      /\ Leads(o, "prefix validation", "header allocation")
      /\ Leads(o, "header allocation", "header read")
      /\ Leads(o, "header read", "header broadcast")
      /\ Leads(o, "header broadcast", "metadata validation")
  BY DEF Leads, EarlyPlace, UnseenPlace, SeenPlace, UnseenCatalog, SeenCatalog, Void, Writing, ReadOp
<1> QED BY <1>1, <1>2, Segment9, Zenon DEF ReadingHeader

(* Reading its payload. *)
LEMMA PayloadSegment ==
  ASSUME NEW o, o \in ReadOp
  PROVE  Segment(o, <<"datatype", "file view", "payload read", "physical staging">>, "datatype", "physical staging",
                 {"datatype", "file view", "payload read", "physical staging"})
<1>1. /\ Fits(o, "datatype") /\ Fits(o, "file view") /\ Fits(o, "payload read")
      /\ Fits(o, "physical staging")
  BY DEF Fits, AnyPlace, EarlyPlace, MidPlace, PastPlace, ClosingPlace, WriteStep, Cataloguing,
         UnseenPlace, SeenPlace, UnseenCatalog, SeenCatalog, Void, Writing, ReadOp
<1>2. /\ Leads(o, "datatype", "file view") /\ Leads(o, "file view", "payload read")
      /\ Leads(o, "payload read", "physical staging")
  BY DEF Leads, EarlyPlace, UnseenPlace, SeenPlace, UnseenCatalog, SeenCatalog, Void, Writing, ReadOp
<1> QED BY <1>1, <1>2, Segment4, Zenon

(* Reading without a header. *)
LEMMA RawSegment ==
  ASSUME NEW o, o = "read_mpi_raw"
  PROVE  Segment(o, <<"raw file size", "datatype", "file view", "payload read", "physical staging">>, "raw file size", "physical staging",
                 {"raw file size", "datatype", "file view", "payload read", "physical staging"})
<1>1. /\ Fits(o, "raw file size") /\ Fits(o, "datatype") /\ Fits(o, "file view")
      /\ Fits(o, "payload read") /\ Fits(o, "physical staging")
  BY DEF Fits, AnyPlace, EarlyPlace, MidPlace, PastPlace, ClosingPlace, WriteStep, Cataloguing,
         UnseenPlace, SeenPlace, UnseenCatalog, SeenCatalog, Void, Writing, ReadOp
<1>2. /\ Leads(o, "raw file size", "datatype") /\ Leads(o, "datatype", "file view")
      /\ Leads(o, "file view", "payload read") /\ Leads(o, "payload read", "physical staging")
  BY DEF Leads, EarlyPlace, UnseenPlace, SeenPlace, UnseenCatalog, SeenCatalog, Void, Writing, ReadOp
<1> QED BY <1>1, <1>2, Segment5, Zenon

(* Reading a catalog. *)
LEMMA CatalogSegment ==
  ASSUME NEW o, o = "read_mpi_catalog"
  PROVE  Segment(o, <<"file size", "catalog size", "catalog prefix allocation",
                    "catalog prefix read", "catalog header allocation", "catalog header read",
                    "catalog validation">>, "file size", "catalog validation",
                 {"file size", "catalog size", "catalog prefix allocation", "catalog prefix read",
                   "catalog header allocation", "catalog header read", "catalog validation"})
<1>1. /\ Fits(o, "file size") /\ Fits(o, "catalog size") /\ Fits(o, "catalog prefix allocation")
      /\ Fits(o, "catalog prefix read") /\ Fits(o, "catalog header allocation")
      /\ Fits(o, "catalog header read") /\ Fits(o, "catalog validation")
  BY DEF Fits, AnyPlace, EarlyPlace, MidPlace, PastPlace, ClosingPlace, WriteStep, Cataloguing,
         UnseenPlace, SeenPlace, UnseenCatalog, SeenCatalog, Void, Writing, ReadOp
<1>2. /\ Leads(o, "file size", "catalog size")
      /\ Leads(o, "catalog size", "catalog prefix allocation")
      /\ Leads(o, "catalog prefix allocation", "catalog prefix read")
      /\ Leads(o, "catalog prefix read", "catalog header allocation")
      /\ Leads(o, "catalog header allocation", "catalog header read")
      /\ Leads(o, "catalog header read", "catalog validation")
  BY DEF Leads, EarlyPlace, UnseenPlace, SeenPlace, UnseenCatalog, SeenCatalog, Void, Writing, ReadOp
<1> QED BY <1>1, <1>2, Segment7, Zenon

(* Closing the file. *)
LEMMA ClosingSegment ==
  ASSUME NEW o, o \notin Void
  PROVE  Segment(o, Closing, "datatype free", "communicator free",
                 {"datatype free", "file close", "communicator free"})
<1>1. Fits(o, "datatype free") /\ Fits(o, "file close") /\ Fits(o, "communicator free")
  BY DEF Fits, AnyPlace, EarlyPlace, MidPlace, PastPlace, ClosingPlace, WriteStep, Cataloguing,
         UnseenPlace, SeenPlace, UnseenCatalog, SeenCatalog, Void, Writing, ReadOp
<1>2. Leads(o, "datatype free", "file close") /\ Leads(o, "file close", "communicator free")
  BY DEF Leads, EarlyPlace, UnseenPlace, SeenPlace, UnseenCatalog, SeenCatalog, Void, Writing, ReadOp
<1> QED BY <1>1, <1>2, Segment3, Zenon DEF Closing

(* Agreeing on the result. *)
LEMMA EndSegment ==
  ASSUME NEW o, o \notin Void, o # "read_mpi_catalog"
  PROVE  Segment(o, <<"post cleanup", "return">>, "post cleanup", "return",
                 {"post cleanup", "return"})
<1>1. Fits(o, "post cleanup") /\ Fits(o, "return")
  BY DEF Fits, AnyPlace, EarlyPlace, MidPlace, PastPlace, ClosingPlace, WriteStep, Cataloguing,
         UnseenPlace, SeenPlace, UnseenCatalog, SeenCatalog, Void, Writing, ReadOp
<1>2. Leads(o, "post cleanup", "return")
  BY DEF Leads, EarlyPlace, UnseenPlace, SeenPlace, UnseenCatalog, SeenCatalog, Void, Writing, ReadOp
<1> QED BY <1>1, <1>2, Segment2, Zenon

(* Returning at once. *)
LEMMA ReturnSegment ==
  ASSUME NEW o, o \notin Void
  PROVE  Segment(o, <<"return">>, "return", "return",
                 {"return"})
<1>1. Fits(o, "return")
  BY DEF Fits, AnyPlace, EarlyPlace, MidPlace, PastPlace, ClosingPlace, WriteStep, Cataloguing,
         UnseenPlace, SeenPlace, UnseenCatalog, SeenCatalog, Void, Writing, ReadOp
<1> QED BY <1>1, Segment1, Zenon

(* A collection without members. *)
LEMMA VoidSegment ==
  ASSUME NEW o, o \in Void
  PROVE  Segment(o, <<"descriptor", "return">>, "descriptor", "return",
                 {"descriptor", "return"})
<1>1. Fits(o, "descriptor") /\ Fits(o, "return")
  BY DEF Fits, AnyPlace, EarlyPlace, MidPlace, PastPlace, ClosingPlace, WriteStep, Cataloguing,
         UnseenPlace, SeenPlace, UnseenCatalog, SeenCatalog, Void, Writing, ReadOp
<1>2. Leads(o, "descriptor", "return")
  BY DEF Leads, EarlyPlace, UnseenPlace, SeenPlace, UnseenCatalog, SeenCatalog, Void, Writing, ReadOp
<1> QED BY <1>1, <1>2, Segment2, Zenon

LEMMA JoinEarly ==
  ASSUME NEW o, o \notin Void, NEW s, NEW t, NEW a, NEW b \in EarlyPlace, NEW c \in Prepared, NEW d,
         Segment(o, s, a, b, {}), Segment(o, t, c, d, {})
  PROVE  Segment(o, s \o t, a, d, {})
<1>1. Leads(o, b, c)
  BY DEF Leads, Prepared
<1>2. Segment(o, s \o t, a, d, {} \union {})
  BY <1>1, Join
<1>3. {} \union {} = {}
  OBVIOUS
<1> QED BY <1>2, <1>3

(* Everything before a file is opened. *)
LEMMA PreparationSegment ==
  ASSUME NEW o, o \notin Void
  PROVE  Segment(o, Preparation(o), "descriptor", "local preparation", {})
<1> USE EarlySegment
<1>1. /\ "descriptor" \in EarlyPlace /\ "combined descriptor" \in Prepared
      /\ {"collection members", "collection preparation", "collection descriptor",
          "collection descriptor allocation", "collection descriptor gather"} \subseteq Prepared
      /\ {"collection decomposition preparation", "collection decomposition length",
          "collection decomposition allocation", "collection decomposition gather"} \subseteq Prepared
      /\ {"collection staging", "descriptor allocation", "descriptor gather", "path preparation",
          "MPI_Info creation", "local preparation"} \subseteq Prepared
      /\ {"options preparation", "options length", "options allocation", "options gather"} \subseteq Prepared
      /\ {"decomposition preparation", "decomposition length", "decomposition allocation",
          "decomposition gather"} \subseteq Prepared
      /\ Prepared \subseteq EarlyPlace
  BY DEF Prepared, EarlyPlace
<1> DEFINE first == IF o \in Collection THEN CollectionPreparation ELSE <<"descriptor">>
           last == IF o \in Collection THEN "combined descriptor" ELSE "descriptor"
           second == <<"descriptor allocation", "descriptor gather", "path preparation">>
           third == IF o \in WithOptions THEN Options \o Decomposition \o <<"MPI_Info creation">> ELSE <<>>
<1>2. Segment(o, first, "descriptor", last, {})
  <2>1. CASE o \in Collection
    <3> DEFINE members == <<"descriptor", "collection members", "collection preparation",
                            "collection descriptor", "collection descriptor allocation",
                            "collection descriptor gather">>
               layout == <<"collection decomposition preparation", "collection decomposition length",
                           "collection decomposition allocation", "collection decomposition gather">>
               staged == <<"collection staging", "combined descriptor">>
    <3>1. EarlyPart(members, "descriptor", "collection descriptor gather")
      BY <1>1, EarlyTuples
    <3>2. EarlyPart(layout, "collection decomposition preparation", "collection decomposition gather")
      BY <1>1, EarlyTuples
    <3>3. EarlyPart(staged, "collection staging", "combined descriptor")
      BY <1>1, EarlyPair
    <3>4. CollectionPreparation = members \o layout \o staged
      BY DEF CollectionPreparation
    <3> HIDE DEF members, layout, staged
    <3>5. Segment(o, members \o layout, "descriptor", "collection decomposition gather", {})
      BY <1>1, <3>1, <3>2, JoinEarly
    <3>6. Segment(o, members \o layout \o staged, "descriptor", "combined descriptor", {})
      BY <1>1, <3>3, <3>5, JoinEarly
    <3> QED BY <2>1, <3>4, <3>6
  <2>2. CASE o \notin Collection
    <3>1. EarlyPart(<<"descriptor">>, "descriptor", "descriptor")
      BY <1>1, EarlyPair
    <3> QED BY <2>2, <3>1
  <2> QED BY <2>1, <2>2
<1>3. Segment(o, second, "descriptor allocation", "path preparation", {})
  <2>1. EarlyPart(second, "descriptor allocation", "path preparation")
    BY <1>1, EarlyTuples
  <2> QED BY <2>1
<1>4. last \in EarlyPlace
  BY <1>1
<1> HIDE DEF first, second, last
<1>5. Segment(o, first \o second, "descriptor", "path preparation", {})
  BY <1>1, <1>2, <1>3, <1>4, JoinEarly
<1>6. Segment(o, first \o second \o third, "descriptor",
              IF o \in WithOptions THEN "MPI_Info creation" ELSE "path preparation", {})
  <2>1. CASE o \in WithOptions
    <3>1. EarlyPart(Options, "options preparation", "options gather")
      BY <1>1, EarlyTuples DEF Options
    <3>2. EarlyPart(Decomposition, "decomposition preparation", "decomposition gather")
      BY <1>1, EarlyTuples DEF Decomposition
    <3>3. EarlyPart(<<"MPI_Info creation">>, "MPI_Info creation", "MPI_Info creation")
      BY <1>1, EarlyPair
    <3>4. Segment(o, Options \o Decomposition, "options preparation", "decomposition gather", {})
      BY <1>1, <3>1, <3>2, JoinEarly
    <3>5. Segment(o, third, "options preparation", "MPI_Info creation", {})
      BY <1>1, <2>1, <3>3, <3>4, JoinEarly
    <3> HIDE DEF third
    <3>6. Segment(o, first \o second \o third, "descriptor", "MPI_Info creation", {})
      BY <1>1, <1>5, <3>5, JoinEarly
    <3> QED BY <2>1, <3>6
  <2>2. CASE o \notin WithOptions
    <3>1. first \o second \in Seq(AnyPlace)
      BY <1>5 DEF Segment
    <3>2. (first \o second) \o <<>> = first \o second
      BY <3>1
    <3> QED BY <1>5, <2>2, <3>2
  <2> QED BY <2>1, <2>2
<1>7. EarlyPart(<<"local preparation">>, "local preparation", "local preparation")
  BY <1>1, EarlyPair
<1>8. Preparation(o) = first \o second \o third \o <<"local preparation">>
  BY DEF Preparation, first, second
<1> HIDE DEF third
<1> DEFINE before == IF o \in WithOptions THEN "MPI_Info creation" ELSE "path preparation"
<1>9. before \in EarlyPlace /\ Segment(o, first \o second \o third, "descriptor", before, {})
  BY <1>1, <1>6
<1> HIDE DEF before
<1>10. Segment(o, <<"local preparation">>, "local preparation", "local preparation", {})
  BY <1>7
<1>11. Segment(o, first \o second \o third \o <<"local preparation">>, "descriptor", "local preparation", {})
  BY <1>1, <1>9, <1>10, JoinEarly
<1> QED BY <1>8, <1>11

(* The places T are in the script s of o, and end is its end from d on. *)
Covered(o, s, T) == \E U : Segment(o, s, "descriptor", "return", U) /\ T \subseteq U
Ending(o, end, d) == \E U : Segment(o, end, d, "return", U)

(* The script of an operation that opens a file, from its parts. *)
LEMMA WholeSegment ==
  ASSUME NEW o, o \notin Void, NEW before, NEW body, NEW end, NEW a, NEW b, NEW c, NEW d, NEW T,
         a \in EarlyPlace, Segment(o, before, "descriptor", a, {}),
         Leads(o, "file handler", b), Segment(o, body, b, c, T), Leads(o, c, "datatype free"),
         Leads(o, "communicator free", d), Ending(o, end, d)
  PROVE  Covered(o, before \o Opening \o body \o Closing \o end, T \union ClosingPlace)
<1> DEFINE closing == {"datatype free", "file close", "communicator free"}
<1>1. Leads(o, a, "MPI_Comm_dup")
  BY DEF Leads
<1>2. PICK S : Segment(o, Opening, "MPI_Comm_dup", "file handler", S)
  BY OpeningSegment
<1> DEFINE V == {} \union S
<1>3. Segment(o, before \o Opening, "descriptor", "file handler", V)
  BY <1>1, <1>2, Join
<1> HIDE DEF V
<1>4. Segment(o, before \o Opening \o body, "descriptor", c, V \union T)
  BY <1>3, Join
<1>5. Segment(o, Closing, "datatype free", "communicator free", closing)
  BY ClosingSegment
<1>6. Segment(o, before \o Opening \o body \o Closing, "descriptor", "communicator free",
              (V \union T) \union closing)
  BY <1>4, <1>5, Join
<1>7. PICK W : Segment(o, end, d, "return", W)
  BY DEF Ending
<1>8. Segment(o, before \o Opening \o body \o Closing \o end, "descriptor", "return",
              ((V \union T) \union closing) \union W)
  BY <1>6, <1>7, Join
<1>9. T \union ClosingPlace \subseteq ((V \union T) \union closing) \union W
  BY DEF ClosingPlace
<1> QED BY <1>8, <1>9 DEF Covered

(* The places of a script that exits lead to. *)
ExitPlaces(o) ==
  (IF o \in Void THEN {} ELSE ClosingPlace)
    \union (IF o = "read_mpi_catalog" THEN {"catalog validation"} ELSE {})

LEMMA ScriptSegment ==
  ASSUME NEW o \in KnownOperation
  PROVE  Covered(o, Script(o), ExitPlaces(o))
<1>0. KnownOperation \subseteq Writing \union ReadOp \union Void \union {"read_mpi_catalog", "read_mpi_raw"}
  BY DEF KnownOperation, Writing, WithOptions, Collection, Void, ReadOp
<1>1. CASE o \in Void
  <2>1. Script(o) = <<"descriptor", "return">>
    BY <1>1 DEF Script, Void
  <2>2. Segment(o, <<"descriptor", "return">>, "descriptor", "return", {"descriptor", "return"})
    BY <1>1, VoidSegment
  <2>3. ExitPlaces(o) \subseteq {"descriptor", "return"}
    BY <1>1 DEF ExitPlaces, Void
  <2> QED BY <2>1, <2>2, <2>3 DEF Covered
<1>2. CASE o = "read_mpi_catalog"
  <2> DEFINE before == <<"descriptor", "path validity", "path length", "path bytes">>
             body == <<"file size", "catalog size", "catalog prefix allocation", "catalog prefix read",
                       "catalog header allocation", "catalog header read", "catalog validation">>
             read == {"file size", "catalog size", "catalog prefix allocation", "catalog prefix read",
                      "catalog header allocation", "catalog header read", "catalog validation"}
  <2>0. o \notin Void /\ o \notin Writing /\ o \notin ReadOp
    BY <1>2 DEF Void, Writing, ReadOp
  <2>1. Script(o) = before \o Opening \o body \o Closing \o <<"return">>
    BY <1>2, <2>0 DEF Script, CatalogScript
  <2>2. {"path validity", "path length", "path bytes"} \subseteq Prepared
          /\ {"descriptor", "path bytes"} \subseteq EarlyPlace
    BY DEF Prepared, EarlyPlace
  <2>3. EarlyPart(before, "descriptor", "path bytes")
    BY <2>2, EarlyTuples
  <2>4. Segment(o, before, "descriptor", "path bytes", {})
    BY <2>0, <2>3, EarlySegment
  <2>5. Segment(o, body, "file size", "catalog validation", read)
    BY <1>2, CatalogSegment
  <2>6. /\ Leads(o, "file handler", "file size") /\ Leads(o, "catalog validation", "datatype free")
        /\ Leads(o, "communicator free", "return")
    BY <1>2, <2>0 DEF Leads
  <2>7. Ending(o, <<"return">>, "return")
    BY <2>0, ReturnSegment DEF Ending
  <2>8. "path bytes" \in EarlyPlace
    BY <2>2
  <2> HIDE DEF before, body, read
  <2>9. Covered(o, before \o Opening \o body \o Closing \o <<"return">>, read \union ClosingPlace)
    BY <2>0, <2>4, <2>5, <2>6, <2>7, <2>8, WholeSegment
  <2>10. ExitPlaces(o) \subseteq read \union ClosingPlace
    BY DEF ExitPlaces, read
  <2> QED BY <2>1, <2>9, <2>10 DEF Covered
<1>3. CASE o = "read_mpi_raw"
  <2> DEFINE first == <<"descriptor", "descriptor allocation", "descriptor gather">>
             info == <<"raw preparation", "MPI_Info creation">>
             before == first \o Decomposition \o Options \o info
             body == <<"raw file size", "datatype", "file view", "payload read", "physical staging">>
             read == {"raw file size", "datatype", "file view", "payload read", "physical staging"}
             end == <<"post cleanup", "return">>
  <2>0. o \notin Void /\ o \notin Writing /\ o \notin ReadOp /\ o # "read_mpi_catalog"
    BY <1>3 DEF Void, Writing, ReadOp
  <2>1. Script(o) = before \o Opening \o body \o Closing \o end
    BY <1>3, <2>0 DEF Script, RawScript
  <2>2. /\ {"descriptor allocation", "descriptor gather", "raw preparation", "MPI_Info creation"} \subseteq Prepared
        /\ {"options preparation", "options length", "options allocation", "options gather"} \subseteq Prepared
        /\ {"decomposition preparation", "decomposition length", "decomposition allocation",
            "decomposition gather"} \subseteq Prepared
        /\ Prepared \subseteq EarlyPlace /\ "descriptor" \in EarlyPlace
    BY DEF Prepared, EarlyPlace
  <2>3. Segment(o, before, "descriptor", "MPI_Info creation", {})
    <3>1. EarlyPart(first, "descriptor", "descriptor gather")
      BY <2>2, EarlyTuples
    <3>2. EarlyPart(Decomposition, "decomposition preparation", "decomposition gather")
      BY <2>2, EarlyTuples DEF Decomposition
    <3>3. EarlyPart(Options, "options preparation", "options gather")
      BY <2>2, EarlyTuples DEF Options
    <3>4. EarlyPart(info, "raw preparation", "MPI_Info creation")
      BY <2>2, EarlyPair
    <3> HIDE DEF first, info
    <3>5. /\ Segment(o, first, "descriptor", "descriptor gather", {})
          /\ Segment(o, Decomposition, "decomposition preparation", "decomposition gather", {})
          /\ Segment(o, Options, "options preparation", "options gather", {})
          /\ Segment(o, info, "raw preparation", "MPI_Info creation", {})
      BY <2>0, <3>1, <3>2, <3>3, <3>4, EarlySegment
    <3>6. Segment(o, first \o Decomposition, "descriptor", "decomposition gather", {})
      BY <2>0, <2>2, <3>5, JoinEarly
    <3>7. Segment(o, first \o Decomposition \o Options, "descriptor", "options gather", {})
      BY <2>0, <2>2, <3>5, <3>6, JoinEarly
    <3> QED BY <2>0, <2>2, <3>5, <3>7, JoinEarly
  <2>4. Segment(o, body, "raw file size", "physical staging", read)
    BY <1>3, RawSegment
  <2>5. /\ Leads(o, "file handler", "raw file size") /\ Leads(o, "physical staging", "datatype free")
        /\ Leads(o, "communicator free", "post cleanup")
    BY <1>3, <2>0 DEF Leads
  <2>6. Ending(o, end, "post cleanup")
    BY <2>0, EndSegment DEF Ending
  <2>7. "MPI_Info creation" \in EarlyPlace
    BY <2>2
  <2> HIDE DEF before, body, read, end
  <2>8. Covered(o, before \o Opening \o body \o Closing \o end, read \union ClosingPlace)
    BY <2>0, <2>3, <2>4, <2>5, <2>6, <2>7, WholeSegment
  <2>9. ExitPlaces(o) \subseteq ClosingPlace
    BY <2>0 DEF ExitPlaces
  <2> QED BY <2>1, <2>8, <2>9 DEF Covered
<1>4. CASE o \in Writing \union ReadOp
  <2> DEFINE end == <<"post cleanup", "return">>
  <2>0. o \notin Void /\ o # "read_mpi_catalog" /\ o # "read_mpi_raw" /\ (o \in ReadOp => o \notin Writing)
    BY <1>4 DEF Void, Writing, ReadOp
  <2>1. Segment(o, Preparation(o), "descriptor", "local preparation", {})
    BY <2>0, PreparationSegment
  <2>2. Ending(o, end, "post cleanup")
    BY <2>0, EndSegment DEF Ending
  <2>3. "local preparation" \in EarlyPlace
    BY DEF EarlyPlace
  <2>4. Leads(o, "communicator free", "post cleanup")
    BY <2>0 DEF Leads
  <2>5. ExitPlaces(o) \subseteq ClosingPlace
    BY <2>0 DEF ExitPlaces
  <2>6. CASE o \in Writing
    <3> DEFINE writes == {"header write", "header flush", "datatype", "file view", "payload write",
                          "payload flush", "payload size", "marker view", "marker write", "marker flush"}
    <3>1. Script(o) = Preparation(o) \o Opening \o Writes \o Closing \o end
      BY <2>0, <2>6 DEF Script
    <3>2. Segment(o, Writes, "header write", "marker flush", writes)
      BY <2>6, WritesSegment
    <3>3. Leads(o, "file handler", "header write") /\ Leads(o, "marker flush", "datatype free")
      BY <2>6 DEF Leads
    <3> HIDE DEF writes, end
    <3>4. Covered(o, Preparation(o) \o Opening \o Writes \o Closing \o end, writes \union ClosingPlace)
      BY <2>0, <2>1, <2>2, <2>3, <2>4, <3>2, <3>3, WholeSegment
    <3> QED BY <2>5, <3>1, <3>4 DEF Covered
  <2>7. CASE o \in ReadOp
    <3> DEFINE tail == <<"datatype", "file view", "payload read", "physical staging">>
    <3>1. Script(o) = Preparation(o) \o Opening \o Reads \o Closing \o end
      BY <2>0, <2>7 DEF Script
    <3>2. PICK T : Segment(o, Reads, "file size", "physical staging", T)
      <4>1. Leads(o, "metadata validation", "datatype")
        BY <2>7 DEF Leads, SeenPlace
      <4>2. PICK S : Segment(o, ReadingHeader, "file size", "metadata validation", S)
        BY <2>7, HeaderSegment
      <4>3. PICK S2 : Segment(o, tail, "datatype", "physical staging", S2)
        BY <2>7, PayloadSegment
      <4>4. Reads = ReadingHeader \o tail
        BY DEF Reads
      <4> HIDE DEF tail
      <4>5. Segment(o, ReadingHeader \o tail, "file size", "physical staging", S \union S2)
        BY <4>1, <4>2, <4>3, Join
      <4> QED BY <4>4, <4>5
    <3>3. Leads(o, "file handler", "file size") /\ Leads(o, "physical staging", "datatype free")
      BY <2>0, <2>7 DEF Leads
    <3> HIDE DEF end
    <3>4. Covered(o, Preparation(o) \o Opening \o Reads \o Closing \o end, T \union ClosingPlace)
      BY <2>0, <2>1, <2>2, <2>3, <2>4, <3>2, <3>3, WholeSegment
    <3> QED BY <2>5, <3>1, <3>4 DEF Covered
  <2> QED BY <1>4, <2>6, <2>7
<1> QED BY <1>0, <1>1, <1>2, <1>3, <1>4

(* What the places of a script are, and which follows which. *)
LEMMA PlacesOf ==
  ASSUME NEW o \in KnownOperation
  PROVE  /\ "descriptor" \in Places(o) /\ ExitPlaces(o) \subseteq Places(o)
         /\ \A p \in Places(o) : Fits(o, p)
         /\ \A p \in Places(o) \ {"return"} :
              NextPlace(o, p) \in Places(o) /\ Leads(o, p, NextPlace(o, p))
<1> DEFINE s == Script(o)
           n == Len(s)
<1>1. PICK U : Segment(o, s, "descriptor", "return", U) /\ ExitPlaces(o) \subseteq U
  BY ScriptSegment DEF Covered
<1>2. /\ s \in Seq(AnyPlace) /\ n \in Nat /\ n >= 1 /\ s[1] = "descriptor" /\ s[n] = "return"
      /\ \A i \in 1..n : Fits(o, s[i])
      /\ \A i \in 1..(n - 1) : Leads(o, s[i], s[i + 1])
      /\ \A x \in U : \E i \in 1..n : s[i] = x
      /\ DOMAIN s = 1..n
  BY <1>1 DEF Segment
<1>3. Places(o) = {s[i] : i \in 1..n}
  BY <1>2 DEF Places
<1>4. ASSUME NEW p \in Places(o) \ {"return"}
      PROVE  NextPlace(o, p) \in Places(o) /\ Leads(o, p, NextPlace(o, p))
  <2> DEFINE i == CHOOSE i \in DOMAIN s : s[i] = p
  <2>1. \E j \in DOMAIN s : s[j] = p
    BY <1>2, <1>3
  <2>2. i \in 1..n /\ s[i] = p
    BY <1>2, <2>1
  <2>3. NextPlace(o, p) = s[i + 1]
    BY DEF NextPlace, Successor
  <2> HIDE DEF i, s, n
  <2>4. i # n /\ n \in Nat
    BY <1>2, <2>2
  <2>5. i \in 1..(n - 1) /\ i + 1 \in 1..n
    BY <2>2, <2>4
  <2> QED BY <1>2, <1>3, <2>2, <2>3, <2>5
<1> HIDE DEF s, n
<1>5. "descriptor" \in Places(o)
  <2>1. 1 \in 1..n
    BY <1>2
  <2> QED BY <1>2, <1>3, <2>1
<1>6. ExitPlaces(o) \subseteq Places(o)
  BY <1>1, <1>2, <1>3
<1>7. \A p \in Places(o) : Fits(o, p)
  BY <1>2, <1>3
<1> QED BY <1>4, <1>5, <1>6, <1>7

----------------------------------------------------------------------------
(* Decisions.                                                              *)

LEMMA WordsFinite ==
  ASSUME NEW r \in Rank
  PROVE  IsFiniteSet(Words(r)) /\ IsFiniteSet(WordsBefore(r))
<1> DEFINE f == [q \in Rank |-> WordOf(q, r)]
           g == [q \in Rank |-> log[q][2 + Ahead(q, r)].word]
<1>1. f \in Surjection(Rank, Words(r)) /\ g \in Surjection(Rank, WordsBefore(r))
  BY DEF Words, WordsBefore, Surjection
<1> HIDE DEF f, g
<1> QED BY <1>1, RankAssumption, FS_Surjection, Zenon

(* A set of words lets a call go on when it has one word, a good one. *)
LEMMA AgreedMeans ==
  ASSUME NEW ws, IsFiniteSet(ws)
  PROVE  AgreedWords(ws) <=>
           \E x : ws = {x} /\ x \notin {"failed", "limit", "first", "second"} \union Void
<1>1. Cardinality(ws) = 1 <=> \E x : ws = {x}
  BY FS_Singleton
<1> QED BY <1>1 DEF AgreedWords

Decisive == StatePlace \union ClosingPlace \union WriteStep
  \union {"MPI_Comm_dup", "handler restoration", "prefix validation", "catalog validation",
          "payload size"}

LEMMA VocabularyOf ==
  ASSUME NEW p
  PROVE  /\ p \in Decisive => Vocabulary(p) = {"ok", "failed"}
         /\ "limit" \in Vocabulary(p) =>
              p \in {"path preparation", "collection preparation", "raw preparation"}
<1>1. ASSUME p \in Decisive PROVE Vocabulary(p) = {"ok", "failed"}
  <2>1. p \notin {"path preparation", "collection preparation", "raw preparation", "collection members",
                  "post cleanup", "combined descriptor", "descriptor"}
    BY <1>1 DEF Decisive, StatePlace, ClosingPlace, WriteStep
  <2>2. p \notin Comparing
    BY <1>1 DEF Decisive, StatePlace, ClosingPlace, WriteStep, Comparing
  <2>3. BadWords(p) = {"failed"}
    BY <2>1, <2>2 DEF BadWords
  <2> QED BY <2>1, <2>3 DEF Vocabulary
<1>2. ASSUME "limit" \in Vocabulary(p), p \notin {"path preparation", "collection preparation", "raw preparation"}
      PROVE  FALSE
  <2>1. "limit" \notin KnownOperation \union {"failed"}
    BY DEF KnownOperation, Writing, WithOptions, Collection, Void
  <2>2. p \notin {"descriptor", "post cleanup"}
    <3>1. CASE p = "descriptor"
      <4>1. Vocabulary(p) = KnownOperation \union {"failed"}
        BY <3>1 DEF Vocabulary
      <4> QED BY <1>2, <2>1, <4>1
    <3>2. CASE p = "post cleanup"
      <4>1. Vocabulary(p) = {"ok", "failed"}
        BY <3>2 DEF Vocabulary
      <4> QED BY <1>2, <4>1
    <3> QED BY <3>1, <3>2
  <2>3. "limit" \in BadWords(p)
    BY <1>2, <2>2 DEF Vocabulary
  <2>4. p = "collection members" \/ p \in Comparing => p # "combined descriptor"
    BY DEF Comparing
  <2>5. "collection members" \notin Comparing
    BY DEF Comparing
  <2> QED BY <1>2, <2>2, <2>3, <2>4, <2>5 DEF BadWords
<1> QED BY <1>1, <1>2

(* All words of a reduction are words of its place. *)
LEMMA WordsTyped ==
  ASSUME LogInv, LogsMatch, WordsFit, NEW r \in Rank, PlaceInv(r), Busy(r), Complete(r)
  PROVE  /\ Words(r) \subseteq Vocabulary(place[r])
         /\ place[r] = "handler restoration" => WordsBefore(r) \subseteq {"ok", "failed"}
<1>0. LogType /\ LogClose
  BY DEF LogInv
<1>1. /\ Len(log[r]) >= 1 /\ log[r][1].place = place[r]
      /\ place[r] = "handler restoration" => Len(log[r]) >= 2 /\ log[r][2].place = "MPI_Comm_dup"
  BY DEF PlaceInv, Own
<1>2. ASSUME NEW q \in Rank
      PROVE  /\ WordOf(q, r) \in Vocabulary(place[r])
             /\ place[r] = "handler restoration" => log[q][2 + Ahead(q, r)].word \in {"ok", "failed"}
  <2>1. Ahead(q, r) \in {0, 1}
    BY DEF Complete
  <2>2. \A i \in 1..Len(log[q]) : log[q][i].word \in Vocabulary(log[q][i].place)
    BY DEF WordsFit
  <2>3. Vocabulary("MPI_Comm_dup") = {"ok", "failed"}
    BY VocabularyOf DEF Decisive
  <2>4. 1 + Ahead(q, r) \in 1..Len(log[q]) /\ log[q][1 + Ahead(q, r)].place = place[r]
    BY <1>1, <2>1, MatchingEntries
  <2>5. WordOf(q, r) \in Vocabulary(place[r])
    BY <2>2, <2>4 DEF WordOf
  <2>6. ASSUME place[r] = "handler restoration"
        PROVE  log[q][2 + Ahead(q, r)].word \in {"ok", "failed"}
    <3>1. 2 + Ahead(q, r) \in 1..Len(log[q]) /\ log[q][2 + Ahead(q, r)].place = "MPI_Comm_dup"
      BY <1>1, <2>1, <2>6, MatchingEntries
    <3>2. log[q][2 + Ahead(q, r)].word \in Vocabulary("MPI_Comm_dup")
      BY <2>2, <3>1
    <3> QED BY <2>3, <3>2
  <2> QED BY <2>5, <2>6
<1> QED BY <1>2 DEF Words, WordsBefore

(* The words of a reduction by which it is decided. *)
LEMMA WordsDecide ==
  ASSUME LogInv, LogsMatch, WordsFit, NEW r \in Rank, PlaceInv(r), Busy(r), Complete(r)
  PROVE  /\ place[r] \in Decisive =>
              /\ Words(r) \in {{"ok"}, {"failed"}, {"ok", "failed"}}
              /\ AgreedWords(Words(r)) <=> Words(r) = {"ok"}
         /\ place[r] = "handler restoration" =>
              /\ WordsBefore(r) \in {{"ok"}, {"failed"}, {"ok", "failed"}}
              /\ AgreedWords(WordsBefore(r)) <=> WordsBefore(r) = {"ok"}
<1>1. /\ Words(r) \subseteq Vocabulary(place[r])
      /\ place[r] = "handler restoration" => WordsBefore(r) \subseteq {"ok", "failed"}
  BY WordsTyped
<1>2. place[r] \in Decisive => Vocabulary(place[r]) = {"ok", "failed"}
  BY VocabularyOf
<1>3. Own(r).word \in Words(r) /\ log[r][2].word \in WordsBefore(r)
  BY OwnWord DEF LogInv
<1>4. ASSUME NEW ws, ws \subseteq {"ok", "failed"}, ws # {}, IsFiniteSet(ws)
      PROVE  ws \in {{"ok"}, {"failed"}, {"ok", "failed"}} /\ (AgreedWords(ws) <=> ws = {"ok"})
  <2>1. ws \in {{"ok"}, {"failed"}, {"ok", "failed"}}
    BY <1>4
  <2>2. AgreedWords(ws) <=> \E x : ws = {x} /\ x \notin {"failed", "limit", "first", "second"} \union Void
    BY <1>4, AgreedMeans
  <2>3. "ok" \notin Void
    BY DEF Void
  <2> QED BY <2>1, <2>2, <2>3
<1>5. IsFiniteSet(Words(r)) /\ IsFiniteSet(WordsBefore(r)) /\ Words(r) # {} /\ WordsBefore(r) # {}
  BY <1>3, WordsFinite
<1>6. ASSUME place[r] \in Decisive
      PROVE  /\ Words(r) \in {{"ok"}, {"failed"}, {"ok", "failed"}}
             /\ AgreedWords(Words(r)) <=> Words(r) = {"ok"}
  <2>1. Words(r) \subseteq {"ok", "failed"}
    BY <1>1, <1>2, <1>6
  <2> QED BY <1>4, <1>5, <2>1, Zenon
<1>7. ASSUME place[r] = "handler restoration"
      PROVE  /\ WordsBefore(r) \in {{"ok"}, {"failed"}, {"ok", "failed"}}
             /\ AgreedWords(WordsBefore(r)) <=> WordsBefore(r) = {"ok"}
  <2>1. WordsBefore(r) \subseteq {"ok", "failed"}
    BY <1>1, <1>7
  <2> QED BY <1>4, <1>5, <2>1, Zenon
<1> QED BY <1>6, <1>7

(* A rank that does not stop: what its words mean at the decisive places. *)
LEMMA Decision ==
  ASSUME LogInv, LogsMatch, WordsFit, NEW r \in Rank, PlaceInv(r), Busy(r), Complete(r),
         ~ MustAbort(r)
  PROVE  /\ place[r] \in ClosingPlace => ~ Refused(r) /\ Own(r).word = "ok"
         /\ place[r] \in Decisive /\ ~ Refused(r) /\ place[r] # "MPI_Comm_dup" =>
              Own(r).word = "ok" /\ Words(r) = {"ok"}
         /\ place[r] \in StatePlace /\ Refused(r) => Own(r).word = "failed"
         /\ place[r] = "handler restoration" =>
              IF Refused(r) THEN log[r][2].word = "failed" ELSE log[r][2].word = "ok"
<1>1. Own(r).word \in Words(r) /\ log[r][2].word \in WordsBefore(r)
  BY OwnWord DEF LogInv
<1>2. /\ place[r] \in Decisive =>
            /\ Words(r) \in {{"ok"}, {"failed"}, {"ok", "failed"}}
            /\ AgreedWords(Words(r)) <=> Words(r) = {"ok"}
      /\ place[r] = "handler restoration" =>
            /\ WordsBefore(r) \in {{"ok"}, {"failed"}, {"ok", "failed"}}
            /\ AgreedWords(WordsBefore(r)) <=> WordsBefore(r) = {"ok"}
  BY WordsDecide
<1>3. place[r] \in Decisive \ {"MPI_Comm_dup"} => (Refused(r) <=> ~ Agreed(r))
  BY DEF Decisive, StatePlace, ClosingPlace, WriteStep, Refused, Malformed
<1>4. ASSUME place[r] \in ClosingPlace PROVE ~ Refused(r) /\ Own(r).word = "ok"
  <2>1. place[r] \in Decisive \ {"MPI_Comm_dup", "handler restoration"}
    BY <1>4 DEF Decisive, ClosingPlace
  <2>2. "failed" \notin Words(r)
    BY <1>4 DEF MustAbort
  <2>3. Words(r) = {"ok"}
    BY <1>2, <2>1, <2>2
  <2> QED BY <1>1, <1>2, <1>3, <2>1, <2>3 DEF Agreed
<1>5. ASSUME place[r] \in Decisive, ~ Refused(r), place[r] # "MPI_Comm_dup"
      PROVE  Own(r).word = "ok" /\ Words(r) = {"ok"}
  <2>1. AgreedWords(Words(r))
    BY <1>3, <1>5 DEF Agreed
  <2> QED BY <1>1, <1>2, <1>5, <2>1
<1>6. ASSUME place[r] \in StatePlace, Refused(r) PROVE Own(r).word = "failed"
  <2>1. place[r] \in Decisive \ {"MPI_Comm_dup", "handler restoration"}
    BY <1>6 DEF Decisive, StatePlace
  <2>2. ~ AgreedWords(Words(r))
    BY <1>3, <1>6, <2>1 DEF Agreed
  <2>3. ~ ({"ok", "failed"} \subseteq Words(r))
    BY <1>6 DEF MustAbort
  <2>4. Words(r) = {"failed"}
    BY <1>2, <2>1, <2>2, <2>3
  <2> QED BY <1>1, <2>4
<1>7. ASSUME place[r] = "handler restoration"
      PROVE  IF Refused(r) THEN log[r][2].word = "failed" ELSE log[r][2].word = "ok"
  <2>1. place[r] \in Decisive \ {"MPI_Comm_dup"}
    BY <1>7 DEF Decisive
  <2>2. ~ ({"ok", "failed"} \subseteq WordsBefore(r)) /\ "failed" \notin Words(r)
    BY <1>7 DEF MustAbort
  <2>3. Words(r) = {"ok"} /\ AgreedWords(Words(r))
    BY <1>2, <2>1, <2>2
  <2>4. Refused(r) <=> WordsBefore(r) # {"ok"}
    BY <1>2, <1>3, <1>7, <2>1, <2>3 DEF Agreed
  <2>5. WordsBefore(r) \in {{"ok"}, {"failed"}}
    BY <1>2, <1>7, <2>2
  <2> QED BY <1>1, <2>4, <2>5
<1> QED BY <1>4, <1>5, <1>6, <1>7

(* Where a refused rank goes. *)
LEMMA Exits ==
  ASSUME LogInv, LogsMatch, WordsFit, NEW r \in Rank, PlaceInv(r), HeldInv(r), place[r] \in AnyPlace,
         Busy(r), Complete(r), ~ MustAbort(r), Refused(r)
  PROVE  place[r] \notin ClosingPlace /\ Target(r) = Exit(op[r], place[r])
<1> DEFINE p == place[r]
<1>1. /\ p \notin ClosingPlace
      /\ p = "MPI_File_open" => Own(r).word = "failed"
      /\ p = "handler restoration" => log[r][2].word = "failed"
  BY Decision DEF StatePlace
<1>2. p # "MPI_Comm_dup" /\ p # "return"
  BY DEF Refused, PlaceInv
<1>3. InCatalog(r) <=> p \in Cataloguing \/ (p = "file size" /\ op[r] = "read_mpi_catalog")
  BY DEF InCatalog
<1>4. Target(r) = IF InCatalog(r) THEN "catalog validation"
                  ELSE IF "file" \in held[r] THEN "datatype free"
                  ELSE IF "communicator" \in held[r] THEN "communicator free" ELSE "return"
  BY <1>1 DEF Target, ClosingPlace
<1>5. CASE p \in EarlyPlace \union {"post cleanup"}
  <2>1. held[r] = {}
    BY <1>5 DEF HeldInv
  <2>2. p \notin Cataloguing \union {"file size"} \union MidPlace \union PastPlace
                \union {"datatype", "communicator handler", "MPI_File_open"}
    BY <1>5 DEF EarlyPlace, Cataloguing, MidPlace, PastPlace, UnseenPlace, SeenPlace, UnseenCatalog, SeenCatalog
  <2> QED BY <1>1, <1>3, <1>4, <2>1, <2>2 DEF Exit
<1>6. CASE p = "handler restoration"
  <2>1. held[r] = {}
    BY <1>1, <1>6 DEF HeldInv
  <2>2. p \notin Cataloguing \union {"file size"} \union MidPlace \union PastPlace
                \union {"datatype", "communicator handler", "MPI_File_open"}
    BY <1>6 DEF EarlyPlace, Cataloguing, MidPlace, PastPlace, UnseenPlace, SeenPlace, UnseenCatalog, SeenCatalog
  <2> QED BY <1>1, <1>3, <1>4, <2>1, <2>2 DEF Exit
<1>7. CASE p \in {"communicator handler", "MPI_File_open"}
  <2>1. held[r] = {"communicator"}
    BY <1>1, <1>7 DEF HeldInv
  <2>2. p \notin Cataloguing \union {"file size"} \union MidPlace \union PastPlace \union {"datatype"}
    BY <1>7 DEF Cataloguing, MidPlace, PastPlace, UnseenPlace, SeenPlace, UnseenCatalog, SeenCatalog
  <2> QED BY <1>1, <1>3, <1>4, <1>7, <2>1, <2>2 DEF Exit
<1>8. CASE p \in MidPlace \union PastPlace \union {"datatype"}
  <2>1. "file" \in held[r]
    BY <1>8 DEF HeldInv
  <2> QED BY <1>1, <1>3, <1>4, <1>8, <2>1 DEF Exit
<1> QED BY <1>1, <1>2, <1>5, <1>6, <1>7, <1>8 DEF AnyPlace

(* The error of a refused reduction as all ranks see it. *)
ErrorKind(ws, p, o) ==
  IF "limit" \in ws THEN "SizeLimit"
  ELSE IF p = "descriptor" /\ ws = {o} THEN "Empty"
  ELSE IF p = "collection members"
       THEN IF "first" \in ws THEN "Incompatible first" ELSE "Incompatible second"
       ELSE "error"

(* Places of a write before the marker. *)
BeforeMarker == {"header write", "header flush", "datatype", "file view", "payload write",
                 "payload flush", "payload size", "marker view"}

ErrorFact ==
  \A r \in Rank : Words(r) \subseteq Vocabulary(place[r]) =>
    /\ Error(r) \in Result \ {"none", "ok"}
    /\ Kind(Error(r)) = ErrorKind(Words(r), place[r], op[r])
    /\ Error(r) = "WriteIncomplete" => op[r] \in Writing /\ place[r] \in BeforeMarker

LEMMA WriteErrors ==
  ASSUME NEW r \in Rank
  PROVE  /\ WriteError(r) \in {"WriteIncomplete", "CommitUncertain", "LocalError", "CollectivePrecondition"}
         /\ WriteError(r) = "WriteIncomplete" => place[r] \in BeforeMarker
<1> DEFINE p == place[r]
           own == LocalOr(r, "WriteIncomplete", "CollectivePrecondition")
<1>0. /\ own \in {"WriteIncomplete", "CollectivePrecondition"}
      /\ LocalOr(r, "CommitUncertain", "CollectivePrecondition") \in {"CommitUncertain", "CollectivePrecondition"}
      /\ LocalOr(r, "LocalError", "CollectivePrecondition") \in {"LocalError", "CollectivePrecondition"}
  BY DEF LocalOr
<1> HIDE DEF own
<1>1. CASE p \in {"header write", "payload write", "payload size", "datatype"}
  BY <1>1 DEF WriteError, BeforeMarker
<1>2. CASE p \in {"header flush", "file view", "payload flush", "marker view"}
  BY <1>0, <1>2 DEF WriteError, BeforeMarker, own
<1>3. CASE p = "marker write"
  BY <1>3 DEF WriteError
<1>4. CASE p = "marker flush"
  BY <1>0, <1>4 DEF WriteError
<1>5. CASE p \notin BeforeMarker \union {"marker write", "marker flush"}
  BY <1>0, <1>5 DEF WriteError, BeforeMarker
<1> QED BY <1>1, <1>2, <1>3, <1>4, <1>5 DEF BeforeMarker

LEMMA ReadErrors ==
  ASSUME NEW r \in Rank
  PROVE  ReadError(r) \in {"InvalidFile", "IncompleteFile", "LocalError", "CollectivePrecondition"}
<1> DEFINE p == place[r]
           others == {"prefix read", "header read", "datatype", "payload read",
                     "catalog prefix allocation", "catalog prefix read",
                     "catalog header allocation", "catalog header read"}
<1>0. /\ LocalOr(r, "InvalidFile", "CollectivePrecondition") \in {"InvalidFile", "CollectivePrecondition"}
      /\ LocalOr(r, "LocalError", "CollectivePrecondition") \in {"LocalError", "CollectivePrecondition"}
  BY DEF LocalOr
<1>1. CASE p = "size comparison"
  BY <1>1 DEF ReadError
<1>2. CASE p \in {"file size", "raw file size"}
  BY <1>0, <1>2 DEF ReadError
<1>3. CASE p \in others
  BY <1>3 DEF ReadError
<1>4. CASE p = "prefix validation" /\ file["header"] # "absent"
  BY <1>4 DEF ReadError
<1>5. CASE p \notin {"size comparison", "file size", "raw file size"} \union others
           /\ ~ (p = "prefix validation" /\ file["header"] # "absent")
  BY <1>0, <1>5 DEF ReadError
<1> QED BY <1>1, <1>2, <1>3, <1>4, <1>5

LEMMA ErrorsKnown == ErrorFact
<1> SUFFICES ASSUME NEW r \in Rank, Words(r) \subseteq Vocabulary(place[r])
             PROVE  /\ Error(r) \in Result \ {"none", "ok"}
                    /\ Kind(Error(r)) = ErrorKind(Words(r), place[r], op[r])
                    /\ Error(r) = "WriteIncomplete" => op[r] \in Writing /\ place[r] \in BeforeMarker
  BY DEF ErrorFact
<1> DEFINE p == place[r]
           special == {"handler restoration", "descriptor", "collection members", "path validity"}
           plain == {"LocalError", "CollectiveDescriptorMismatch", "Malformed", "WriteIncomplete",
                     "CommitUncertain", "InvalidFile", "IncompleteFile", "CollectivePrecondition"}
<1>1. "limit" \in Words(r) => p \in {"path preparation", "collection preparation", "raw preparation"}
  BY VocabularyOf
<1>2. \A e \in plain : e \in Result \ {"none", "ok"} /\ Kind(e) = "error"
  BY DEF Result, Kind
<1>3. p \in special => p \notin Comparing /\ ~ Malformed(r)
  BY DEF Comparing, Malformed
<1>4. CASE "limit" \in Words(r)
  <2>1. p \notin special \union Comparing /\ ~ Malformed(r)
    BY <1>1, <1>4 DEF Comparing, Malformed
  <2>2. Error(r) = "SizeLimit"
    BY <1>4, <2>1 DEF Error
  <2> QED BY <1>4, <2>2 DEF Result, Kind, ErrorKind
<1>5. CASE "limit" \notin Words(r) /\ p = "handler restoration"
  <2>1. Error(r) = "LocalError"
    BY <1>3, <1>5 DEF Error
  <2> QED BY <1>2, <1>5, <2>1 DEF ErrorKind
<1>6. CASE "limit" \notin Words(r) /\ p = "descriptor"
  <2>1. Error(r) = IF Words(r) = {op[r]} THEN "Empty"
                   ELSE IF Own(r).word = "failed" THEN "LocalError" ELSE "CollectiveDescriptorMismatch"
    BY <1>3, <1>6 DEF Error
  <2>2. CASE Words(r) = {op[r]}
    <3>1. Error(r) = "Empty" /\ ErrorKind(Words(r), p, op[r]) = "Empty"
      BY <1>6, <2>1, <2>2 DEF ErrorKind
    <3> QED BY <3>1 DEF Result, Kind
  <2>3. CASE Words(r) # {op[r]}
    <3>1. Error(r) \in {"LocalError", "CollectiveDescriptorMismatch"} /\ ErrorKind(Words(r), p, op[r]) = "error"
      BY <1>6, <2>1, <2>3 DEF ErrorKind
    <3> QED BY <1>2, <3>1
  <2> QED BY <2>2, <2>3
<1>7. CASE "limit" \notin Words(r) /\ p = "collection members"
  <2>1. Error(r) = IF "first" \in Words(r) THEN "Incompatible first" ELSE "Incompatible second"
    BY <1>3, <1>7 DEF Error
  <2>2. ErrorKind(Words(r), p, op[r]) = Error(r)
    BY <1>7, <2>1 DEF ErrorKind
  <2> QED BY <2>1, <2>2 DEF Result, Kind
<1>8. CASE "limit" \notin Words(r) /\ p = "path validity"
  <2>1. Error(r) \in {"LocalError", "CollectiveDescriptorMismatch"}
    BY <1>3, <1>8 DEF Error, LocalOr
  <2> QED BY <1>2, <1>8, <2>1 DEF ErrorKind
<1>9. CASE "limit" \notin Words(r) /\ p \notin special
  <2>1. ErrorKind(Words(r), p, op[r]) = "error"
    BY <1>9 DEF ErrorKind
  <2>2. CASE Malformed(r) /\ Agreed(r)
    <3>1. Error(r) = "Malformed"
      BY <1>9, <2>2 DEF Error
    <3> QED BY <1>2, <2>1, <3>1
  <2>3. CASE ~ (Malformed(r) /\ Agreed(r)) /\ p \in Comparing
    <3>1. Error(r) = "CollectiveDescriptorMismatch"
      BY <1>9, <2>3 DEF Error
    <3> QED BY <1>2, <2>1, <3>1
  <2>4. CASE ~ (Malformed(r) /\ Agreed(r)) /\ p \notin Comparing
    <3>1. Error(r) = IF op[r] \in Writing THEN WriteError(r) ELSE ReadError(r)
      BY <1>9, <2>4 DEF Error
    <3>2. /\ WriteError(r) \in {"WriteIncomplete", "CommitUncertain", "LocalError", "CollectivePrecondition"}
          /\ WriteError(r) = "WriteIncomplete" => p \in BeforeMarker
          /\ ReadError(r) \in {"InvalidFile", "IncompleteFile", "LocalError", "CollectivePrecondition"}
      BY WriteErrors, ReadErrors
    <3>3. Error(r) \in plain
      BY <3>1, <3>2
    <3>4. Error(r) = "WriteIncomplete" => op[r] \in Writing /\ p \in BeforeMarker
      BY <3>1, <3>2
    <3> QED BY <1>2, <2>1, <3>3, <3>4
  <2> QED BY <2>2, <2>3, <2>4
<1> QED BY <1>4, <1>5, <1>6, <1>7, <1>8, <1>9

(* The leaders' part of the invariant, for one rank. *)
RankInv(r) ==
  /\ PlaceInv(r) /\ HeldInv(r)
  /\ place[r] \in AnyPlace \union {"idle"} /\ op[r] \in KnownOperation
  /\ outcome[r] \in Result \ {"ok"} /\ result[r] \in Result /\ calls[r] \in Nat

LEMMA RankParts ==
  ASSUME ControlInv, NEW r \in Rank
  PROVE  /\ RankInv(r) /\ PlaceInv(r) /\ HeldInv(r) /\ LogInv /\ LogsMatch /\ WordsFit
         /\ LogType /\ LogClose
         /\ Busy(r) => place[r] \in AnyPlace \ {"return"} /\ Fits(op[r], place[r])
         /\ Busy(r) /\ Complete(r) => Words(r) \subseteq Vocabulary(place[r])
<1>1. RankInv(r) /\ LogInv /\ LogsMatch /\ WordsFit /\ LogType /\ LogClose
  BY DEF ControlInv, ControlType, RankInv, LogInv
<1>2. ASSUME Busy(r) PROVE place[r] \in AnyPlace \ {"return"} /\ Fits(op[r], place[r])
  <2>1. place[r] \in Places(op[r]) \ {"return"} /\ op[r] \in KnownOperation
    BY <1>1, <1>2 DEF RankInv, PlaceInv
  <2>2. Fits(op[r], place[r])
    BY <2>1, PlacesOf
  <2> QED BY <2>1, <2>2 DEF Fits
<1>3. Busy(r) /\ Complete(r) => Words(r) \subseteq Vocabulary(place[r])
  BY <1>1, WordsTyped DEF RankInv
<1> QED BY <1>1, <1>2, <1>3 DEF RankInv

(* The word of a descriptor that all agree on is the operation of all. *)
LEMMA OneOperation ==
  ASSUME ControlInv, NEW p \in Rank, NEW q \in Rank, Ahead(q, p) = 0,
         place[p] = "descriptor", place[q] = "descriptor", NEW x, Words(p) = {x}, x # "failed"
  PROVE  op[p] = x /\ op[q] = x
<1>1. Busy(p) /\ Busy(q)
  BY DEF Busy
<1>2. Own(p).word \in {op[p], "failed"} /\ Own(q).word \in {op[q], "failed"}
  BY <1>1, RankParts DEF PlaceInv
<1>3. Own(p).word \in Words(p) /\ Own(q).word \in Words(p)
  BY OwnWord, RankParts
<1> QED BY <1>2, <1>3

(* Ranks at the same reduction decide alike when it is complete. *)
LEMMA DecideAlike ==
  ASSUME ControlInv, NEW p \in Rank, NEW q \in Rank, Ahead(q, p) = 0, Busy(p), Busy(q), Complete(p)
  PROVE  /\ Complete(q) /\ place[p] = place[q]
         /\ MustAbort(p) <=> MustAbort(q)
         /\ Refused(p) <=> Refused(q)
         /\ ~ MustAbort(p) => Target(p) = Target(q)
         /\ ~ MustAbort(p) /\ Target(p) # "return" => op[p] = op[q]
         /\ Kind(Decided(p)) = Kind(Decided(q))
<1>0. LogInv /\ LogType /\ LogsMatch /\ WordsFit /\ RankInv(p) /\ RankInv(q)
  BY RankParts
<1>1. /\ place[p] = place[q]
      /\ place[p] # "descriptor" => op[p] = op[q]
      /\ Kind(outcome[p]) = Kind(outcome[q]) /\ calls[p] = calls[q]
  BY DEF ControlInv, InStep, Same
<1>2. Complete(q) /\ Words(p) = Words(q) /\ WordsBefore(p) = WordsBefore(q)
  BY <1>0, SameTurn
<1>3. MustAbort(p) <=> MustAbort(q)
  BY <1>1, <1>2 DEF MustAbort
<1>4. (Refused(p) <=> Refused(q)) /\ (Agreed(p) <=> Agreed(q))
  BY <1>1, <1>2 DEF Refused, Agreed, Malformed
<1>5. outcome[p] = "none" <=> outcome[q] = "none"
  BY <1>1 DEF Kind
<1>6. ASSUME place[p] = "descriptor", ~ Refused(p) PROVE op[p] = op[q]
  <2>1. AgreedWords(Words(p)) /\ IsFiniteSet(Words(p))
    BY <1>6, WordsFinite DEF Refused, Agreed
  <2>2. PICK x : Words(p) = {x} /\ x # "failed"
    BY <2>1, AgreedMeans
  <2> QED BY <1>1, <1>6, <2>2, OneOperation
<1>7. ASSUME ~ MustAbort(p), Refused(p)
      PROVE  Target(p) = Target(q) /\ (Target(p) # "return" => op[p] = op[q])
  <2>1. Target(p) = Exit(op[p], place[p]) /\ Target(q) = Exit(op[q], place[q])
    BY <1>0, <1>2, <1>3, <1>4, <1>7, Exits, RankParts
  <2>2. CASE place[p] = "descriptor"
    <3>1. Exit(op[p], place[p]) = "return" /\ Exit(op[q], place[q]) = "return"
      BY <1>1, <2>2 DEF Exit, Cataloguing, MidPlace, PastPlace, UnseenPlace, SeenPlace, UnseenCatalog, SeenCatalog
    <3> QED BY <2>1, <3>1
  <2>3. CASE place[p] # "descriptor"
    BY <1>1, <2>1, <2>3
  <2> QED BY <2>2, <2>3
<1>8. ASSUME ~ Refused(p) PROVE Target(p) = Target(q) /\ op[p] = op[q]
  <2>1. op[p] = op[q]
    BY <1>1, <1>6, <1>8
  <2>2. ASSUME place[p] = "communicator free" PROVE AgreesAfterError(p) <=> AgreesAfterError(q)
    <3>1. Len(log[p]) >= 2
      BY <1>0, <2>2 DEF RankInv, PlaceInv
    <3>2. \A i \in 1..3 : i <= Len(log[p]) => log[q][i].place = log[p][i].place
      BY <1>0 DEF LogsMatch
    <3>3. Len(log[p]) \in Nat
      BY <1>0, TurnType
    <3>4. log[q][2].place = log[p][2].place
      BY <3>1, <3>2, <3>3
    <3> QED BY <2>1, <3>4 DEF AgreesAfterError
  <2> QED BY <1>1, <1>4, <1>5, <1>8, <2>1, <2>2 DEF Target
<1>9. Kind(Decided(p)) = Kind(Decided(q))
  <2>1. CASE Refused(p) /\ outcome[p] = "none"
    <3>1. Decided(p) = Error(p) /\ Decided(q) = Error(q)
      BY <1>4, <1>5, <2>1 DEF Decided
    <3>2. /\ Kind(Error(p)) = ErrorKind(Words(p), place[p], op[p])
          /\ Kind(Error(q)) = ErrorKind(Words(q), place[q], op[q])
      BY <1>2, ErrorsKnown, RankParts DEF ErrorFact
    <3>3. ASSUME place[p] = "descriptor" PROVE Words(p) = {op[p]} <=> Words(q) = {op[q]}
      <4>1. op[p] # "failed" /\ op[q] # "failed"
        <5>1. "failed" \notin KnownOperation
          BY DEF KnownOperation, Writing, WithOptions, Collection, Void
        <5> QED BY <1>0, <5>1 DEF RankInv
      <4>2. Words(p) = {op[p]} => op[q] = op[p]
        BY <1>1, <3>3, <4>1, OneOperation
      <4>3. Words(p) = {op[q]} => op[p] = op[q]
        BY <1>1, <3>3, <4>1, OneOperation
      <4> QED BY <1>2, <4>2, <4>3
    <3> QED BY <1>1, <1>2, <3>1, <3>2, <3>3 DEF ErrorKind
  <2>2. CASE ~ (Refused(p) /\ outcome[p] = "none")
    BY <1>1, <1>4, <1>5, <2>2 DEF Decided
  <2> QED BY <2>1, <2>2
<1> QED BY <1>1, <1>2, <1>3, <1>4, <1>7, <1>8, <1>9

(* A rank that returns holds nothing. *)
LEMMA ReturnsEmpty ==
  ASSUME ControlInv, NEW r \in Rank, Busy(r), Complete(r), ~ MustAbort(r), Target(r) = "return"
  PROVE  held[r] = {}
<1> DEFINE p == place[r]
<1>0. /\ RankInv(r) /\ PlaceInv(r) /\ HeldInv(r) /\ LogInv /\ LogsMatch /\ WordsFit
      /\ p \in AnyPlace \ {"return"} /\ p \in Places(op[r]) \ {"return"} /\ op[r] \in KnownOperation
  BY RankParts DEF PlaceInv, RankInv
<1>1. p \in ClosingPlace => Own(r).word = "ok"
  BY <1>0, Decision
<1>2. CASE p \in EarlyPlace \union {"post cleanup"}
  BY <1>0, <1>2 DEF HeldInv
<1>3. CASE p = "communicator free"
  BY <1>0, <1>1, <1>3 DEF HeldInv, ClosingPlace
<1>4. CASE p \notin EarlyPlace \union {"post cleanup", "communicator free"} /\ Refused(r)
  <2>1. Exit(op[r], p) = "return"
    BY <1>0, <1>4, Exits
  <2>2. p = "handler restoration"
    BY <1>0, <1>4, <2>1, Exits DEF Exit, AnyPlace, Refused
  <2>3. log[r][2].word = "failed"
    BY <1>0, <1>4, <2>2, Decision
  <2> QED BY <1>0, <2>2, <2>3 DEF HeldInv
<1>5. CASE p \notin EarlyPlace \union {"post cleanup", "communicator free"} /\ ~ Refused(r)
  <2>1. NextPlace(op[r], p) = "return"
    BY <1>5 DEF Target
  <2>2. Leads(op[r], p, "return")
    BY <1>0, <2>1, PlacesOf
  <2>3. "descriptor" \in EarlyPlace
    BY DEF EarlyPlace
  <2> QED BY <1>5, <2>2, <2>3 DEF Leads, EarlyPlace, UnseenPlace, SeenPlace, UnseenCatalog, SeenCatalog
<1> QED BY <1>2, <1>3, <1>4, <1>5

Unmoved(s) ==
  /\ place'[s] = place[s] /\ op'[s] = op[s] /\ outcome'[s] = outcome[s]
  /\ result'[s] = result[s] /\ held'[s] = held[s] /\ calls'[s] = calls[s]

(* A rank with a complete reduction decides the same whatever the others do. *)
LEMMA Frame ==
  ASSUME ControlInv, NEW r \in Rank, NEW p, NEW w, Enter(r, p, w), Complete(r),
         NEW s \in Rank, s # r, Complete(s), Busy(s), Unmoved(s), Malformed(s)' <=> Malformed(s)
  PROVE  /\ Complete(s)' /\ Busy(s)'
         /\ MustAbort(s)' <=> MustAbort(s)
         /\ Refused(s)' <=> Refused(s)
         /\ Target(s)' = Target(s)
         /\ Kind(Decided(s))' = Kind(Decided(s))
<1>0. LogInv /\ PlaceInv(s) /\ RankInv(s) /\ Words(s) \subseteq Vocabulary(place[s])
  BY RankParts
<1>1. /\ Len(log[s]) >= 1
      /\ place[s] # "descriptor" => Len(log[s]) >= 2
  BY <1>0 DEF PlaceInv
<1>2. /\ Complete(s)' /\ log'[s] = log[s] /\ Words(s)' = Words(s)
      /\ Len(log[s]) >= 2 => WordsBefore(s)' = WordsBefore(s)
  BY <1>0, <1>1, Stable
<1>3. place[s] = "handler restoration" => WordsBefore(s)' = WordsBefore(s)
  BY <1>1, <1>2
<1>4. place'[s] = place[s] /\ op'[s] = op[s] /\ outcome'[s] = outcome[s] /\ held'[s] = held[s]
  BY DEF Unmoved
<1>5. MustAbort(s)' <=> MustAbort(s)
  BY <1>2, <1>3, <1>4 DEF MustAbort
<1>6. Agreed(s)' <=> Agreed(s)
  BY <1>2, <1>3, <1>4 DEF Agreed
<1>7. Refused(s)' <=> Refused(s)
  BY <1>4, <1>6 DEF Refused
<1>8. Target(s)' = Target(s)
  <2>1. InCatalog(s)' <=> InCatalog(s)
    BY <1>4 DEF InCatalog
  <2>2. AgreesAfterError(s)' <=> AgreesAfterError(s)
    BY <1>2, <1>4 DEF AgreesAfterError
  <2>3. NextPlace(op[s], place[s])' = NextPlace(op[s], place[s])
    BY <1>4
  <2> QED BY <1>4, <1>7, <2>1, <2>2, <2>3 DEF Target
<1>9. Kind(Decided(s))' = Kind(Decided(s))
  <2>1. ErrorFact'
    BY ErrorsKnown, PTL
  <2>2. Kind(Error(s))' = ErrorKind(Words(s), place[s], op[s])'
    BY <1>0, <1>2, <1>4, <2>1 DEF ErrorFact
  <2>3. Kind(Error(s)) = ErrorKind(Words(s), place[s], op[s])
    BY <1>0, ErrorsKnown DEF ErrorFact
  <2>4. Kind(Error(s))' = Kind(Error(s))
    BY <1>2, <1>4, <2>2, <2>3
  <2> QED BY <1>4, <1>7, <2>4 DEF Decided
<1> QED BY <1>2, <1>4, <1>5, <1>7, <1>8, <1>9 DEF Busy

----------------------------------------------------------------------------
(* Steps.  All that go on from a reduction to the next one are alike as    *)
(* far as the ranks' control is concerned.                                 *)

Native == {"handler", "communicator", "file", "datatype"}

(* What r takes or gives back at place n with word w. *)
Takes(r, n, w) ==
  LET h == held[r] IN
  /\ held' \in [Rank -> SUBSET Native]
  /\ \A s \in Rank : s # r => held'[s] = held[s]
  /\ n = "MPI_Comm_dup" => held'[r] = h \union {"handler"} \union (IF w = "ok" THEN {"communicator"} ELSE {})
  /\ n = "handler restoration" => held'[r] = h \ {"handler"}
  /\ n = "MPI_File_open" => held'[r] = IF w = "ok" THEN h \union {"file"} ELSE h
  /\ n = "datatype" => held'[r] \in {h, h \union {"datatype"}}
  /\ n = "datatype free" => IF w = "ok" THEN held'[r] = h \ {"datatype"}
                            ELSE held'[r] = h /\ "datatype" \in h
  /\ n = "file close" => held'[r] = IF w = "ok" THEN h \ {"file"} ELSE h
  /\ n = "communicator free" => held'[r] = IF w = "ok" THEN h \ {"communicator"} ELSE h
  /\ n \notin {"MPI_Comm_dup", "handler restoration", "MPI_File_open", "datatype"} \union ClosingPlace =>
       held'[r] = h

Advance(r, n, w) ==
  /\ Vote(r, n, w) /\ w \in Vocabulary(n) /\ n # "return"
  /\ Takes(r, n, w) /\ calls' = calls
  /\ n \in WriteStep \/ file' = file

Flushing == {"header flush", "payload flush", "marker flush"}

(* What it does to the file and the memory of r there. *)
Effect(r, n, w) ==
  /\ told' = told /\ destination' = destination
  /\ IF n = "payload read"
     THEN staging' = [staging EXCEPT ![r] =
            IF \A x \in BlockOf(r) : file[x] # "absent" THEN "written" ELSE "hole"]
     ELSE staging' = staging
  /\ IF n = "MPI_File_open"
     THEN /\ w = "ok" => MayOpen(r)
          /\ created' \in IF op[r] \notin Writing THEN {created}
                          ELSE IF w = "ok" THEN {TRUE} ELSE {created, TRUE}
     ELSE created' = created
  /\ n \notin WriteStep => file' = file
  /\ n = "header write" => Written(IF r = Root THEN {"header"} ELSE {}, w)
  /\ n = "payload write" => Written(PayloadOf(r), w)
  /\ n = "marker write" => Written(IF r = Root THEN {"marker"} ELSE {}, w)
  /\ n \in Flushing =>
       file' = [x \in Part |-> IF w = "ok" /\ x \in WrittenBy(r) /\ file[x] = "cached"
                               THEN "stored" ELSE file[x]]
  /\ n = "prefix validation" /\ w = "ok" => file["marker"] # "absent"

Advances(r) == \E n, w : Advance(r, n, w) /\ Effect(r, n, w)

(* A step that leaves the place of every rank alone. *)
Stays == UNCHANGED <<control, calls, disk, memory, told>>

LEMMA Vocal ==
  ASSUME NEW p
  PROVE  /\ p \notin {"descriptor", "post cleanup"} => {"ok"} \union BadWords(p) \subseteq Vocabulary(p)
         /\ p = "post cleanup" => {"ok", "failed"} \union BadWords(p) \subseteq Vocabulary(p)
         /\ p \in Decisive \union {"file size", "size comparison", "raw file size", "metadata validation",
                                   "payload read"} =>
              {"ok", "failed"} \subseteq Vocabulary(p)
<1>1. p \notin {"descriptor", "post cleanup"} => {"ok"} \union BadWords(p) \subseteq Vocabulary(p)
  BY DEF Vocabulary
<1>2. ASSUME p = "post cleanup" PROVE {"ok", "failed"} \union BadWords(p) \subseteq Vocabulary(p)
  <2>1. BadWords(p) = {}
    BY <1>2 DEF BadWords, Comparing
  <2> QED BY <1>2, <2>1 DEF Vocabulary
<1>3. p \in Decisive => {"ok", "failed"} \subseteq Vocabulary(p)
  BY VocabularyOf
<1>4. ASSUME p \in {"file size", "size comparison", "raw file size", "metadata validation", "payload read"}
      PROVE  {"ok", "failed"} \subseteq Vocabulary(p)
  <2>1. BadWords(p) = {"failed"}
    BY <1>4 DEF BadWords, Comparing
  <2> QED BY <1>1, <1>4, <2>1
<1> QED BY <1>1, <1>2, <1>3, <1>4

LEMMA UnchangedTakes ==
  ASSUME NEW r \in Rank, NEW n, NEW w, held \in [Rank -> SUBSET Native], held' = held,
         n \notin {"MPI_Comm_dup", "handler restoration", "MPI_File_open", "datatype"} \union ClosingPlace
  PROVE  Takes(r, n, w)
BY DEF Takes, ClosingPlace

LEMMA StepKinds ==
  ASSUME ControlInv, NEW r \in Rank, Step(r)
  PROVE  Stays \/ Return(r) \/ Advances(r)
<1>0. held \in [Rank -> SUBSET Native]
  BY DEF ControlInv, ControlType, Native
<1>1. CASE Check(r)
  <2>1. PICK p, v :
          /\ p \in Plain /\ v \in {"ok"} \union BadWords(p)
          /\ Vote(r, p, IF p = "post cleanup" /\ outcome[r] # "none" THEN "failed" ELSE v)
          /\ Fault(v # "ok")
    BY <1>1 DEF Check
  <2> DEFINE w == IF p = "post cleanup" /\ outcome[r] # "none" THEN "failed" ELSE v
  <2>2. p \notin {"MPI_Comm_dup", "handler restoration", "MPI_File_open", "datatype", "descriptor", "return"}
                  \union ClosingPlace
    BY <2>1 DEF Plain
  <2>3. w \in Vocabulary(p)
    BY <2>1, <2>2, Vocal
  <2>4. held' = held /\ file' = file /\ calls' = calls
    BY <1>1, <2>1 DEF Check, disk, Fault
  <2>5. Vote(r, p, w)
    BY <2>1
  <2> HIDE DEF w
  <2>6. Takes(r, p, w)
    BY <1>0, <2>2, <2>4, UnchangedTakes
  <2>7. Advance(r, p, w)
    BY <2>2, <2>3, <2>4, <2>5, <2>6 DEF Advance
  <2>8. p \notin WriteStep \union Flushing \union {"payload read", "MPI_File_open", "prefix validation"}
    BY <2>1 DEF Plain, WriteStep, Flushing
  <2>9. Effect(r, p, w)
    <3>1. told' = told /\ destination' = destination /\ staging' = staging /\ created' = created
      BY <1>1, <2>5 DEF Check, Vote, disk, memory
    <3> QED BY <2>4, <2>8, <3>1 DEF Effect, WriteStep
  <2> QED BY <2>7, <2>9 DEF Advances
<1>2. CASE DuplicateComm(r)
  <2>1. PICK w \in Outcomes :
          /\ Vote(r, "MPI_Comm_dup", w) /\ Fault(w = "failed")
          /\ held' = [held EXCEPT ![r] = @ \union {"handler"}
                                         \union (IF w = "ok" THEN {"communicator"} ELSE {})]
    BY <1>2 DEF DuplicateComm
  <2>2. Takes(r, "MPI_Comm_dup", w)
    BY <1>0, <2>1 DEF Takes, Native, ClosingPlace
  <2>3. w \in Vocabulary("MPI_Comm_dup")
    BY Vocal DEF Decisive, Outcomes
  <2>4. Advance(r, "MPI_Comm_dup", w)
    BY <1>2, <2>1, <2>2, <2>3 DEF Advance, DuplicateComm, disk, Fault
  <2>5. Effect(r, "MPI_Comm_dup", w)
    BY <1>2, <2>1 DEF DuplicateComm, Effect, Vote, WriteStep, Flushing, disk, memory
  <2> QED BY <2>4, <2>5 DEF Advances
<1>3. CASE FailToSetHandler(r)
  BY <1>3 DEF FailToSetHandler, Fault, Stays, control, disk, memory
<1>4. CASE RestoreHandler(r)
  <2>1. PICK w \in Outcomes : Vote(r, "handler restoration", w) /\ Fault(w = "failed")
    BY <1>4 DEF RestoreHandler
  <2>2. Takes(r, "handler restoration", w)
    BY <1>0, <1>4 DEF RestoreHandler, Release, Takes, ClosingPlace
  <2>3. w \in Vocabulary("handler restoration")
    BY Vocal DEF Decisive, Outcomes
  <2>4. Advance(r, "handler restoration", w)
    BY <1>4, <2>1, <2>2, <2>3 DEF Advance, RestoreHandler, disk, Fault
  <2>5. Effect(r, "handler restoration", w)
    BY <1>4, <2>1 DEF RestoreHandler, Effect, Vote, WriteStep, Flushing, disk, memory
  <2> QED BY <2>4, <2>5 DEF Advances
<1>5. CASE OpenFile(r)
  <2>1. PICK w \in Outcomes :
       /\ Vote(r, "MPI_File_open", w)
       /\ Fault(w = "failed" /\ MayOpen(r))
       /\ IF w = "ok" THEN Acquire(r, "file") ELSE UNCHANGED held
       /\ w = "ok" => MayOpen(r)
       /\ created' \in IF op[r] \notin Writing THEN {created}
                       ELSE IF w = "ok" THEN {TRUE} ELSE {created, TRUE}
    BY <1>5 DEF OpenFile
  <2>2. Takes(r, "MPI_File_open", w)
    BY <1>0, <2>1 DEF Acquire, Takes, Native, ClosingPlace
  <2>3. w \in Vocabulary("MPI_File_open")
    BY Vocal DEF Decisive, StatePlace, Outcomes
  <2>4. Advance(r, "MPI_File_open", w)
    BY <1>5, <2>1, <2>2, <2>3 DEF Advance, OpenFile, Fault
  <2>5. Effect(r, "MPI_File_open", w)
    BY <1>5, <2>1 DEF OpenFile, Effect, Vote, WriteStep, Flushing, disk, memory
  <2> QED BY <2>4, <2>5 DEF Advances
<1>6. CASE WriteHeader(r)
  <2>1. PICK w \in Outcomes : Vote(r, "header write", w) /\ Fault(w = "failed")
                              /\ Written(IF r = Root THEN {"header"} ELSE {}, w)
    BY <1>6 DEF WriteHeader
  <2>2. held' = held
    BY <1>6 DEF WriteHeader
  <2>3. Takes(r, "header write", w)
    BY <1>0, <2>2, UnchangedTakes DEF ClosingPlace
  <2>4. w \in Vocabulary("header write")
    BY Vocal DEF Decisive, WriteStep, Outcomes
  <2>5. Advance(r, "header write", w)
    BY <2>1, <2>3, <2>4 DEF Advance, Fault, WriteStep
  <2>6. Effect(r, "header write", w)
    BY <1>6, <2>1 DEF WriteHeader, Effect, Vote, WriteStep, Flushing, disk, memory
  <2> QED BY <2>5, <2>6 DEF Advances
<1>7. CASE WritePayload(r)
  <2>1. PICK w \in Outcomes : Vote(r, "payload write", w) /\ Fault(w = "failed")
                              /\ Written(PayloadOf(r), w)
    BY <1>7 DEF WritePayload
  <2>2. held' = held
    BY <1>7 DEF WritePayload
  <2>3. Takes(r, "payload write", w)
    BY <1>0, <2>2, UnchangedTakes DEF ClosingPlace
  <2>4. w \in Vocabulary("payload write")
    BY Vocal DEF Decisive, WriteStep, Outcomes
  <2>5. Advance(r, "payload write", w)
    BY <2>1, <2>3, <2>4 DEF Advance, Fault, WriteStep
  <2>6. Effect(r, "payload write", w)
    BY <1>7, <2>1 DEF WritePayload, Effect, Vote, WriteStep, Flushing, disk, memory
  <2> QED BY <2>5, <2>6 DEF Advances
<1>8. CASE WriteMarker(r)
  <2>1. PICK w \in Outcomes : Vote(r, "marker write", w) /\ Fault(w = "failed")
                              /\ Written(IF r = Root THEN {"marker"} ELSE {}, w)
    BY <1>8 DEF WriteMarker
  <2>2. held' = held
    BY <1>8 DEF WriteMarker
  <2>3. Takes(r, "marker write", w)
    BY <1>0, <2>2, UnchangedTakes DEF ClosingPlace
  <2>4. w \in Vocabulary("marker write")
    BY Vocal DEF Decisive, WriteStep, Outcomes
  <2>5. Advance(r, "marker write", w)
    BY <2>1, <2>3, <2>4 DEF Advance, Fault, WriteStep
  <2>6. Effect(r, "marker write", w)
    BY <1>8, <2>1 DEF WriteMarker, Effect, Vote, WriteStep, Flushing, disk, memory
  <2> QED BY <2>5, <2>6 DEF Advances
<1>9. CASE Flush(r)
  <2>1. PICK p \in {"header flush", "payload flush", "marker flush"}, w \in Outcomes :
          /\ Vote(r, p, w) /\ Fault(w = "failed")
          /\ file' = [x \in Part |-> IF w = "ok" /\ x \in WrittenBy(r) /\ file[x] = "cached"
                                     THEN "stored" ELSE file[x]]
    BY <1>9 DEF Flush
  <2>2. held' = held
    BY <1>9 DEF Flush
  <2>3. Takes(r, p, w)
    BY <1>0, <2>2, UnchangedTakes DEF ClosingPlace
  <2>4. w \in Vocabulary(p)
    BY Vocal DEF Decisive, WriteStep, Outcomes
  <2>5. Advance(r, p, w)
    BY <2>1, <2>3, <2>4 DEF Advance, Fault, WriteStep
  <2>6. Effect(r, p, w)
    BY <1>9, <2>1 DEF Flush, Effect, Vote, WriteStep, Flushing, disk, memory
  <2> QED BY <2>5, <2>6 DEF Advances
<1>10. CASE CheckSize(r)
  <2>1. PICK p \in {"payload size", "file size", "size comparison", "raw file size"}, w \in Outcomes :
          Vote(r, p, w) /\ calls' = calls
    BY <1>10 DEF CheckSize, Fault
  <2>2. held' = held /\ file' = file
    BY <1>10 DEF CheckSize, disk
  <2>3. Takes(r, p, w)
    BY <1>0, <2>2, UnchangedTakes DEF ClosingPlace
  <2>4. w \in Vocabulary(p)
    BY Vocal DEF Decisive, Outcomes
  <2>5. Advance(r, p, w)
    BY <2>1, <2>2, <2>3, <2>4 DEF Advance
  <2>6. Effect(r, p, w)
    BY <1>10, <2>1 DEF CheckSize, Effect, Vote, WriteStep, Flushing, disk, memory
  <2> QED BY <2>5, <2>6 DEF Advances
<1>11. CASE ValidatePrefix(r)
  <2>1. PICK w \in Outcomes :
          /\ Vote(r, "prefix validation", w) /\ Fault(FALSE)
          /\ w = "ok" <=> file["header"] # "absent" /\ file["marker"] # "absent"
    BY <1>11 DEF ValidatePrefix
  <2>2. held' = held /\ file' = file
    BY <1>11 DEF ValidatePrefix, disk
  <2>3. Takes(r, "prefix validation", w)
    BY <1>0, <2>2, UnchangedTakes DEF ClosingPlace
  <2>4. w \in Vocabulary("prefix validation")
    BY Vocal DEF Decisive, Outcomes
  <2>5. Advance(r, "prefix validation", w)
    BY <2>1, <2>2, <2>3, <2>4 DEF Advance, Fault
  <2>6. Effect(r, "prefix validation", w)
    BY <1>11, <2>1 DEF ValidatePrefix, Effect, Vote, WriteStep, Flushing, disk, memory
  <2> QED BY <2>5, <2>6 DEF Advances
<1>12. CASE ValidateMetadata(r)
  <2>1. PICK w \in Outcomes : Vote(r, "metadata validation", w) /\ calls' = calls
    BY <1>12 DEF ValidateMetadata, Fault
  <2>2. held' = held /\ file' = file
    BY <1>12 DEF ValidateMetadata, disk
  <2>3. Takes(r, "metadata validation", w)
    BY <1>0, <2>2, UnchangedTakes DEF ClosingPlace
  <2>4. w \in Vocabulary("metadata validation")
    BY Vocal DEF Outcomes
  <2>5. Advance(r, "metadata validation", w)
    BY <2>1, <2>2, <2>3, <2>4 DEF Advance
  <2>6. Effect(r, "metadata validation", w)
    BY <1>12, <2>1 DEF ValidateMetadata, Effect, Vote, WriteStep, Flushing, disk, memory
  <2> QED BY <2>5, <2>6 DEF Advances
<1>13. CASE ValidateCatalog(r)
  <2>1. PICK w \in Outcomes : Vote(r, "catalog validation", w) /\ calls' = calls
    BY <1>13 DEF ValidateCatalog, Fault
  <2>2. held' = held /\ file' = file
    BY <1>13 DEF ValidateCatalog, disk
  <2>3. Takes(r, "catalog validation", w)
    BY <1>0, <2>2, UnchangedTakes DEF ClosingPlace
  <2>4. w \in Vocabulary("catalog validation")
    BY Vocal DEF Decisive, Outcomes
  <2>5. Advance(r, "catalog validation", w)
    BY <2>1, <2>2, <2>3, <2>4 DEF Advance
  <2>6. Effect(r, "catalog validation", w)
    BY <1>13, <2>1 DEF ValidateCatalog, Effect, Vote, WriteStep, Flushing, disk, memory
  <2> QED BY <2>5, <2>6 DEF Advances
<1>14. CASE CreateDatatype(r)
  <2>1. PICK w \in Outcomes :
          /\ Vote(r, "datatype", w) /\ Fault(w = "failed")
          /\ IF w = "ok" /\ r \notin Empty THEN Acquire(r, "datatype") ELSE UNCHANGED held
    BY <1>14 DEF CreateDatatype
  <2>2. Takes(r, "datatype", w)
    BY <1>0, <2>1 DEF Acquire, Takes, Native, ClosingPlace
  <2>3. w \in Vocabulary("datatype")
    BY Vocal DEF Decisive, StatePlace, Outcomes
  <2>4. Advance(r, "datatype", w)
    BY <1>14, <2>1, <2>2, <2>3 DEF Advance, CreateDatatype, disk, Fault
  <2>5. Effect(r, "datatype", w)
    BY <1>14, <2>1 DEF CreateDatatype, Effect, Vote, WriteStep, Flushing, disk, memory
  <2> QED BY <2>4, <2>5 DEF Advances
<1>15. CASE ReadPayload(r)
  <2>1. PICK w \in Outcomes :
          /\ Vote(r, "payload read", w) /\ Fault(w = "failed")
          /\ staging' = [staging EXCEPT ![r] =
            IF \A x \in BlockOf(r) : file[x] # "absent" THEN "written" ELSE "hole"]
    BY <1>15 DEF ReadPayload
  <2>2. held' = held /\ file' = file
    BY <1>15 DEF ReadPayload, disk
  <2>3. Takes(r, "payload read", w)
    BY <1>0, <2>2, UnchangedTakes DEF ClosingPlace
  <2>4. w \in Vocabulary("payload read")
    BY Vocal DEF Outcomes
  <2>5. Advance(r, "payload read", w)
    BY <2>1, <2>2, <2>3, <2>4 DEF Advance, Fault
  <2>6. Effect(r, "payload read", w)
    BY <1>15, <2>1 DEF ReadPayload, Effect, Vote, WriteStep, Flushing, disk, memory
  <2> QED BY <2>5, <2>6 DEF Advances
<1>16. CASE Close(r)
  <2>1. PICK p \in ClosingPlace, w \in Outcomes :
       /\ p = "datatype free" /\ "datatype" \notin held[r] => w = "ok"
       /\ Vote(r, p, w) /\ Fault(w = "failed")
       /\ IF w = "ok" THEN Release(r, Resource(p)) ELSE UNCHANGED held
    BY <1>16 DEF Close
  <2>2. Takes(r, p, w)
    <3>1. CASE p = "datatype free"
      BY <1>0, <2>1, <3>1 DEF Takes, Release, Resource, ClosingPlace
    <3>2. CASE p = "file close"
      BY <1>0, <2>1, <3>2 DEF Takes, Release, Resource, ClosingPlace
    <3>3. CASE p = "communicator free"
      BY <1>0, <2>1, <3>3 DEF Takes, Release, Resource, ClosingPlace
    <3> QED BY <2>1, <3>1, <3>2, <3>3 DEF ClosingPlace
  <2>3. w \in Vocabulary(p)
    BY Vocal DEF Decisive, Outcomes
  <2>4. Advance(r, p, w)
    BY <1>16, <2>1, <2>2, <2>3 DEF Advance, Close, disk, Fault, ClosingPlace
  <2>5. Effect(r, p, w)
    BY <1>16, <2>1 DEF Close, Effect, Vote, ClosingPlace, WriteStep, Flushing, disk, memory
  <2> QED BY <2>4, <2>5 DEF Advances
<1>17. CASE Abort(r)
  BY <1>17 DEF Abort, Stays, bounds
<1>18. CASE Return(r)
  BY <1>18
<1> QED BY <1>1, <1>2, <1>3, <1>4, <1>5, <1>6, <1>7, <1>8, <1>9, <1>10, <1>11, <1>12, <1>13, <1>14,
           <1>15, <1>16, <1>17, <1>18 DEF Step

(* Where a rank goes that does not return. *)
LEMMA Following ==
  ASSUME ControlInv, NEW r \in Rank, Busy(r), Complete(r), ~ MustAbort(r), Target(r) # "return"
  PROVE  LET n == Target(r) IN
         /\ n \in Places(op[r]) \ {"return"} /\ Fits(op[r], n) /\ n # "descriptor"
         /\ Refused(r) => n = Exit(op[r], place[r]) /\ place[r] \notin ClosingPlace
         /\ ~ Refused(r) => n = NextPlace(op[r], place[r]) /\ Leads(op[r], place[r], n)
<1> DEFINE n == Target(r)
           p == place[r]
<1>0. /\ RankInv(r) /\ PlaceInv(r) /\ HeldInv(r) /\ LogInv /\ LogsMatch /\ WordsFit
      /\ p \in AnyPlace \ {"return"} /\ p \in Places(op[r]) \ {"return"} /\ op[r] \in KnownOperation
      /\ Fits(op[r], p)
  BY RankParts DEF PlaceInv, RankInv
<1>1. ASSUME Refused(r)
      PROVE  n \in Places(op[r]) /\ n # "descriptor" /\ n = Exit(op[r], p) /\ p \notin ClosingPlace
  <2>1. n = Exit(op[r], p) /\ p \notin ClosingPlace
    BY <1>0, <1>1, Exits
  <2>2. p # "descriptor"
    BY <2>1 DEF Exit, Cataloguing, MidPlace, PastPlace, UnseenPlace, SeenPlace, UnseenCatalog, SeenCatalog
  <2>3. op[r] \notin Void
    BY <1>0, <2>2 DEF Fits
  <2>4. n = "catalog validation" => op[r] = "read_mpi_catalog"
    BY <1>0, <2>1 DEF Fits, Exit
  <2>5. n \in ExitPlaces(op[r])
    BY <2>1, <2>3, <2>4 DEF Exit, ExitPlaces, ClosingPlace
  <2>6. n \in {"catalog validation", "datatype free", "communicator free"}
    BY <2>1 DEF Exit
  <2> QED BY <1>0, <2>1, <2>5, <2>6, PlacesOf
<1>2. ASSUME ~ Refused(r)
      PROVE  n \in Places(op[r]) /\ n # "descriptor" /\ n = NextPlace(op[r], p) /\ Leads(op[r], p, n)
  <2>1. n = NextPlace(op[r], p)
    BY <1>2 DEF Target
  <2>2. n \in Places(op[r]) /\ Leads(op[r], p, n)
    BY <1>0, <2>1, PlacesOf
  <2> HIDE DEF n
  <2>3. n # "descriptor"
    BY <2>2 DEF Leads, UnseenPlace, SeenPlace, UnseenCatalog, SeenCatalog
  <2> QED BY <2>1, <2>2, <2>3
<1>3. n \in Places(op[r])
  BY <1>1, <1>2
<1>4. Fits(op[r], n)
  BY <1>0, <1>3, PlacesOf
<1> QED BY <1>1, <1>2, <1>3, <1>4

(* The others keep their places. *)
LEMMA OthersKeep ==
  ASSUME ControlInv, NEW r \in Rank, NEW n, NEW w, Enter(r, n, w), Complete(r),
         NEW s \in Rank, s # r, Unmoved(s)
  PROVE  PlaceInv(s)' /\ HeldInv(s)'
<1>0. LogInv /\ LogType /\ PlaceInv(s) /\ HeldInv(s)
  BY RankParts
<1>1. log'[s] = log[s]
  BY <1>0, EnterLog
<1>2. /\ place'[s] = place[s] /\ op'[s] = op[s] /\ outcome'[s] = outcome[s] /\ held'[s] = held[s]
      /\ Own(s)' = Own(s) /\ (Busy(s)' <=> Busy(s))
  BY <1>1 DEF Unmoved, Own, Busy
<1>3. ~ Busy(s) => Complete(s)'
  BY <1>0, Stable DEF PlaceInv
<1>4. PlaceInv(s)'
  BY <1>0, <1>1, <1>2, <1>3 DEF PlaceInv
<1>5. HeldInv(s)'
  BY <1>0, <1>1, <1>2 DEF HeldInv
<1> QED BY <1>4, <1>5

(* Pair (p, q) is in step. *)
PairInStep(p, q) == (Ahead(q, p) = 0 => Same(p, q)) /\ (Ahead(q, p) = 1 => Lead(q, p))

(* They stay in step with each other. *)
LEMMA OthersInStep ==
  ASSUME ControlInv, NEW r \in Rank, NEW n, NEW w, Enter(r, n, w), Complete(r),
         NEW p \in Rank, NEW q \in Rank, p # r, q # r, Unmoved(p), Unmoved(q),
         \A s \in {p, q} : Busy(s) /\ Complete(s) => (Malformed(s)' <=> Malformed(s))
  PROVE  PairInStep(p, q)'
<1>0. LogInv /\ LogType /\ PlaceInv(p) /\ PlaceInv(q)
  BY RankParts
<1>1. Ahead(q, p)' = Ahead(q, p)
  BY <1>0, EnterAhead
<1>2. /\ place'[p] = place[p] /\ op'[p] = op[p] /\ outcome'[p] = outcome[p] /\ calls'[p] = calls[p]
      /\ place'[q] = place[q] /\ op'[q] = op[q] /\ outcome'[q] = outcome[q] /\ calls'[q] = calls[q]
      /\ result'[p] = result[p] /\ result'[q] = result[q]
      /\ Busy(p)' <=> Busy(p)
      /\ Busy(q)' <=> Busy(q)
  BY DEF Unmoved, Busy
<1>3. ASSUME NEW s \in {p, q}, Busy(s), Complete(s)
      PROVE  /\ MustAbort(s)' <=> MustAbort(s)
             /\ Target(s)' = Target(s) /\ Kind(Decided(s))' = Kind(Decided(s))
  BY <1>3, Frame
<1>4. ASSUME Ahead(q, p) = 0 PROVE Same(p, q)'
  <2>1. Same(p, q)
    BY <1>4 DEF ControlInv, InStep
  <2>2. CASE Busy(p) \/ ~ Busy(q)
    BY <1>2, <2>1, <2>2 DEF Same
  <2>3. CASE ~ Busy(p) /\ Busy(q)
    <3>1. Complete(q)
      BY <1>0, <1>4, <2>3, SameTurn DEF PlaceInv
    <3>2. /\ MustAbort(q)' <=> MustAbort(q)
          /\ Target(q)' = Target(q) /\ Kind(Decided(q))' = Kind(Decided(q))
      BY <1>3, <2>3, <3>1
    <3>3. Kind(Returning(q))' = Kind(Returning(q))
      BY <3>2 DEF Returning, Kind
    <3> QED BY <1>2, <2>1, <2>3, <3>2, <3>3 DEF Same
  <2> QED BY <2>2, <2>3
<1>5. ASSUME Ahead(q, p) = 1 PROVE Lead(q, p)'
  <2>1. Lead(q, p)
    BY <1>5 DEF ControlInv, InStep
  <2>2. Complete(p)
    BY <1>0, <1>5, LedIsComplete
  <2>3. CASE Busy(p)
    <3>1. /\ MustAbort(p)' <=> MustAbort(p)
          /\ Target(p)' = Target(p) /\ Kind(Decided(p))' = Kind(Decided(p))
      BY <1>3, <2>2, <2>3
    <3> QED BY <1>2, <2>1, <2>3, <3>1 DEF Lead
  <2>4. CASE ~ Busy(p)
    BY <1>2, <2>1, <2>4 DEF Lead
  <2> QED BY <2>3, <2>4
<1> QED BY <1>1, <1>4, <1>5 DEF PairInStep

----------------------------------------------------------------------------
(* A rank goes on.                                                         *)

LEMMA Advanced ==
  ASSUME ControlInv, NEW r \in Rank, NEW n, NEW w, Advance(r, n, w)
  PROVE  /\ Busy(r) /\ Complete(r) /\ ~ MustAbort(r) /\ Target(r) = n /\ n # "return"
         /\ Enter(r, n, w) /\ w \in Vocabulary(n)
         /\ place'[r] = n /\ outcome'[r] = Decided(r) /\ op' = op /\ result' = result /\ calls' = calls
         /\ place' \in [Rank -> AnyPlace \union {"idle"}] /\ outcome' \in [Rank -> Result \ {"ok"}]
         /\ \A s \in Rank : s # r => Unmoved(s)
         /\ log'[r][1].place = n /\ log'[r][1].word = w /\ log'[r][2] = log[r][1] /\ Len(log'[r]) >= 2
         /\ n \in Places(op[r]) /\ Fits(op[r], n) /\ n # "descriptor"
<1>0. /\ RankInv(r) /\ PlaceInv(r) /\ LogInv /\ LogType
      /\ place \in [Rank -> AnyPlace \union {"idle"}] /\ outcome \in [Rank -> Result \ {"ok"}]
  BY RankParts DEF ControlInv, ControlType
<1>1. /\ Busy(r) /\ Complete(r) /\ ~ MustAbort(r) /\ Target(r) = n /\ n # "return"
      /\ Enter(r, n, w) /\ w \in Vocabulary(n)
      /\ op' = op /\ result' = result /\ calls' = calls
      /\ place' = [place EXCEPT ![r] = n]
      /\ outcome' = [outcome EXCEPT ![r] = IF Refused(r) /\ @ = "none" THEN Error(r) ELSE @]
      /\ \A s \in Rank : s # r => held'[s] = held[s]
  BY DEF Advance, Vote, Reaches, Leaves, Busy, Takes
<1>2. n \in Places(op[r]) /\ Fits(op[r], n) /\ n # "descriptor"
  BY <1>1, Following
<1>3. n \in AnyPlace
  BY <1>2 DEF Fits
<1>4. Error(r) \in Result \ {"ok"}
  BY <1>1, ErrorsKnown, RankParts DEF ErrorFact
<1>5. outcome'[r] = Decided(r)
  BY <1>0, <1>1 DEF Decided
<1>6. outcome' \in [Rank -> Result \ {"ok"}]
  BY <1>0, <1>1, <1>4
<1>7. /\ log'[r][1] = [turn |-> (Turn(r) + 1) % 4, place |-> n, word |-> w]
      /\ Len(log'[r]) = OneMore(Len(log[r]))
      /\ \A i \in 1..2 : i <= Len(log[r]) => log'[r][i + 1] = log[r][i]
  BY <1>0, <1>1, EnterLog
<1>8. Len(log[r]) >= 1 /\ Len(log[r]) \in 0..3
  BY <1>0, <1>1, TurnType DEF PlaceInv
<1>9. log'[r][1 + 1] = log[r][1]
  BY <1>7, <1>8
<1>10. Len(log'[r]) >= 2
  BY <1>7, <1>8 DEF OneMore
<1>11. log'[r][1].place = n /\ log'[r][1].word = w
  BY <1>7
<1>12. ASSUME NEW s \in Rank, s # r PROVE Unmoved(s)
  BY <1>0, <1>1, <1>12 DEF Unmoved
<1>13. place'[r] = n /\ place' \in [Rank -> AnyPlace \union {"idle"}]
  BY <1>0, <1>1, <1>3
<1> QED BY <1>1, <1>2, <1>5, <1>6, <1>9, <1>10, <1>11, <1>12, <1>13

LEMMA AdvancePlace ==
  ASSUME ControlInv, NEW r \in Rank, NEW n, NEW w, Advance(r, n, w)
  PROVE  PlaceInv(r)'
<1> DEFINE p == place[r]
<1>0. /\ Busy(r) /\ Complete(r) /\ ~ MustAbort(r) /\ Target(r) = n /\ n # "return"
      /\ place'[r] = n /\ outcome'[r] = Decided(r) /\ op' = op
      /\ log'[r][1].place = n /\ log'[r][2] = log[r][1] /\ Len(log'[r]) >= 2
      /\ n \in Places(op[r]) /\ n # "descriptor"
  BY Advanced
<1>1. PlaceInv(r) /\ RankInv(r) /\ p \in AnyPlace
  BY <1>0, RankParts
<1>2. /\ Refused(r) => n = Exit(op[r], p)
      /\ ~ Refused(r) => Leads(op[r], p, n)
  BY <1>0, Following
<1>3. n # "idle"
  <2>1. "idle" \notin AnyPlace
    BY DEF AnyPlace, EarlyPlace, MidPlace, PastPlace, ClosingPlace, UnseenPlace, SeenPlace,
           UnseenCatalog, SeenCatalog
  <2>2. n \in AnyPlace
    BY Advanced DEF Fits
  <2> QED BY <2>1, <2>2
<1>4. n = "handler restoration" => p = "MPI_Comm_dup"
  <2>1. n = "handler restoration" => ~ Refused(r)
    BY <1>2 DEF Exit
  <2>2. Leads(op[r], p, "handler restoration") => p = "MPI_Comm_dup"
    BY DEF Leads, EarlyPlace, UnseenPlace, SeenPlace, UnseenCatalog, SeenCatalog
  <2> QED BY <1>2, <2>1, <2>2
<1>5. n = "handler restoration" => log'[r][2].place = "MPI_Comm_dup"
  BY <1>0, <1>1, <1>4 DEF PlaceInv, Own
<1>6. Decided(r) # "none" => n \in ClosingPlace \union {"post cleanup", "catalog validation"}
  <2>1. CASE Refused(r)
    BY <1>0, <1>2, <2>1 DEF Exit, ClosingPlace
  <2>2. CASE ~ Refused(r) /\ outcome[r] # "none"
    <3>1. p \in ClosingPlace \union {"post cleanup", "catalog validation"}
      BY <1>0, <1>1, <2>2 DEF PlaceInv
    <3> QED BY <1>0, <1>2, <2>2, <3>1
            DEF Leads, EarlyPlace, UnseenPlace, SeenPlace, UnseenCatalog, SeenCatalog, ClosingPlace
  <2> QED BY <2>1, <2>2 DEF Decided
<1>7. Busy(r)' /\ Own(r)' = log'[r][1]
  BY <1>0, <1>3 DEF Busy, Own
<1>8. /\ place'[r] \in Places(op'[r]) \ {"return"}
      /\ Len(log'[r]) >= 1 /\ Own(r)'.place = place'[r]
  BY <1>0, <1>7
<1> QED BY <1>0, <1>5, <1>6, <1>7, <1>8 DEF PlaceInv

LEMMA AdvanceHeld ==
  ASSUME ControlInv, NEW r \in Rank, NEW n, NEW w, Advance(r, n, w)
  PROVE  HeldInv(r)'
<1> DEFINE p == place[r]
           o == op[r]
           h == held[r]
           g == held'[r]
           open == {"communicator", "file"}
           past == PastPlace \union {"datatype"}
<1>0. /\ Busy(r) /\ Complete(r) /\ ~ MustAbort(r) /\ Target(r) = n /\ n # "return"
      /\ place'[r] = n /\ log'[r][1].word = w /\ log'[r][2] = log[r][1]
      /\ n # "descriptor" /\ w \in Vocabulary(n) /\ Fits(op[r], n)
  BY Advanced
<1>0a. n \in AnyPlace
  BY <1>0 DEF Fits
<1>1. /\ PlaceInv(r) /\ HeldInv(r) /\ p \in AnyPlace \ {"return"} /\ LogInv /\ LogsMatch /\ WordsFit
  BY <1>0, RankParts
<1>2. /\ Refused(r) => n = Exit(o, p) /\ p \notin ClosingPlace
      /\ ~ Refused(r) => Leads(o, p, n)
  BY <1>0, Following
<1>3. /\ p \in ClosingPlace => ~ Refused(r) /\ Own(r).word = "ok"
      /\ p = "MPI_File_open" => IF Refused(r) THEN Own(r).word = "failed" ELSE Own(r).word = "ok"
      /\ p = "handler restoration" =>
            IF Refused(r) THEN log[r][2].word = "failed" ELSE log[r][2].word = "ok"
  BY <1>0, <1>1, Decision DEF StatePlace, Decisive
<1>4. Takes(r, n, w)
  BY DEF Advance
<1>5. n \in Decisive => w \in {"ok", "failed"}
  BY <1>0, VocabularyOf
<1> HIDE DEF p, o, h, g
<1>6. CASE p \in EarlyPlace
  <2>1. h = {}
    BY <1>1, <1>6 DEF HeldInv, p, h
  <2>2. n \in (EarlyPlace \ {"descriptor"}) \union {"MPI_Comm_dup"}
    <3>1. Exit(o, p) = "return"
      BY <1>6 DEF Exit, EarlyPlace, Cataloguing, MidPlace, PastPlace, UnseenPlace, SeenPlace,
                  UnseenCatalog, SeenCatalog
    <3>2. Leads(o, p, n)
      BY <1>0, <1>2, <3>1
    <3>3. p \notin UnseenPlace \union SeenPlace \union UnseenCatalog \union SeenCatalog
      BY <1>6 DEF EarlyPlace, UnseenPlace, SeenPlace, UnseenCatalog, SeenCatalog
    <3> QED BY <1>0, <1>6, <3>2, <3>3 DEF Leads, EarlyPlace
  <2>3. CASE n \in EarlyPlace
    <3>1. n \notin {"MPI_Comm_dup", "handler restoration", "MPI_File_open", "datatype", "communicator handler"}
                   \union ClosingPlace \union MidPlace \union PastPlace
      BY <2>3 DEF EarlyPlace, ClosingPlace, MidPlace, PastPlace, UnseenPlace, SeenPlace,
                  UnseenCatalog, SeenCatalog
    <3>2. g = {}
      BY <1>4, <2>1, <3>1 DEF Takes, g, h
    <3> QED BY <1>0, <3>1, <3>2 DEF HeldInv, ClosingPlace, g
  <2>4. CASE n = "MPI_Comm_dup"
    <3>1. g = {"handler"} \union (IF w = "ok" THEN {"communicator"} ELSE {})
      BY <1>4, <2>1, <2>4 DEF Takes, g, h
    <3>2. n \notin EarlyPlace \union MidPlace \union PastPlace
      BY <2>4 DEF EarlyPlace, MidPlace, PastPlace, UnseenPlace, SeenPlace, UnseenCatalog, SeenCatalog
    <3> QED BY <1>0, <2>4, <3>1, <3>2 DEF HeldInv, Own, g
  <2> QED BY <2>2, <2>3, <2>4
<1>7. CASE p = "MPI_Comm_dup"
  <2>1. n = "handler restoration" /\ log'[r][2].word = Own(r).word
    BY <1>0, <1>2, <1>7 DEF Leads, Refused, p, EarlyPlace, UnseenPlace, SeenPlace, UnseenCatalog,
                            SeenCatalog, Own
  <2>2. h = {"handler"} \union (IF Own(r).word = "ok" THEN {"communicator"} ELSE {})
    BY <1>1, <1>7 DEF HeldInv, p, h
  <2>3. g = IF Own(r).word = "ok" THEN {"communicator"} ELSE {}
    BY <1>4, <2>1, <2>2 DEF Takes, g, h
  <2>4. n \notin EarlyPlace \union MidPlace \union PastPlace
    BY <2>1 DEF EarlyPlace, MidPlace, PastPlace, UnseenPlace, SeenPlace, UnseenCatalog, SeenCatalog
  <2> QED BY <1>0, <2>1, <2>3, <2>4 DEF HeldInv, g
<1>8. CASE p = "handler restoration"
  <2>1. ~ Refused(r) /\ n = "communicator handler"
    BY <1>0, <1>2, <1>8 DEF Leads, Exit, EarlyPlace, Cataloguing, MidPlace, PastPlace, UnseenPlace,
                            SeenPlace, UnseenCatalog, SeenCatalog
  <2>2. h = {"communicator"}
    BY <1>1, <1>3, <1>8, <2>1 DEF HeldInv, p, h
  <2>3. g = {"communicator"}
    BY <1>4, <2>1, <2>2 DEF Takes, g, h, ClosingPlace
  <2>4. n \notin EarlyPlace \union MidPlace \union PastPlace
    BY <2>1 DEF EarlyPlace, MidPlace, PastPlace, UnseenPlace, SeenPlace, UnseenCatalog, SeenCatalog
  <2> QED BY <1>0, <2>1, <2>3, <2>4 DEF HeldInv, g
<1>9. CASE p = "communicator handler"
  <2>1. n \in {"MPI_File_open", "communicator free"}
    BY <1>0, <1>2, <1>9 DEF Leads, Exit, EarlyPlace, Cataloguing, MidPlace, PastPlace, UnseenPlace,
                            SeenPlace, UnseenCatalog, SeenCatalog
  <2>2. h = {"communicator"} /\ w \in {"ok", "failed"}
    BY <1>1, <1>5, <1>9, <2>1 DEF HeldInv, p, h, Decisive, StatePlace, ClosingPlace
  <2>3. /\ n = "MPI_File_open" => g = IF w = "ok" THEN open ELSE {"communicator"}
        /\ n = "communicator free" => g = IF w = "ok" THEN {} ELSE {"communicator"}
    BY <1>4, <2>1, <2>2 DEF Takes, g, h
  <2>4. n \notin EarlyPlace \union MidPlace \union PastPlace
    BY <2>1 DEF EarlyPlace, MidPlace, PastPlace, UnseenPlace, SeenPlace, UnseenCatalog, SeenCatalog
  <2> QED BY <1>0, <2>1, <2>3, <2>4 DEF HeldInv, g, Own
<1>10. CASE p = "MPI_File_open"
  <2>1. /\ ~ Refused(r) => n = "file handler"
        /\ Refused(r) => n = "communicator free"
    BY <1>0, <1>2, <1>10 DEF Leads, Exit, EarlyPlace, Cataloguing, MidPlace, PastPlace, UnseenPlace,
                            SeenPlace, UnseenCatalog, SeenCatalog
  <2>2. h = IF Refused(r) THEN {"communicator"} ELSE open
    BY <1>1, <1>3, <1>10 DEF HeldInv, p, h
  <2>3. CASE Refused(r)
    <3>1. g = IF w = "ok" THEN {} ELSE {"communicator"}
      BY <1>4, <2>1, <2>2, <2>3 DEF Takes, g, h
    <3>2. n \notin EarlyPlace \union MidPlace \union PastPlace
      BY <2>1, <2>3 DEF EarlyPlace, MidPlace, PastPlace, UnseenPlace, SeenPlace, UnseenCatalog, SeenCatalog
    <3> QED BY <1>0, <2>1, <2>3, <3>1, <3>2 DEF HeldInv, g, Own
  <2>4. CASE ~ Refused(r)
    <3>1. g = open
      BY <1>4, <2>1, <2>2, <2>4 DEF Takes, g, h, ClosingPlace
    <3>2. n \notin EarlyPlace \union PastPlace
      BY <2>1, <2>4 DEF EarlyPlace, PastPlace
    <3> QED BY <1>0, <2>1, <2>4, <3>1, <3>2 DEF HeldInv, g, Own
  <2> QED BY <2>3, <2>4
<1>11. CASE p \in MidPlace
  <2>1. h = open
    BY <1>1, <1>11 DEF HeldInv, p, h
  <2>2. n \in MidPlace \union {"datatype", "datatype free"}
    <3>1. Refused(r) => n \in {"catalog validation", "datatype free"}
      BY <1>2, <1>11 DEF Exit
    <3>2. ~ Refused(r) => n \in MidPlace \union {"datatype", "datatype free"}
      BY <1>2, <1>11 DEF Leads, EarlyPlace, MidPlace, UnseenPlace, SeenPlace, UnseenCatalog, SeenCatalog
    <3> QED BY <3>1, <3>2 DEF MidPlace
  <2>3. CASE n \in MidPlace
    <3>1. n \notin {"MPI_Comm_dup", "handler restoration", "MPI_File_open", "datatype", "communicator handler",
                    "post cleanup", "idle"}
                   \union ClosingPlace \union EarlyPlace \union PastPlace
      BY <2>3 DEF EarlyPlace, ClosingPlace, MidPlace, PastPlace, UnseenPlace, SeenPlace,
                  UnseenCatalog, SeenCatalog
    <3>2. g = open
      BY <1>4, <2>1, <3>1 DEF Takes, g, h
    <3> QED BY <1>0, <3>1, <3>2 DEF HeldInv, ClosingPlace, g
  <2>4. CASE n = "datatype"
    <3>1. g \in {open, open \union {"datatype"}}
      BY <1>4, <2>1, <2>4 DEF Takes, g, h
    <3>2. n \notin EarlyPlace \union MidPlace
      BY <2>4 DEF EarlyPlace, MidPlace, UnseenPlace, SeenPlace, UnseenCatalog, SeenCatalog
    <3> QED BY <1>0, <2>4, <3>1, <3>2 DEF HeldInv, g
  <2>5. CASE n = "datatype free"
    <3>1. IF w = "ok" THEN g = open ELSE g = open \union {"datatype"}
      BY <1>4, <2>1, <2>5 DEF Takes, g, h
    <3>2. n \notin EarlyPlace \union MidPlace \union PastPlace
      BY <2>5 DEF EarlyPlace, MidPlace, PastPlace, UnseenPlace, SeenPlace, UnseenCatalog, SeenCatalog
    <3> QED BY <1>0, <2>5, <3>1, <3>2 DEF HeldInv, g, Own
  <2> QED BY <2>2, <2>3, <2>4, <2>5
<1>12. CASE p \in past
  <2>1. h \in {open, open \union {"datatype"}}
    BY <1>1, <1>12 DEF HeldInv, p, h
  <2>2. n \in PastPlace \union {"datatype free"}
    <3>1. p \notin MidPlace \union EarlyPlace
      BY <1>12 DEF EarlyPlace, MidPlace, PastPlace, UnseenPlace, SeenPlace, UnseenCatalog, SeenCatalog
    <3>2. Refused(r) => n = "datatype free"
      BY <1>2, <1>12 DEF Exit, Cataloguing, PastPlace
    <3>3. ~ Refused(r) => n \in PastPlace \union {"datatype free"}
      BY <1>2, <1>12, <3>1 DEF Leads, MidPlace, PastPlace
    <3> QED BY <3>2, <3>3
  <2>3. CASE n \in PastPlace
    <3>1. n \notin {"MPI_Comm_dup", "handler restoration", "MPI_File_open", "datatype", "communicator handler",
                    "post cleanup", "idle"}
                   \union ClosingPlace \union EarlyPlace \union MidPlace
      BY <2>3 DEF EarlyPlace, ClosingPlace, MidPlace, PastPlace, UnseenPlace, SeenPlace,
                  UnseenCatalog, SeenCatalog
    <3>2. g = h
      BY <1>4, <3>1 DEF Takes, g, h
    <3> QED BY <1>0, <2>1, <3>1, <3>2 DEF HeldInv, ClosingPlace, g
  <2>4. CASE n = "datatype free"
    <3>1. IF w = "ok" THEN g = open ELSE g = open \union {"datatype"}
      BY <1>4, <2>1, <2>4 DEF Takes, g, h
    <3>2. n \notin EarlyPlace \union MidPlace \union PastPlace
      BY <2>4 DEF EarlyPlace, MidPlace, PastPlace, UnseenPlace, SeenPlace, UnseenCatalog, SeenCatalog
    <3> QED BY <1>0, <2>4, <3>1, <3>2 DEF HeldInv, g, Own
  <2> QED BY <2>2, <2>3, <2>4
<1>13. CASE p \in ClosingPlace
  <2>1. ~ Refused(r) /\ Own(r).word = "ok" /\ Leads(o, p, n)
    BY <1>2, <1>3, <1>13
  <2>2. /\ p = "datatype free" => h = open /\ n = "file close"
        /\ p = "file close" => h = {"communicator"} /\ n = "communicator free"
        /\ p = "communicator free" => h = {} /\ n = "post cleanup"
    <3>1. /\ p = "datatype free" => h = open
          /\ p = "file close" => h = {"communicator"}
          /\ p = "communicator free" => h = {}
      BY <1>1, <1>13, <2>1 DEF HeldInv, p, h
    <3>2. /\ p = "datatype free" => n = "file close"
          /\ p = "file close" => n = "communicator free"
          /\ p = "communicator free" => n = "post cleanup"
      BY <1>0, <1>13, <2>1 DEF Leads, ClosingPlace, EarlyPlace, UnseenPlace, SeenPlace, UnseenCatalog, SeenCatalog
    <3> QED BY <3>1, <3>2
  <2>3. n \in {"file close", "communicator free", "post cleanup"}
    BY <1>13, <2>2 DEF ClosingPlace
  <2>4. n \notin EarlyPlace \union MidPlace \union PastPlace
    BY <2>3 DEF EarlyPlace, MidPlace, PastPlace, UnseenPlace, SeenPlace, UnseenCatalog, SeenCatalog
  <2>5. /\ n = "file close" => g = IF w = "ok" THEN {"communicator"} ELSE open
        /\ n = "communicator free" => g = IF w = "ok" THEN {} ELSE {"communicator"}
        /\ n = "post cleanup" => g = {}
    BY <1>4, <1>13, <2>2 DEF Takes, g, h, ClosingPlace
  <2> QED BY <1>0, <2>3, <2>4, <2>5 DEF HeldInv, g, Own
<1>14. CASE p = "post cleanup"
  BY <1>0, <1>2, <1>14 DEF Leads, Exit, EarlyPlace, Cataloguing, MidPlace, PastPlace, UnseenPlace,
                           SeenPlace, UnseenCatalog, SeenCatalog
<1> QED BY <1>1, <1>6, <1>7, <1>8, <1>9, <1>10, <1>11, <1>12, <1>13, <1>14 DEF AnyPlace, p

(* Words of a place stay words of it. *)
LEMMA EnterWords ==
  ASSUME LogInv, WordsFit, NEW r \in Rank, NEW n, NEW w, Enter(r, n, w), w \in Vocabulary(n)
  PROVE  WordsFit'
<1>0. LogType
  BY DEF LogInv
<1>1. /\ \A q \in Rank : q # r => log'[q] = log[q]
      /\ log'[r][1] = [turn |-> (Turn(r) + 1) % 4, place |-> n, word |-> w]
      /\ Len(log'[r]) = OneMore(Len(log[r]))
      /\ \A i \in 1..2 : i <= Len(log[r]) => log'[r][i + 1] = log[r][i]
  BY <1>0, EnterLog
<1>2. ASSUME NEW q \in Rank, q # r
      PROVE  \A i \in 1..Len(log'[q]) : log'[q][i].word \in Vocabulary(log'[q][i].place)
  BY <1>1, <1>2 DEF WordsFit
<1>3. ASSUME NEW i \in 1..Len(log'[r]) PROVE log'[r][i].word \in Vocabulary(log'[r][i].place)
  <2> DEFINE m == Len(log[r])
  <2>1. m \in 0..3
    BY <1>0, TurnType
  <2>2. i \in 1..OneMore(m)
    BY <1>1
  <2>3. \A j \in 1..m : log[r][j].word \in Vocabulary(log[r][j].place)
    BY DEF WordsFit
  <2>4. CASE i = 1
    <3>1. log'[r][1].word = w /\ log'[r][1].place = n
      BY <1>1
    <3> QED BY <2>4, <3>1
  <2>5. CASE i # 1
    <3>1. \A j \in 1..2 : j <= m => log'[r][j + 1] = log[r][j]
      BY <1>1
    <3> HIDE DEF m
    <3>2. PICK j \in 1..2 : i = j + 1 /\ j <= m /\ j \in 1..m
      BY <2>1, <2>2, <2>5 DEF OneMore
    <3>3. log'[r][i] = log[r][j]
      BY <3>1, <3>2
    <3> QED BY <2>3, <3>2, <3>3
  <2> QED BY <2>4, <2>5
<1>4. ASSUME NEW q \in Rank
      PROVE  \A i \in 1..Len(log'[q]) : log'[q][i].word \in Vocabulary(log'[q][i].place)
  BY <1>2, <1>3
<1> QED BY <1>4 DEF WordsFit

(* No catalog is read while a file is written. *)
LEMMA AdvanceMalformed ==
  ASSUME ControlInv, NEW r \in Rank, NEW n, NEW w, Advance(r, n, w),
         NEW s \in Rank, s # r, Busy(s), Complete(s)
  PROVE  Malformed(s)' <=> Malformed(s)
<1>0. /\ Busy(r) /\ Complete(r) /\ ~ MustAbort(r) /\ Target(r) = n /\ n # "return"
      /\ Unmoved(s) /\ Fits(op[r], n)
  BY Advanced
<1>1. place'[s] = place[s]
  BY <1>0 DEF Unmoved
<1>2. CASE file' = file
  BY <1>1, <1>2 DEF Malformed
<1>3. CASE n \in WriteStep
  <2>1. op[r] \in Writing
    BY <1>0, <1>3 DEF Fits
  <2>2. op[s] = op[r]
    BY <1>0, BothComplete, DecideAlike, RankParts
  <2>3. Fits(op[s], place[s])
    BY RankParts
  <2>4. op[s] # "read_mpi_catalog"
    BY <2>1, <2>2 DEF Writing
  <2>5. place[s] \notin {"catalog size", "catalog prefix read"}
    BY <2>3, <2>4 DEF Fits, Cataloguing
  <2> QED BY <1>1, <2>5 DEF Malformed
<1> QED BY <1>2, <1>3 DEF Advance

LEMMA AdvanceInStep ==
  ASSUME ControlInv, NEW r \in Rank, NEW n, NEW w, Advance(r, n, w)
  PROVE  \A p, q \in Rank : PairInStep(p, q)'
<1>0. /\ Busy(r) /\ Complete(r) /\ ~ MustAbort(r) /\ Target(r) = n /\ n # "return"
      /\ Enter(r, n, w) /\ place'[r] = n /\ outcome'[r] = Decided(r)
      /\ op' = op /\ result' = result /\ calls' = calls
      /\ n # "descriptor" /\ n \in Places(op[r])
  BY Advanced
<1>1. \A s \in Rank : s # r => Unmoved(s)
  BY Advanced
<1>2. LogInv /\ LogType /\ LogClose /\ RankInv(r)
  BY RankParts
<1>3. ASSUME NEW s \in Rank, s # r, Busy(s), Complete(s) PROVE Malformed(s)' <=> Malformed(s)
  BY <1>3, AdvanceMalformed
<1>4. Busy(r)'
  <2>1. PlaceInv(r)'
    BY AdvancePlace
  <2>2. n # "idle"
    <3>1. n \in AnyPlace
      BY Advanced DEF Fits
    <3> QED BY <3>1 DEF AnyPlace, EarlyPlace, MidPlace, PastPlace, ClosingPlace, UnseenPlace, SeenPlace,
           UnseenCatalog, SeenCatalog
  <2> QED BY <1>0, <2>2 DEF Busy
<1>5. ASSUME NEW q \in Rank, q # r, Ahead(q, r) = 1
      PROVE  Same(r, q)' /\ Same(q, r)'
  <2>1. Lead(q, r)
    BY <1>5 DEF ControlInv, InStep
  <2>2. /\ Busy(q) /\ place[q] = n /\ op[q] = op[r] /\ calls[q] = calls[r]
        /\ Kind(outcome[q]) = Kind(Decided(r))
    BY <1>0, <2>1 DEF Lead
  <2>3. /\ place'[q] = n /\ outcome'[q] = outcome[q] /\ Busy(q)'
    BY <1>1, <1>5, <2>2 DEF Unmoved, Busy
  <2>4. Kind(outcome'[q]) = Kind(outcome'[r])
    BY <1>0, <2>2, <2>3
  <2> QED BY <1>0, <1>4, <2>2, <2>3, <2>4 DEF Same
<1>6. ASSUME NEW q \in Rank, q # r, Ahead(q, r) = 0 PROVE Lead(r, q)'
  <2>1. Same(r, q) /\ Same(q, r)
    BY <1>2, <1>6, AheadType DEF ControlInv, InStep
  <2>2. Busy(q)
    BY <1>0, <2>1 DEF Same
  <2>3. /\ Complete(q) /\ ~ MustAbort(q) /\ Target(q) = n /\ op[q] = op[r]
        /\ Kind(Decided(r)) = Kind(Decided(q))
    BY <1>0, <1>6, <2>2, DecideAlike
  <2>4. /\ ~ MustAbort(q)' /\ Target(q)' = n /\ Busy(q)'
        /\ Kind(Decided(q))' = Kind(Decided(q))
    BY <1>0, <1>1, <1>3, <1>6, <2>2, <2>3, Frame
  <2>5. calls[r] = calls[q]
    BY <2>1 DEF Same
  <2>6. Kind(outcome'[r]) = Kind(Decided(q))'
    BY <1>0, <2>3, <2>4
  <2> QED BY <1>0, <1>4, <2>3, <2>4, <2>5, <2>6 DEF Lead
<1>7. ASSUME NEW q \in Rank, q # r PROVE PairInStep(r, q)' /\ PairInStep(q, r)'
  <2>1. /\ Ahead(q, r)' = (Ahead(q, r) + 3) % 4 /\ Ahead(r, q)' = (Ahead(r, q) + 1) % 4
    BY <1>0, <1>2, <1>7, EnterAhead
  <2>2. Ahead(q, r) \in {0, 1}
    BY <1>0 DEF Complete
  <2>3. /\ Ahead(q, r) = 0 => Ahead(r, q) = 0
        /\ Ahead(q, r) = 1 => Ahead(r, q) = 3
    BY <1>2, AheadType
  <2>4. CASE Ahead(q, r) = 0
    <3>1. Ahead(q, r)' = 3 /\ Ahead(r, q)' = 1
      BY <2>1, <2>3, <2>4
    <3> QED BY <1>6, <1>7, <2>4, <3>1 DEF PairInStep
  <2>5. CASE Ahead(q, r) = 1
    <3>1. Ahead(q, r)' = 0 /\ Ahead(r, q)' = 0
      BY <2>1, <2>3, <2>5
    <3> QED BY <1>5, <1>7, <2>5, <3>1 DEF PairInStep
  <2> QED BY <2>2, <2>4, <2>5
<1>8. PairInStep(r, r)'
  <2>1. LogInv'
    BY <1>0, <1>2, EnterClose
  <2>2. Turn(r)' \in 0..3
    BY <2>1 DEF LogInv, LogType
  <2>3. Ahead(r, r)' = 0
    BY <2>2 DEF Ahead
  <2>4. Same(r, r)'
    BY <1>4 DEF Same
  <2> QED BY <2>3, <2>4 DEF PairInStep
<1>9. ASSUME NEW p \in Rank, NEW q \in Rank, p # r, q # r PROVE PairInStep(p, q)'
  <2>1. \A s \in {p, q} : Busy(s) /\ Complete(s) => (Malformed(s)' <=> Malformed(s))
    BY <1>3, <1>9
  <2> QED BY <1>0, <1>1, <1>9, <2>1, OthersInStep
<1> QED BY <1>7, <1>8, <1>9

LEMMA AdvanceControl ==
  ASSUME ControlInv, NEW r \in Rank, NEW n, NEW w, Advance(r, n, w)
  PROVE  ControlInv'
<1>0. /\ Busy(r) /\ Complete(r) /\ ~ MustAbort(r) /\ Target(r) = n /\ n # "return"
      /\ Enter(r, n, w) /\ w \in Vocabulary(n) /\ op' = op /\ result' = result /\ calls' = calls
      /\ place' \in [Rank -> AnyPlace \union {"idle"}] /\ outcome' \in [Rank -> Result \ {"ok"}]
  BY Advanced
<1>1. \A s \in Rank : s # r => Unmoved(s)
  BY Advanced
<1>2. LogInv /\ LogsMatch /\ WordsFit /\ ControlType
  BY DEF ControlInv
<1>3. LogInv'
  BY <1>0, <1>2, EnterClose
<1>4. LogsMatch'
  <2>1. ASSUME NEW q \in Rank, Ahead(q, r) = 1 PROVE Own(q).place = n
    <3>1. Lead(q, r)
      BY <2>1 DEF ControlInv, InStep
    <3>2. Busy(q) /\ place[q] = n
      BY <1>0, <3>1 DEF Lead
    <3> QED BY <3>2, RankParts DEF PlaceInv
  <2> QED BY <1>0, <1>2, <2>1, EnterMatch
<1>5. WordsFit'
  BY <1>0, <1>2, EnterWords
<1>6. held' \in [Rank -> SUBSET {"handler", "communicator", "file", "datatype"}]
  BY DEF Advance, Takes, Native
<1>7. ControlType'
  BY <1>0, <1>2, <1>6 DEF ControlType
<1>8. ASSUME NEW s \in Rank PROVE PlaceInv(s)' /\ HeldInv(s)'
  <2>1. CASE s = r
    BY <2>1, AdvancePlace, AdvanceHeld
  <2>2. CASE s # r
    BY <1>0, <1>1, <2>2, OthersKeep
  <2> QED BY <2>1, <2>2
<1>9. InStep'
  BY AdvanceInStep DEF InStep, PairInStep
<1> QED BY <1>3, <1>4, <1>5, <1>7, <1>8, <1>9 DEF ControlInv

----------------------------------------------------------------------------
(* Calls begin and end.                                                    *)

LEMMA BeginControl ==
  ASSUME ControlInv, NEW r \in Rank, Begin(r)
  PROVE  ControlInv'
<1>0. LogInv /\ LogType /\ LogsMatch /\ WordsFit /\ ControlType /\ PlaceInv(r) /\ HeldInv(r)
  BY RankParts DEF ControlInv
<1>1. /\ place[r] = "idle" /\ ~ Busy(r) /\ Complete(r) /\ held[r] = {}
  BY <1>0 DEF Begin, PlaceInv, HeldInv, Busy
<1>2. PICK o \in KnownOperation, w \in KnownOperation \union {"failed"} :
        /\ w \in {o, "failed"}
        /\ op' = [op EXCEPT ![r] = o]
        /\ Enter(r, "descriptor", w)
  <2>1. PICK o \in Operation, v \in {"ok", "failed"} :
          /\ op' = [op EXCEPT ![r] = o]
          /\ Enter(r, "descriptor", IF v = "ok" THEN o ELSE v)
    BY DEF Begin
  <2>2. o \in KnownOperation
    BY FileAssumption
  <2>3. CASE v = "ok"
    <3>1. Enter(r, "descriptor", o)
      BY <2>1, <2>3
    <3> QED BY <2>1, <2>2, <3>1
  <2>4. CASE v = "failed"
    <3>1. Enter(r, "descriptor", "failed")
      BY <2>1, <2>4
    <3> QED BY <2>1, <2>2, <3>1
  <2> QED BY <2>3, <2>4
<1>3. /\ place' = [place EXCEPT ![r] = "descriptor"] /\ outcome' = [outcome EXCEPT ![r] = "none"]
      /\ result' = [result EXCEPT ![r] = "none"] /\ calls' = [calls EXCEPT ![r] = @ + 1]
      /\ held' = held /\ file' = file
  BY DEF Begin, disk
<1>4. /\ place'[r] = "descriptor" /\ outcome'[r] = "none" /\ op'[r] = o /\ calls'[r] = calls[r] + 1
      /\ held'[r] = {} /\ Busy(r)'
  BY <1>0, <1>1, <1>2, <1>3 DEF ControlType, Busy
<1>5. ASSUME NEW s \in Rank, s # r
      PROVE  Unmoved(s) /\ (Malformed(s)' <=> Malformed(s))
  BY <1>0, <1>2, <1>3, <1>5 DEF Unmoved, ControlType, Malformed
<1>6. /\ log'[r][1] = [turn |-> (Turn(r) + 1) % 4, place |-> "descriptor", word |-> w]
      /\ Len(log'[r]) = OneMore(Len(log[r]))
  BY <1>0, <1>2, EnterLog
<1>7. LogInv'
  BY <1>0, <1>1, <1>2, EnterClose
<1>8. LogsMatch'
  <2>1. ASSUME NEW q \in Rank, Ahead(q, r) = 1 PROVE Own(q).place = "descriptor"
    <3>1. Lead(q, r)
      BY <2>1 DEF ControlInv, InStep
    <3>2. Busy(q) /\ place[q] = "descriptor"
      BY <1>1, <3>1 DEF Lead
    <3> QED BY <3>2, RankParts DEF PlaceInv
  <2> QED BY <1>0, <1>1, <1>2, <2>1, EnterMatch
<1>9. WordsFit'
  <2>1. w \in Vocabulary("descriptor")
    BY <1>2 DEF Vocabulary
  <2> QED BY <1>0, <1>2, <2>1, EnterWords
<1>10. ControlType'
  <2>1. "descriptor" \in AnyPlace /\ "none" \in Result
    BY DEF AnyPlace, EarlyPlace, Result
  <2> QED BY <1>0, <1>2, <1>3, <2>1 DEF ControlType
<1>11. PlaceInv(r)'
  <2>1. Len(log'[r]) >= 1
    <3>1. Len(log[r]) \in 0..3
      BY <1>0, TurnType
    <3> QED BY <1>6, <3>1 DEF OneMore
  <2>2. Own(r)' = log'[r][1]
    BY DEF Own
  <2>3. Own(r)'.place = "descriptor" /\ Own(r)'.word = w
    BY <1>6, <2>2
  <2>4. "descriptor" \in Places(o)
    BY PlacesOf
  <2> QED BY <1>2, <1>4, <2>1, <2>3, <2>4 DEF PlaceInv
<1>12. HeldInv(r)'
  <2>1. "descriptor" \notin MidPlace \union PastPlace
    BY DEF MidPlace, PastPlace, UnseenPlace, SeenPlace, UnseenCatalog, SeenCatalog
  <2> QED BY <1>4, <2>1 DEF HeldInv
<1>13. ASSUME NEW s \in Rank PROVE PlaceInv(s)' /\ HeldInv(s)'
  <2>1. CASE s = r
    BY <1>11, <1>12, <2>1
  <2>2. CASE s # r
    BY <1>1, <1>2, <1>5, <2>2, OthersKeep
  <2> QED BY <2>1, <2>2
<1>14. ASSUME NEW q \in Rank, q # r, Ahead(q, r) = 1 PROVE Same(r, q)' /\ Same(q, r)'
  <2>1. Lead(q, r)
    BY <1>14 DEF ControlInv, InStep
  <2>2. Busy(q) /\ place[q] = "descriptor" /\ calls[q] = calls[r] + 1
    BY <1>1, <2>1 DEF Lead
  <2>3. outcome[q] = "none"
    BY <2>2, RankParts DEF PlaceInv, ClosingPlace
  <2>4. place'[q] = "descriptor" /\ outcome'[q] = "none" /\ Busy(q)' /\ calls'[q] = calls[r] + 1
    BY <1>5, <1>14, <2>2, <2>3 DEF Unmoved, Busy
  <2> QED BY <1>4, <2>4 DEF Same
<1>15. ASSUME NEW q \in Rank, q # r, Ahead(q, r) = 0 PROVE Lead(r, q)'
  <2>1. Same(r, q)
    BY <1>15 DEF ControlInv, InStep
  <2>2. /\ calls[q] = calls[r]
        /\ Busy(q) => ~ MustAbort(q) /\ Target(q) = "return"
    BY <1>1, <2>1 DEF Same
  <2>3. Complete(q)
    BY <1>0, <1>1, <1>15, SameTurn
  <2>4. Busy(q) => ~ MustAbort(q)' /\ Target(q)' = "return"
    BY <1>1, <1>2, <1>5, <1>15, <2>2, <2>3, Frame
  <2>5. calls'[q] = calls[q] /\ (Busy(q)' <=> Busy(q))
    BY <1>5, <1>15 DEF Unmoved, Busy
  <2> QED BY <1>4, <2>2, <2>4, <2>5 DEF Lead
<1>16. ASSUME NEW q \in Rank, q # r PROVE PairInStep(r, q)' /\ PairInStep(q, r)'
  <2>1. /\ Ahead(q, r)' = (Ahead(q, r) + 3) % 4 /\ Ahead(r, q)' = (Ahead(r, q) + 1) % 4
    BY <1>0, <1>2, <1>16, EnterAhead
  <2>2. Ahead(q, r) \in {0, 1}
    BY <1>1 DEF Complete
  <2>3. /\ Ahead(q, r) = 0 => Ahead(r, q) = 0
        /\ Ahead(q, r) = 1 => Ahead(r, q) = 3
    BY <1>0, AheadType
  <2>4. CASE Ahead(q, r) = 0
    <3>1. Ahead(q, r)' = 3 /\ Ahead(r, q)' = 1
      BY <2>1, <2>3, <2>4
    <3> QED BY <1>15, <1>16, <2>4, <3>1 DEF PairInStep
  <2>5. CASE Ahead(q, r) = 1
    <3>1. Ahead(q, r)' = 0 /\ Ahead(r, q)' = 0
      BY <2>1, <2>3, <2>5
    <3> QED BY <1>14, <1>16, <2>5, <3>1 DEF PairInStep
  <2> QED BY <2>2, <2>4, <2>5
<1>17. PairInStep(r, r)'
  <2>1. Turn(r)' \in 0..3
    BY <1>7 DEF LogInv, LogType
  <2>2. Ahead(r, r)' = 0
    BY <2>1 DEF Ahead
  <2>3. Same(r, r)'
    BY <1>4 DEF Same
  <2> QED BY <2>2, <2>3 DEF PairInStep
<1>18. ASSUME NEW p \in Rank, NEW q \in Rank, p # r, q # r PROVE PairInStep(p, q)'
  <2>1. \A s \in {p, q} : Busy(s) /\ Complete(s) => (Malformed(s)' <=> Malformed(s))
    BY <1>5, <1>18
  <2> QED BY <1>1, <1>2, <1>5, <1>18, <2>1, OthersInStep
<1>19. InStep'
  BY <1>16, <1>17, <1>18 DEF InStep, PairInStep
<1> QED BY <1>7, <1>8, <1>9, <1>10, <1>13, <1>19 DEF ControlInv

LEMMA ReturnControl ==
  ASSUME ControlInv, NEW r \in Rank, Return(r)
  PROVE  ControlInv'
<1>0. LogInv /\ LogType /\ LogsMatch /\ WordsFit /\ ControlType /\ RankInv(r) /\ PlaceInv(r)
  BY RankParts DEF ControlInv
<1>1. /\ Busy(r) /\ Complete(r) /\ ~ MustAbort(r) /\ Target(r) = "return"
      /\ log' = log /\ op' = op /\ outcome' = outcome /\ held' = held /\ file' = file
      /\ calls' = calls /\ place' = [place EXCEPT ![r] = "idle"]
  BY DEF Return, Reaches, Leaves, Busy, bounds, disk
<1>1a. result' = [result EXCEPT ![r] = Returning(r)]
  <2> DEFINE o == IF outcome[r] = "none" /\ Refused(r) THEN Error(r)
                  ELSE IF outcome[r] = "none" THEN "ok" ELSE outcome[r]
  <2>1. Error(r) # "none"
    BY <1>1, ErrorsKnown, RankParts DEF ErrorFact
  <2>2. result' = [result EXCEPT ![r] = o]
    BY DEF Return
  <2>3. o = Returning(r)
    BY <2>1 DEF Returning, Decided
  <2> QED BY <2>2, <2>3
<1>2. LogInv' /\ LogsMatch' /\ WordsFit'
  BY <1>0, <1>1 DEF LogInv, LogType, LogClose, LogsMatch, WordsFit, Ahead, Turn
<1>3. /\ \A p \in Rank : /\ Complete(p)' <=> Complete(p)
                         /\ Words(p)' = Words(p) /\ WordsBefore(p)' = WordsBefore(p)
                         /\ Own(p)' = Own(p)
      /\ \A p, q \in Rank : Ahead(q, p)' = Ahead(q, p)
  BY <1>1 DEF Complete, Words, WordsBefore, WordOf, Own, Ahead, Turn
<1>4. Returning(r) \in Result
  <2>1. Error(r) \in Result
    BY <1>1, ErrorsKnown, RankParts DEF ErrorFact
  <2>2. "ok" \in Result /\ outcome[r] \in Result
    BY <1>0 DEF RankInv, Result
  <2> QED BY <2>1, <2>2 DEF Returning, Decided
<1>5. ControlType'
  BY <1>0, <1>1, <1>1a, <1>4 DEF ControlType
<1>6. /\ place'[r] = "idle" /\ ~ Busy(r)' /\ result'[r] = Returning(r) /\ held'[r] = {}
  BY <1>0, <1>1, <1>1a, ReturnsEmpty DEF ControlType, Busy
<1>7. ASSUME NEW s \in Rank, s # r PROVE Unmoved(s)
  BY <1>0, <1>1, <1>1a, <1>7 DEF Unmoved, ControlType
<1>8. ASSUME NEW s \in Rank, s # r
      PROVE  /\ Busy(s)' <=> Busy(s)
             /\ place'[s] = place[s] /\ result'[s] = result[s]
             /\ MustAbort(s)' <=> MustAbort(s)
             /\ Target(s)' = Target(s) /\ Decided(s)' = Decided(s)
  <2>1. place'[s] = place[s] /\ result'[s] = result[s] /\ (Busy(s)' <=> Busy(s))
    BY <1>7, <1>8 DEF Unmoved, Busy
  <2>2. Agreed(s)' <=> Agreed(s)
    BY <1>3, <2>1 DEF Agreed
  <2>3. Malformed(s)' <=> Malformed(s)
    BY <1>1, <2>1 DEF Malformed
  <2>4. Refused(s)' <=> Refused(s)
    BY <2>1, <2>2, <2>3 DEF Refused
  <2>5. MustAbort(s)' <=> MustAbort(s)
    BY <1>3, <2>1 DEF MustAbort
  <2>6. Target(s)' = Target(s)
    <3>1. InCatalog(s)' <=> InCatalog(s)
      BY <1>1, <2>1 DEF InCatalog
    <3>2. AgreesAfterError(s)' <=> AgreesAfterError(s)
      BY <1>1 DEF AgreesAfterError
    <3>3. NextPlace(op[s], place[s])' = NextPlace(op[s], place[s])
      BY <1>1, <2>1
    <3> QED BY <1>1, <2>1, <2>4, <3>1, <3>2, <3>3 DEF Target
  <2>7. Error(s)' = Error(s)
    <3>1. \A a, b : LocalOr(s, a, b)' = LocalOr(s, a, b)
      BY <1>3 DEF LocalOr
    <3>2. WriteError(s)' = WriteError(s)
      BY <1>3, <2>1 DEF WriteError, LocalOr
    <3>3. ReadError(s)' = ReadError(s)
      BY <1>1, <1>3, <2>1 DEF ReadError, LocalOr
    <3> QED BY <1>1, <1>3, <2>1, <2>2, <2>3, <3>2, <3>3 DEF Error, LocalOr
  <2>8. Decided(s)' = Decided(s)
    BY <1>1, <2>4, <2>7 DEF Decided
  <2> QED BY <2>1, <2>5, <2>6, <2>8
<1>9. ASSUME NEW s \in Rank PROVE PlaceInv(s)' /\ HeldInv(s)'
  <2>1. CASE s = r
    <3>1. PlaceInv(s)'
      BY <1>1, <1>3, <1>6, <2>1 DEF PlaceInv
    <3>2. "idle" \notin MidPlace \union PastPlace
      BY DEF MidPlace, PastPlace, UnseenPlace, SeenPlace, UnseenCatalog, SeenCatalog
    <3>3. HeldInv(s)'
      BY <1>6, <2>1, <3>2 DEF HeldInv
    <3> QED BY <3>1, <3>3
  <2>2. CASE s # r
    <3>1. PlaceInv(s) /\ HeldInv(s)
      BY RankParts
    <3>2. PlaceInv(s)'
      BY <1>1, <1>3, <1>8, <2>2, <3>1 DEF PlaceInv
    <3>3. HeldInv(s)'
      BY <1>1, <1>3, <1>8, <2>2, <3>1 DEF HeldInv
    <3> QED BY <3>2, <3>3
  <2> QED BY <2>1, <2>2
<1>10. ASSUME NEW q \in Rank, q # r PROVE PairInStep(r, q)' /\ PairInStep(q, r)'
  <2>1. Ahead(q, r) \in {0, 1}
    BY <1>1 DEF Complete
  <2>2. /\ Ahead(q, r) = 0 => Ahead(r, q) = 0
        /\ Ahead(q, r) = 1 => Ahead(r, q) = 3
    BY <1>0, AheadType
  <2>3. CASE Ahead(q, r) = 0
    <3>1. Same(r, q) /\ Same(q, r)
      BY <2>2, <2>3 DEF ControlInv, InStep
    <3>2. CASE Busy(q)
      <4>1. ~ MustAbort(q) /\ Target(q) = "return" /\ Kind(Decided(r)) = Kind(Decided(q))
        BY <1>1, <2>3, <3>2, DecideAlike
      <4>2. Kind(Returning(r)) = Kind(Returning(q))
        BY <4>1 DEF Returning, Kind
      <4>3. Kind(Returning(q))' = Kind(Returning(q))
        BY <1>8, <1>10 DEF Returning
      <4>4. Same(r, q)' /\ Same(q, r)'
        BY <1>1, <1>6, <1>8, <1>10, <3>1, <3>2, <4>1, <4>2, <4>3 DEF Same
      <4> QED BY <1>3, <2>2, <2>3, <4>4 DEF PairInStep
    <3>3. CASE ~ Busy(q)
      <4>1. Kind(result[q]) = Kind(Returning(r))
        BY <1>1, <3>1, <3>3 DEF Same
      <4>2. Same(r, q)' /\ Same(q, r)'
        BY <1>1, <1>6, <1>8, <1>10, <3>1, <3>3, <4>1 DEF Same
      <4> QED BY <1>3, <2>2, <2>3, <4>2 DEF PairInStep
    <3> QED BY <3>2, <3>3
  <2>4. CASE Ahead(q, r) = 1
    <3>1. Lead(q, r)
      BY <2>4 DEF ControlInv, InStep
    <3>2. Lead(q, r)'
      BY <1>1, <1>6, <1>8, <1>10, <3>1 DEF Lead
    <3> QED BY <1>3, <2>2, <2>4, <3>2 DEF PairInStep
  <2> QED BY <2>1, <2>3, <2>4
<1>11. PairInStep(r, r)'
  <2>1. Ahead(r, r) = 0
    BY <1>0, AheadType
  <2>2. Same(r, r)'
    BY <1>6 DEF Same
  <2> QED BY <1>3, <2>1, <2>2 DEF PairInStep
<1>12. ASSUME NEW p \in Rank, NEW q \in Rank, p # r, q # r PROVE PairInStep(p, q)'
  <2>1. PairInStep(p, q)
    BY DEF ControlInv, InStep, PairInStep
  <2>2. Returning(q)' = Returning(q) /\ Returning(p)' = Returning(p)
    BY <1>8, <1>12 DEF Returning
  <2>3. Same(p, q)' <=> Same(p, q)
    BY <1>1, <1>8, <1>12, <2>2 DEF Same
  <2>4. Lead(q, p)' <=> Lead(q, p)
    BY <1>1, <1>8, <1>12 DEF Lead
  <2> QED BY <1>3, <2>1, <2>3, <2>4 DEF PairInStep
<1>13. InStep'
  BY <1>10, <1>11, <1>12 DEF InStep, PairInStep
<1> QED BY <1>2, <1>5, <1>9, <1>13 DEF ControlInv

LEMMA StaysControl ==
  ASSUME ControlInv, Stays
  PROVE  ControlInv'
<1>0. /\ log' = log /\ place' = place /\ op' = op /\ outcome' = outcome /\ result' = result
      /\ held' = held /\ calls' = calls /\ file' = file
  BY DEF Stays, control, disk
<1>1. LogInv' /\ LogsMatch' /\ WordsFit' /\ ControlType'
  BY <1>0 DEF ControlInv, LogInv, LogType, LogClose, LogsMatch, WordsFit, Ahead, Turn, ControlType
<1>2. /\ \A p \in Rank : /\ Complete(p)' <=> Complete(p)
                         /\ Words(p)' = Words(p) /\ WordsBefore(p)' = WordsBefore(p)
                         /\ Own(p)' = Own(p) /\ (Busy(p)' <=> Busy(p))
      /\ \A p, q \in Rank : Ahead(q, p)' = Ahead(q, p)
  BY <1>0 DEF Complete, Words, WordsBefore, WordOf, Own, Ahead, Turn, Busy
<1>3. ASSUME NEW s \in Rank
      PROVE  /\ MustAbort(s)' <=> MustAbort(s)
             /\ Target(s)' = Target(s) /\ Decided(s)' = Decided(s) /\ Returning(s)' = Returning(s)
             /\ PlaceInv(s)' /\ HeldInv(s)'
  <2>1. (Agreed(s)' <=> Agreed(s)) /\ (Malformed(s)' <=> Malformed(s))
    BY <1>0, <1>2 DEF Agreed, Malformed
  <2>2. Refused(s)' <=> Refused(s)
    BY <1>0, <2>1 DEF Refused
  <2>3. MustAbort(s)' <=> MustAbort(s)
    BY <1>0, <1>2 DEF MustAbort
  <2>4. Target(s)' = Target(s)
    <3>1. InCatalog(s)' <=> InCatalog(s)
      BY <1>0 DEF InCatalog
    <3>2. AgreesAfterError(s)' <=> AgreesAfterError(s)
      BY <1>0 DEF AgreesAfterError
    <3>3. NextPlace(op[s], place[s])' = NextPlace(op[s], place[s])
      BY <1>0
    <3> QED BY <1>0, <2>2, <3>1, <3>2, <3>3 DEF Target
  <2>5. Error(s)' = Error(s)
    <3>1. WriteError(s)' = WriteError(s)
      BY <1>0, <1>2 DEF WriteError, LocalOr
    <3>2. ReadError(s)' = ReadError(s)
      BY <1>0, <1>2 DEF ReadError, LocalOr
    <3> QED BY <1>0, <1>2, <2>1, <3>1, <3>2 DEF Error, LocalOr
  <2>6. Decided(s)' = Decided(s) /\ Returning(s)' = Returning(s)
    BY <1>0, <2>2, <2>5 DEF Decided, Returning
  <2>7. PlaceInv(s)' /\ HeldInv(s)'
    <3>1. PlaceInv(s) /\ HeldInv(s)
      BY RankParts
    <3>2. PlaceInv(s)'
      BY <1>0, <1>2, <3>1 DEF PlaceInv
    <3>3. HeldInv(s)'
      BY <1>0, <1>2, <3>1 DEF HeldInv
    <3> QED BY <3>2, <3>3
  <2> QED BY <2>3, <2>4, <2>6, <2>7
<1>4. ASSUME NEW p \in Rank, NEW q \in Rank
      PROVE  (Same(p, q)' <=> Same(p, q)) /\ (Lead(q, p)' <=> Lead(q, p))
  BY <1>0, <1>2, <1>3 DEF Same, Lead
<1>5. InStep'
  BY <1>2, <1>4 DEF ControlInv, InStep
<1> QED BY <1>1, <1>3, <1>5 DEF ControlInv

(* Ranks that have called nothing yet are in step. *)
AtRest ==
  /\ NoReductions /\ place = [r \in Rank |-> "idle"] /\ op \in [Rank -> KnownOperation]
  /\ outcome = [r \in Rank |-> "none"] /\ result = [r \in Rank |-> "none"]
  /\ held = [r \in Rank |-> {}] /\ calls = [r \in Rank |-> 0]

LEMMA RestControl == AtRest => ControlInv
<1> SUFFICES ASSUME AtRest PROVE ControlInv
  OBVIOUS
<1>1. LogInv /\ LogsMatch /\ \A r \in Rank : Complete(r)
  BY NothingEntered DEF AtRest
<1>2. WordsFit
  BY DEF AtRest, NoReductions, WordsFit
<1>3. ControlType
  BY DEF AtRest, ControlType, Result
<1>4. ASSUME NEW r \in Rank PROVE ~ Busy(r) /\ PlaceInv(r) /\ HeldInv(r)
  <2>1. ~ Busy(r) /\ place[r] = "idle" /\ held[r] = {}
    BY DEF AtRest, Busy
  <2>2. "idle" \notin MidPlace \union PastPlace
    BY DEF MidPlace, PastPlace, UnseenPlace, SeenPlace, UnseenCatalog, SeenCatalog
  <2> QED BY <1>1, <2>1, <2>2 DEF PlaceInv, HeldInv
<1>5. ASSUME NEW p \in Rank, NEW q \in Rank PROVE PairInStep(p, q)
  <2>1. Ahead(q, p) = 0
    BY <1>1, BothComplete
  <2>2. Same(p, q)
    BY <1>4 DEF AtRest, Same
  <2> QED BY <2>1, <2>2 DEF PairInStep
<1>6. InStep
  BY <1>5 DEF InStep, PairInStep
<1> QED BY <1>1, <1>2, <1>3, <1>4, <1>6 DEF ControlInv

LEMMA ControlInit == Init => ControlInv
<1> SUFFICES ASSUME Init PROVE AtRest
  BY RestControl
<1>1. "read_mpi" \in KnownOperation
  BY DEF KnownOperation
<1> QED BY <1>1 DEF Init, AtRest

LEMMA ControlNext == ControlInv /\ [Next]_vars => ControlInv'
<1> SUFFICES ASSUME ControlInv, [Next]_vars PROVE ControlInv'
  OBVIOUS
<1>1. ASSUME NEW r \in Rank, Begin(r) PROVE ControlInv'
  BY <1>1, BeginControl
<1>2. ASSUME NEW r \in Rank, Step(r) PROVE ControlInv'
  BY <1>2, StepKinds, StaysControl, ReturnControl, AdvanceControl DEF Advances
<1>3. CASE Crash
  <2>1. AtRest'
    BY <1>3 DEF Crash, AtRest, NoReductions, ControlInv, ControlType
  <2>2. (AtRest => ControlInv)'
    BY RestControl, PTL
  <2> QED BY <2>1, <2>2
<1>4. CASE UNCHANGED vars
  <2>1. Stays
    BY <1>4 DEF vars, Stays, bounds
  <2> QED BY <2>1, StaysControl
<1>5. CASE Done
  BY <1>4, <1>5 DEF Done
<1> QED BY <1>1, <1>2, <1>3, <1>4, <1>5 DEF Next

(* Ranks are always in step: at the same place of the same call when they  *)
(* are at the same reduction, with the same verdict to come; one ahead of  *)
(* the other at most, and then where the other will go.                    *)
THEOREM RanksStayInStep == Spec => []ControlInv
BY ControlInit, ControlNext, PTL DEF Spec

(* The n-th reductions of all ranks are the same reduction of the call, on *)
(* every path through the error handling (mpi_io.rs): MPI never combines   *)
(* words that have nothing to do with each other.                          *)
THEOREM ReductionsAlwaysMatch == Spec => []ReductionsMatch
<1>1. ControlInv => ReductionsMatch
  BY MatchingLogs DEF ControlInv
<1> QED BY <1>1, RanksStayInStep, PTL

(* Ranks that return from the same call return Ok together (write_mpi and  *)
(* read_mpi of mpi_io.rs): an error on one rank means that no rank has     *)
(* published its block.  So do the errors that all ranks report alike.     *)
THEOREM OutcomesAlwaysAgree == Spec => []OutcomesAgree
<1>1. ASSUME ControlInv PROVE OutcomesAgree
  <2>1. ASSUME NEW p \in Rank, NEW q \in Rank,
               NEW o \in {"ok", "SizeLimit", "Empty", "Incompatible first", "Incompatible second"},
               SameCall(p, q), result[p] = o
        PROVE  result[q] = o
    <3>1. ~ Busy(p) /\ ~ Busy(q) /\ calls[p] = calls[q]
      BY <2>1 DEF SameCall, Busy
    <3>2. Ahead(q, p) = 0
      BY <1>1, <3>1, BothComplete, RankParts DEF PlaceInv
    <3>3. Kind(result[p]) = Kind(result[q])
      BY <1>1, <3>1, <3>2 DEF ControlInv, InStep, Same
    <3> QED BY <2>1, <3>3 DEF Kind
  <2> QED BY <2>1 DEF OutcomesAgree
<1>2. ControlInv => OutcomesAgree
  BY <1>1
<1> QED BY <1>2, RanksStayInStep, PTL

(* Nobody leaves a call while a rank still holds a communicator, file or   *)
(* datatype of it, or has the caller's error handler replaced.             *)
THEOREM ResourcesAlwaysReleased == Spec => []ResourcesReleased
<1>1. ASSUME ControlInv PROVE ResourcesReleased
  <2>1. ASSUME NEW p \in Rank, NEW q \in Rank, place[q] = "idle", calls[p] = calls[q]
        PROVE  held[p] = {}
    <3>1. ~ Busy(q) /\ Complete(q) /\ calls[q] \in Nat
      BY <1>1, <2>1, RankParts DEF PlaceInv, Busy, RankInv
    <3>2. Ahead(p, q) = 0
      <4>1. Ahead(p, q) # 1
        <5>1. ASSUME Lead(p, q) PROVE FALSE
          <6>1. calls[p] = calls[q] + 1
            BY <3>1, <5>1 DEF Lead
          <6> QED BY <2>1, <3>1, <6>1
        <5> QED BY <1>1, <5>1 DEF ControlInv, InStep
      <4> QED BY <3>1, <4>1 DEF Complete
    <3>3. Same(q, p)
      BY <1>1, <3>2 DEF ControlInv, InStep
    <3>4. CASE Busy(p)
      <4>1. ~ MustAbort(p) /\ Target(p) = "return"
        BY <3>1, <3>3, <3>4 DEF Same
      <4>2. Complete(p)
        BY <1>1, <3>1, <3>2, SameTurn, RankParts
      <4> QED BY <1>1, <3>4, <4>1, <4>2, ReturnsEmpty
    <3>5. CASE ~ Busy(p)
      BY <1>1, <3>5, RankParts DEF HeldInv, Busy
    <3> QED BY <3>4, <3>5
  <2> QED BY <2>1 DEF ResourcesReleased
<1>2. ControlInv => ResourcesReleased
  BY <1>1
<1> QED BY <1>2, RanksStayInStep, PTL

----------------------------------------------------------------------------
(* The file.                                                               *)

FileState == {"absent", "cached", "stored"}

LEMMA Parts ==
  /\ {"header", "marker", "length", LastRank} \subseteq Part /\ Root \in Rank /\ LastRank \in Rank
  /\ \A r \in Rank : /\ PayloadOf(r) \subseteq Part \ {"header", "marker"}
                     /\ BlockOf(r) \subseteq Part
                     /\ r \notin {"header", "marker", "length"}
  /\ \A x \in Part : x \in {"header", "marker"} \/ \E r \in Rank : x \in PayloadOf(r)
BY FileAssumption DEF Part, PayloadOf, BlockOf

(* What a write does, whether it fails or not. *)
LEMMA WrittenMeans ==
  ASSUME FileType, NEW ps, NEW w, Written(ps, w)
  PROVE  /\ file' \in [Part -> FileState]
         /\ \A x \in Part : /\ file[x] # "absent" => file'[x] = file[x]
                            /\ file[x] = "absent" /\ file'[x] # "absent" => x \in ps
                            /\ w = "ok" /\ x \in ps => file'[x] # "absent"
<1>1. PICK done : /\ done \in IF w = "ok" THEN {ps} ELSE SUBSET ps
                  /\ file' = [x \in Part |->
                       IF x \in done /\ file[x] = "absent" THEN "cached" ELSE file[x]]
  BY DEF Written
<1>2. done \subseteq ps /\ (w = "ok" => done = ps)
  BY <1>1
<1>3. file \in [Part -> FileState]
  BY DEF FileType, FileState
<1> QED BY <1>1, <1>2, <1>3 DEF FileState

(* The parts that r may write at place n. *)
MayWrite(r, n) ==
  IF n = "header write" /\ r = Root THEN {"header"}
  ELSE IF n = "payload write" THEN PayloadOf(r)
  ELSE IF n = "marker write" /\ r = Root THEN {"marker"} ELSE {}

LEMMA Monotone ==
  ASSUME FileType, NEW r \in Rank, NEW n, NEW w, Advance(r, n, w), Effect(r, n, w)
  PROVE  /\ file' \in [Part -> FileState]
         /\ \A x \in Part :
              /\ file[x] # "absent" => file'[x] # "absent"
              /\ file[x] = "stored" => file'[x] = "stored"
              /\ file[x] = "absent" /\ file'[x] # "absent" => x \in MayWrite(r, n)
         /\ created' \in BOOLEAN /\ (created => created')
<1>0. file \in [Part -> FileState] /\ created \in BOOLEAN
  BY DEF FileType, FileState
<1>1. created' \in BOOLEAN /\ (created => created')
  BY <1>0 DEF Effect
<1>2. CASE n = "header write"
  <2>1. Written(IF r = Root THEN {"header"} ELSE {}, w)
    BY <1>2 DEF Effect
  <2> DEFINE ps == IF r = Root THEN {"header"} ELSE {}
  <2>2. ps = MayWrite(r, n)
    BY <1>2 DEF MayWrite
  <2> QED BY <1>1, <2>1, <2>2, WrittenMeans DEF FileState
<1>3. CASE n = "payload write"
  <2>1. Written(PayloadOf(r), w)
    BY <1>3 DEF Effect
  <2>2. PayloadOf(r) = MayWrite(r, n)
    BY <1>3 DEF MayWrite
  <2> QED BY <1>1, <2>1, <2>2, WrittenMeans DEF FileState
<1>4. CASE n = "marker write"
  <2>1. Written(IF r = Root THEN {"marker"} ELSE {}, w)
    BY <1>4 DEF Effect
  <2> DEFINE ps == IF r = Root THEN {"marker"} ELSE {}
  <2>2. ps = MayWrite(r, n)
    BY <1>4 DEF MayWrite
  <2> QED BY <1>1, <2>1, <2>2, WrittenMeans DEF FileState
<1>5. CASE n \in Flushing
  <2>1. file' = [x \in Part |-> IF w = "ok" /\ x \in WrittenBy(r) /\ file[x] = "cached"
                               THEN "stored" ELSE file[x]]
    BY <1>5 DEF Effect
  <2> QED BY <1>0, <1>1, <2>1 DEF FileState
<1>6. CASE n \notin WriteStep
  <2>1. file' = file
    BY <1>6 DEF Effect
  <2> QED BY <1>0, <1>1, <2>1
<1> QED BY <1>2, <1>3, <1>4, <1>5, <1>6 DEF WriteStep, Flushing

(* A rank that goes on without an error. *)
LEMMA GoesOn ==
  ASSUME ControlInv, NEW r \in Rank, NEW n, NEW w, Advance(r, n, w)
  PROVE  /\ outcome'[r] = "none" => ~ Refused(r) /\ outcome[r] = "none"
         /\ ~ Refused(r) =>
              /\ Leads(op[r], place[r], n)
              /\ place[r] \in Decisive \ {"MPI_Comm_dup"} => Own(r).word = "ok" /\ Words(r) = {"ok"}
         /\ Refused(r) => n = Exit(op[r], place[r])
         /\ place[r] \notin ClosingPlace \union {"post cleanup", "catalog validation"} => outcome[r] = "none"
<1>0. /\ Busy(r) /\ Complete(r) /\ ~ MustAbort(r) /\ Target(r) = n /\ n # "return"
      /\ outcome'[r] = Decided(r)
  BY Advanced
<1>1. LogInv /\ LogsMatch /\ WordsFit /\ PlaceInv(r)
  BY RankParts
<1>2. Error(r) # "none"
  BY <1>0, ErrorsKnown, RankParts DEF ErrorFact
<1>3. outcome'[r] = "none" => ~ Refused(r) /\ outcome[r] = "none"
  BY <1>0, <1>2 DEF Decided
<1>4. ~ Refused(r) /\ place[r] \in Decisive \ {"MPI_Comm_dup"} => Own(r).word = "ok" /\ Words(r) = {"ok"}
  BY <1>0, <1>1, Decision
<1>5. (~ Refused(r) => Leads(op[r], place[r], n)) /\ (Refused(r) => n = Exit(op[r], place[r]))
  BY <1>0, Following
<1>6. place[r] \notin ClosingPlace \union {"post cleanup", "catalog validation"} => outcome[r] = "none"
  BY <1>0, <1>1 DEF PlaceInv
<1> QED BY <1>3, <1>4, <1>5, <1>6

(* Where the others are when a rank goes on. *)
LEMMA Together ==
  ASSUME ControlInv, NEW r \in Rank, Busy(r), Complete(r), ~ MustAbort(r), Target(r) # "return",
         NEW q \in Rank
  PROVE  /\ Busy(q) /\ op[q] = op[r]
         /\ \/ /\ Ahead(q, r) = 0 /\ place[q] = place[r] /\ Kind(outcome[q]) = Kind(outcome[r])
               /\ Complete(q) /\ (Refused(q) <=> Refused(r))
            \/ /\ Ahead(q, r) = 1 /\ place[q] = Target(r) /\ Kind(outcome[q]) = Kind(Decided(r))
<1>1. CASE Ahead(q, r) = 0
  <2>1. Same(r, q) /\ Same(q, r)
    BY <1>1, AheadType, RankParts DEF ControlInv, InStep
  <2>2. Busy(q)
    BY <2>1 DEF Same
  <2>3. Kind(outcome[q]) = Kind(outcome[r])
    BY <2>1, <2>2 DEF Same
  <2> QED BY <1>1, <2>2, <2>3, DecideAlike
<1>2. CASE Ahead(q, r) = 1
  <2>1. Lead(q, r)
    BY <1>2 DEF ControlInv, InStep
  <2> QED BY <1>2, <2>1 DEF Lead
<1> QED BY <1>1, <1>2 DEF Complete

(* The way of a write, backwards. *)
WriterCame(p, n) ==
  /\ n = "file handler" => p = "MPI_File_open"
  /\ n = "header write" => p = "file handler"
  /\ n = "header flush" => p = "header write"
  /\ n = "datatype" => p = "header flush"
  /\ n = "file view" => p = "datatype"
  /\ n = "payload write" => p = "file view"
  /\ n = "payload flush" => p = "payload write"
  /\ n = "payload size" => p = "payload flush"
  /\ n = "marker view" => p = "payload size"
  /\ n = "marker write" => p = "marker view"
  /\ n = "marker flush" => p = "marker write"
  /\ n = "datatype free" => p = "marker flush"
  /\ n = "file close" => p = "datatype free"
  /\ n = "communicator free" => p = "file close"
  /\ n = "post cleanup" => p = "communicator free"
  /\ n = "MPI_File_open" => p = "communicator handler"

LEMMA WriterCameFrom ==
  ASSUME NEW o \in Writing, NEW p, NEW n, Leads(o, p, n), Fits(o, p)
  PROVE  WriterCame(p, n)
<1>1. /\ o \notin ReadOp /\ o # "read_mpi_raw" /\ o # "read_mpi_catalog"
  BY DEF Writing, ReadOp
<1>2. /\ p \notin (UnseenPlace \union SeenPlace \union {"prefix validation"})
      /\ p \notin Cataloguing \union {"catalog validation", "raw file size", "payload read", "physical staging"}
  BY <1>1 DEF Fits, UnseenPlace, SeenPlace
<1>3. p \notin UnseenCatalog \union SeenCatalog
  BY <1>2 DEF Cataloguing, UnseenCatalog, SeenCatalog, UnseenPlace
<1> QED BY <1>1, <1>2, <1>3 DEF WriterCame, Leads, EarlyPlace, Cataloguing

(* What is true of a part that was written stays true. *)
LEMMA OthersWrite ==
  ASSUME ControlInv, FileInv, NEW r \in Rank, NEW n, NEW w, Advance(r, n, w), Effect(r, n, w),
         NEW s \in Rank, s # r
  PROVE  /\ WriteInv(s)' /\ ReadInv(s)'
         /\ OnPath(s)' <=> OnPath(s)
         /\ place'[s] = place[s] /\ outcome'[s] = outcome[s]
         /\ Busy(s) /\ Complete(s) => Complete(s)' /\ (Refused(s)' <=> Refused(s))
<1>0. FileType /\ WriteInv(s) /\ ReadInv(s) /\ LogType
  BY RankParts DEF FileInv
<1>1. /\ Enter(r, n, w) /\ Complete(r) /\ Unmoved(s) /\ op' = op /\ result' = result
  BY Advanced
<1>2. log'[s] = log[s]
  BY <1>0, <1>1, EnterLog
<1>3. /\ place'[s] = place[s] /\ outcome'[s] = outcome[s] /\ op'[s] = op[s] /\ result'[s] = result[s]
      /\ Own(s)' = Own(s)
      /\ Busy(s)' <=> Busy(s)
  BY <1>1, <1>2 DEF Unmoved, Own, Busy
<1>4. /\ Writer(s)' <=> Writer(s)
      /\ \A p : Did(s, p)' <=> Did(s, p)
  BY <1>3 DEF Writer, Did
<1>5. OnPath(s)' <=> OnPath(s)
  BY <1>3, <1>4 DEF OnPath
<1>6. /\ \A x \in Part : /\ file[x] # "absent" => file'[x] # "absent"
                         /\ file[x] = "stored" => file'[x] = "stored"
      /\ created => created'
  BY <1>0, Monotone
<1>7. {"header", "marker"} \subseteq Part /\ PayloadOf(s) \subseteq Part
  BY Parts
<1>8. WriteInv(s)'
  BY <1>0, <1>3, <1>4, <1>5, <1>6, <1>7 DEF WriteInv
<1>9. ReadInv(s)'
  <2>1. staging'[s] = staging[s] /\ destination'[s] = destination[s]
    BY <1>0 DEF Effect, FileType
  <2>2. file["marker"] # "absent" => file'["marker"] # "absent"
    BY <1>6, <1>7
  <2> QED BY <1>0, <1>3, <1>4, <2>1, <2>2 DEF ReadInv
<1>10. Busy(s) /\ Complete(s) => Complete(s)' /\ (Refused(s)' <=> Refused(s))
  BY <1>1, AdvanceMalformed, Frame
<1> QED BY <1>3, <1>5, <1>8, <1>9, <1>10

LEMMA AdvanceWrite ==
  ASSUME ControlInv, FileInv, NEW r \in Rank, NEW n, NEW w, Advance(r, n, w), Effect(r, n, w)
  PROVE  WriteInv(r)'
<1> DEFINE p == place[r]
           o == op[r]
<1>0. /\ Busy(r) /\ Complete(r) /\ ~ MustAbort(r) /\ Target(r) = n /\ n # "return"
      /\ place'[r] = n /\ Own(r)'.word = w /\ op' = op /\ outcome'[r] = Decided(r)
      /\ Fits(o, p) /\ RankInv(r)
  BY Advanced, RankParts DEF Own
<1>1. FileType /\ \A s \in Rank : WriteInv(s)
  BY DEF FileInv
<1>2. /\ file' \in [Part -> FileState]
      /\ \A x \in Part : /\ file[x] # "absent" => file'[x] # "absent"
                         /\ file[x] = "stored" => file'[x] = "stored"
      /\ created => created'
  BY <1>1, Monotone
<1>3. {"header", "marker"} \subseteq Part /\ PayloadOf(r) \subseteq Part /\ Root \in Rank
  BY Parts
<1> SUFFICES ASSUME Writer(r)' PROVE WriteInv(r)'
  BY DEF WriteInv, OnPath
<1>4. /\ o \in Writing /\ outcome'[r] = "none" /\ outcome[r] = "none" /\ ~ Refused(r)
      /\ Leads(o, p, n)
      /\ p \in Decisive \ {"MPI_Comm_dup"} => Own(r).word = "ok" /\ Words(r) = {"ok"}
  BY <1>0, GoesOn DEF Writer
<1>5. Writer(r) /\ WriteInv(r)
  BY <1>0, <1>1, <1>4 DEF Writer
<1>6. \A x : /\ Did(r, x)' => n = x /\ w = "ok"
             /\ p = x /\ x \in Decisive \ {"MPI_Comm_dup"} => Did(r, x)
  BY <1>0, <1>4 DEF Did
<1>7. WriterCame(p, n)
  BY <1>0, <1>4, WriterCameFrom
<1>8. {"MPI_File_open", "header write", "header flush", "payload write", "payload flush", "marker write",
       "marker flush"} \subseteq Decisive \ {"MPI_Comm_dup"}
  BY DEF Decisive, StatePlace, WriteStep
<1> HIDE DEF p, o
<1>9. OnPath(r)' => created'
  <2>1. ASSUME n \in AfterOpen \union AfterHeader \union AfterPayload PROVE OnPath(r)
    <3>1. p \in {"MPI_File_open"} \union AfterOpen \union AfterHeader \union AfterPayload
      BY <1>7, <2>1 DEF AfterOpen, AfterHeader, AfterPayload, WriterCame
    <3>2. p = "MPI_File_open" => Did(r, "MPI_File_open")
      BY <1>6, <1>8
    <3> QED BY <1>5, <3>1, <3>2 DEF OnPath, p
  <2>2. ASSUME n = "MPI_File_open", w = "ok" PROVE created'
    BY <1>4, <2>2 DEF Effect, o
  <2>3. OnPath(r)' => (n = "MPI_File_open" /\ w = "ok") \/ n \in AfterOpen \union AfterHeader \union AfterPayload
    BY <1>0, <1>6 DEF OnPath
  <2> QED BY <1>2, <1>5, <2>1, <2>2, <2>3 DEF WriteInv
<1>10. Did(r, "header write")' /\ r = Root => file'["header"] # "absent"
  <2>1. ASSUME n = "header write", w = "ok", r = Root PROVE file'["header"] # "absent"
    <3>1. Written({"header"}, w)
      BY <2>1 DEF Effect
    <3> QED BY <1>1, <1>3, <2>1, <3>1, WrittenMeans
  <2> QED BY <1>6, <2>1
<1>11. r = Root /\ (Did(r, "header flush")' \/ n \in AfterHeader \union AfterPayload) =>
         file'["header"] = "stored"
  <2>1. ASSUME n = "header flush", w = "ok", r = Root PROVE file'["header"] = "stored"
    <3>1. file' = [x \in Part |-> IF w = "ok" /\ x \in WrittenBy(r) /\ file[x] = "cached"
                                  THEN "stored" ELSE file[x]]
      BY <2>1 DEF Effect, Flushing
    <3>2. Did(r, "header write")
      BY <1>6, <1>7, <1>8, <2>1 DEF WriterCame
    <3>3. file["header"] # "absent" /\ file["header"] \in FileState
      BY <1>1, <1>3, <1>5, <2>1, <3>2 DEF WriteInv, FileType, FileState
    <3>4. "header" \in WrittenBy(r)
      BY <2>1 DEF WrittenBy
    <3> QED BY <1>3, <2>1, <3>1, <3>3, <3>4 DEF FileState
  <2>2. ASSUME n \in AfterHeader \union AfterPayload, r = Root PROVE file'["header"] = "stored"
    <3>1. p \in {"header flush"} \union AfterHeader \union AfterPayload
      BY <1>7, <2>2 DEF AfterHeader, AfterPayload, WriterCame
    <3>2. p = "header flush" => Did(r, "header flush")
      BY <1>6, <1>8
    <3>3. file["header"] = "stored"
      BY <1>5, <2>2, <3>1, <3>2 DEF WriteInv, p
    <3> QED BY <1>2, <1>3, <3>3
  <2> QED BY <1>6, <2>1, <2>2
<1>12. Did(r, "payload write")' => \A x \in PayloadOf(r) : file'[x] # "absent"
  <2>1. ASSUME n = "payload write", w = "ok" PROVE \A x \in PayloadOf(r) : file'[x] # "absent"
    <3>1. Written(PayloadOf(r), w)
      BY <2>1 DEF Effect
    <3> QED BY <1>1, <1>3, <2>1, <3>1, WrittenMeans
  <2> QED BY <1>6, <2>1
<1>13. Did(r, "payload flush")' \/ n \in AfterPayload => \A x \in PayloadOf(r) : file'[x] = "stored"
  <2>1. ASSUME n = "payload flush", w = "ok", NEW x \in PayloadOf(r) PROVE file'[x] = "stored"
    <3>1. file' = [y \in Part |-> IF w = "ok" /\ y \in WrittenBy(r) /\ file[y] = "cached"
                                  THEN "stored" ELSE file[y]]
      BY <2>1 DEF Effect, Flushing
    <3>2. Did(r, "payload write")
      BY <1>6, <1>7, <1>8, <2>1 DEF WriterCame
    <3>3. file[x] # "absent" /\ file[x] \in FileState
      BY <1>1, <1>3, <1>5, <3>2 DEF WriteInv, FileType, FileState
    <3>4. x \in WrittenBy(r)
      BY DEF WrittenBy
    <3> QED BY <1>3, <2>1, <3>1, <3>3, <3>4 DEF FileState
  <2>2. ASSUME n \in AfterPayload, NEW x \in PayloadOf(r) PROVE file'[x] = "stored"
    <3>1. p \in {"payload flush"} \union AfterPayload
      BY <1>7, <2>2 DEF AfterPayload, WriterCame
    <3>2. p = "payload flush" => Did(r, "payload flush")
      BY <1>6, <1>8
    <3>3. file[x] = "stored"
      BY <1>5, <3>1, <3>2 DEF WriteInv, p
    <3> QED BY <1>2, <1>3, <3>3
  <2> QED BY <1>6, <2>1, <2>2
<1>14. Did(r, "marker write")' /\ r = Root => file'["marker"] # "absent"
  <2>1. ASSUME n = "marker write", w = "ok", r = Root PROVE file'["marker"] # "absent"
    <3>1. Written({"marker"}, w)
      BY <2>1 DEF Effect
    <3> QED BY <1>1, <1>3, <2>1, <3>1, WrittenMeans
  <2> QED BY <1>6, <2>1
<1>15. Did(r, "marker flush")' /\ r = Root => file'["marker"] = "stored"
  <2>1. ASSUME n = "marker flush", w = "ok", r = Root PROVE file'["marker"] = "stored"
    <3>1. file' = [x \in Part |-> IF w = "ok" /\ x \in WrittenBy(r) /\ file[x] = "cached"
                                  THEN "stored" ELSE file[x]]
      BY <2>1 DEF Effect, Flushing
    <3>2. Did(r, "marker write")
      BY <1>6, <1>7, <1>8, <2>1 DEF WriterCame
    <3>3. file["marker"] # "absent" /\ file["marker"] \in FileState
      BY <1>1, <1>3, <1>5, <2>1, <3>2 DEF WriteInv, FileType, FileState
    <3>4. "marker" \in WrittenBy(r)
      BY <2>1 DEF WrittenBy
    <3> QED BY <1>3, <2>1, <3>1, <3>3, <3>4 DEF FileState
  <2> QED BY <1>6, <2>1
<1>16. n \in ClosingPlace \union {"post cleanup"} => file'["marker"] = "stored"
  <2>1. ASSUME n \in ClosingPlace \union {"post cleanup"} PROVE file["marker"] = "stored"
    <3>1. p \in {"marker flush"} \union ClosingPlace
      BY <1>7, <2>1 DEF ClosingPlace, WriterCame
    <3>2. CASE p \in ClosingPlace
      BY <1>5, <3>2 DEF WriteInv, p
    <3>3. CASE p = "marker flush"
      <4>1. Words(r) = {"ok"} /\ n = "datatype free"
        BY <1>4, <1>7, <1>8, <2>1, <3>3 DEF ClosingPlace, WriterCame
      <4>2. /\ Busy(Root) /\ op[Root] = o
            /\ \/ Ahead(Root, r) = 0 /\ place[Root] = p /\ Kind(outcome[Root]) = Kind(outcome[r])
               \/ Ahead(Root, r) = 1 /\ place[Root] = n /\ Kind(outcome[Root]) = Kind(Decided(r))
        BY <1>0, <1>3, Together DEF p, o
      <4>3. Writer(Root)
        BY <1>0, <1>4, <4>2 DEF Writer, Kind
      <4>4. CASE Ahead(Root, r) = 0 /\ place[Root] = p
        <5>1. Own(Root).word = "ok"
          BY <1>3, <4>1, <4>4, OwnWord, RankParts
        <5>2. Did(Root, "marker flush")
          BY <3>3, <4>4, <5>1 DEF Did
        <5> QED BY <1>1, <1>3, <4>3, <5>2 DEF WriteInv
      <4>5. CASE place[Root] = n
        BY <1>1, <1>3, <4>1, <4>3, <4>5 DEF WriteInv, ClosingPlace
      <4> QED BY <4>2, <4>4, <4>5
    <3> QED BY <3>1, <3>2, <3>3
  <2> QED BY <1>2, <1>3, <2>1
<1> QED BY <1>0, <1>9, <1>10, <1>11, <1>12, <1>13, <1>14, <1>15, <1>16 DEF WriteInv

(* The way of a reader to what it has seen, backwards. *)
SeenAlready == SeenPlace \union {"datatype", "file view", "payload read", "physical staging"}
SeenByCatalog == SeenCatalog \union {"catalog validation"} \union ClosingPlace

LEMMA ReaderCameFrom ==
  ASSUME NEW o, NEW p, NEW n, Leads(o, p, n), Fits(o, p)
  PROVE  /\ o \in ReadOp /\ n \in SeenAlready => p \in {"prefix validation"} \union SeenAlready
         /\ o = "read_mpi_catalog" /\ n \in SeenByCatalog => p \in {"catalog prefix read"} \union SeenByCatalog
         /\ n = "payload read" => p = "file view"
<1>1. \A x \in Writing : x \notin ReadOp /\ x # "read_mpi_catalog"
  BY DEF Writing, ReadOp
<1>2. \A x \in ReadOp : x # "read_mpi_catalog" /\ x # "read_mpi_raw"
  BY DEF ReadOp
<1>3. ASSUME o \in ReadOp, n \in SeenAlready PROVE p \in {"prefix validation"} \union SeenAlready
  <2>1. p # "header flush" /\ p # "raw file size"
    BY <1>1, <1>2, <1>3 DEF Fits, WriteStep
  <2> QED BY <1>1, <1>3, <2>1
          DEF Leads, SeenAlready, SeenPlace, EarlyPlace, UnseenPlace, UnseenCatalog, SeenCatalog
<1>4. ASSUME o = "read_mpi_catalog", n \in SeenByCatalog
      PROVE  p \in {"catalog prefix read"} \union SeenByCatalog
  <2>1. p \notin {"marker flush", "physical staging"}
    BY <1>1, <1>2, <1>4 DEF Fits, WriteStep
  <2> QED BY <1>2, <1>4, <2>1
          DEF Leads, SeenByCatalog, SeenCatalog, ClosingPlace, EarlyPlace, UnseenPlace, SeenPlace, UnseenCatalog
<1>5. ASSUME n = "payload read" PROVE p = "file view"
  BY <1>5 DEF Leads, EarlyPlace, UnseenPlace, SeenPlace, UnseenCatalog, SeenCatalog
<1> QED BY <1>3, <1>4, <1>5

LEMMA AdvanceRead ==
  ASSUME ControlInv, FileInv, NEW r \in Rank, NEW n, NEW w, Advance(r, n, w), Effect(r, n, w)
  PROVE  ReadInv(r)'
<1> DEFINE p == place[r]
           o == op[r]
           seen == file["marker"] # "absent"
<1>0. /\ Busy(r) /\ Target(r) = n /\ n # "return" /\ Complete(r) /\ ~ MustAbort(r)
      /\ place'[r] = n /\ Own(r)'.word = w /\ op' = op /\ result' = result /\ outcome'[r] = Decided(r)
      /\ Fits(o, p) /\ Fits(o, n)
  BY Advanced, RankParts DEF Own
<1>1. FileType /\ ReadInv(r) /\ MarkerInv
  BY DEF FileInv
<1>2. seen => file'["marker"] # "absent"
  BY <1>1, Monotone, Parts
<1>3. outcome'[r] = "none" =>
        /\ outcome[r] = "none" /\ ~ Refused(r) /\ Leads(o, p, n)
        /\ p \in Decisive \ {"MPI_Comm_dup"} => Own(r).word = "ok"
  BY GoesOn
<1>4. Busy(r)'
  <2>1. n # "idle"
    BY <1>0 DEF Fits, AnyPlace, EarlyPlace, MidPlace, PastPlace, ClosingPlace, UnseenPlace, SeenPlace,
           UnseenCatalog, SeenCatalog
  <2> QED BY <1>0, <2>1 DEF Busy
<1>5. ASSUME outcome'[r] = "none", o \in ReadOp,
             (n = "prefix validation" /\ w = "ok") \/ n \in SeenAlready
      PROVE  seen
  <2>1. CASE n = "prefix validation" /\ w = "ok"
    BY <2>1 DEF Effect
  <2>2. CASE n \in SeenAlready
    <3>1. p \in {"prefix validation"} \union SeenAlready
      BY <1>0, <1>3, <1>5, <2>2, ReaderCameFrom
    <3>2. p = "prefix validation" => Did(r, "prefix validation")
      BY <1>3, <1>5 DEF Did, Decisive
    <3> QED BY <1>0, <1>1, <1>3, <1>5, <3>1, <3>2 DEF ReadInv, SeenAlready
  <2> QED BY <1>5, <2>1, <2>2
<1>6. ASSUME outcome'[r] = "none", o = "read_mpi_catalog", n \in SeenByCatalog PROVE seen
  <2>1. p \in {"catalog prefix read"} \union SeenByCatalog
    BY <1>0, <1>3, <1>6, ReaderCameFrom
  <2>2. CASE p = "catalog prefix read"
    <3>1. ~ Malformed(r)
      BY <1>3, <1>6, <2>2 DEF Refused
    <3> QED BY <2>2, <3>1 DEF Malformed
  <2>3. CASE p \in SeenByCatalog
    BY <1>0, <1>1, <1>3, <1>6, <2>3 DEF ReadInv, SeenByCatalog
  <2> QED BY <2>1, <2>2, <2>3
<1>7. ASSUME "hole" \in {staging'[r], destination'[r]} PROVE o = "read_mpi_raw"
  <2>1. CASE n = "payload read"
    <3>1. SUFFICES ASSUME o \in ReadOp PROVE FALSE
      BY <1>0, <2>1 DEF Fits
    <3>2. /\ destination'[r] = destination[r]
          /\ staging'[r] = IF \A x \in BlockOf(r) : file[x] # "absent" THEN "written" ELSE "hole"
      BY <1>1, <2>1 DEF Effect, FileType
    <3>3. o # "read_mpi_raw"
      BY <3>1 DEF ReadOp
    <3>4. destination[r] # "hole"
      BY <1>1, <3>3 DEF ReadInv
    <3>5. PICK x \in BlockOf(r) : file[x] = "absent"
      BY <1>7, <3>2, <3>4
    <3>6. p = "file view"
      <4>1. ~ Refused(r)
        <5>1. Exit(o, p) # "payload read"
          BY DEF Exit
        <5>2. Refused(r) => n = Exit(o, p)
          BY GoesOn
        <5> QED BY <2>1, <5>1, <5>2
      <4>2. Leads(o, p, n)
        BY <4>1, GoesOn
      <4> QED BY <1>0, <2>1, <4>2, ReaderCameFrom
    <3>7. outcome[r] = "none"
      BY <3>6, GoesOn DEF ClosingPlace
    <3>8. seen
      BY <1>0, <1>1, <3>1, <3>6, <3>7 DEF ReadInv
    <3>9. x \in Part \ {"marker"}
      <4>1. r \notin {"header", "marker", "length"} /\ BlockOf(r) \subseteq Part
        BY Parts
      <4> QED BY <3>5, <4>1 DEF BlockOf
    <3>10. file[x] = "stored"
      BY <1>1, <3>8, <3>9 DEF MarkerInv, Stored
    <3> QED BY <3>5, <3>10
  <2>2. CASE n # "payload read"
    BY <1>1, <1>7, <2>2 DEF Effect, ReadInv
  <2> QED BY <2>1, <2>2
<1>8. result'[r] = "none"
  BY <1>0, <1>1 DEF ReadInv
<1>9. /\ outcome'[r] = "none" /\ o \in ReadOp /\ (Did(r, "prefix validation")' \/ n \in SeenAlready) =>
           file'["marker"] # "absent"
      /\ outcome'[r] = "none" /\ o = "read_mpi_catalog" /\ n \in SeenByCatalog => file'["marker"] # "absent"
  BY <1>0, <1>2, <1>5, <1>6 DEF Did
<1> QED BY <1>0, <1>4, <1>7, <1>8, <1>9 DEF ReadInv, SeenAlready, SeenByCatalog

(* A writer gets onto a new path only when the file is new or when another *)
(* rank has created it in the same call.                                   *)
LEMMA Joining ==
  ASSUME ControlInv, FileInv, NEW r \in Rank, NEW n, NEW w, Advance(r, n, w), Effect(r, n, w),
         OnPath(r)', ~ OnPath(r)
  PROVE  ~ created \/ \E q \in Rank : OnPath(q) /\ place[q] = "MPI_File_open"
<1> DEFINE p == place[r]
           o == op[r]
<1>0. /\ Busy(r) /\ Target(r) = n /\ n # "return" /\ Complete(r) /\ ~ MustAbort(r)
      /\ place'[r] = n /\ Own(r)'.word = w /\ op' = op /\ outcome'[r] = Decided(r) /\ Fits(o, p)
  BY Advanced, RankParts DEF Own
<1>1. /\ o \in Writing /\ outcome'[r] = "none"
      /\ (n = "MPI_File_open" /\ w = "ok") \/ n \in AfterOpen \union AfterHeader \union AfterPayload
  BY <1>0 DEF OnPath, Writer, Did
<1>2. /\ outcome[r] = "none" /\ ~ Refused(r) /\ Leads(o, p, n)
      /\ p \in Decisive \ {"MPI_Comm_dup"} => Own(r).word = "ok"
  BY <1>1, GoesOn
<1>3. WriterCame(p, n)
  BY <1>0, <1>1, <1>2, WriterCameFrom
<1>4. Writer(r)
  BY <1>0, <1>1, <1>2 DEF Writer
<1>5. n = "MPI_File_open" /\ w = "ok"
  <2>1. SUFFICES ASSUME n \in AfterOpen \union AfterHeader \union AfterPayload PROVE FALSE
    BY <1>1
  <2>2. p \in {"MPI_File_open"} \union AfterOpen \union AfterHeader \union AfterPayload
    BY <1>3, <2>1 DEF WriterCame, AfterOpen, AfterHeader, AfterPayload
  <2>3. p = "MPI_File_open" => Did(r, "MPI_File_open")
    BY <1>2 DEF Did, Decisive, StatePlace
  <2> QED BY <1>4, <2>2, <2>3 DEF OnPath
<1>6. MayOpen(r)
  BY <1>5 DEF Effect
<1>7. ASSUME NEW q \in Rank, place[q] = "MPI_File_open", Own(q).word = "ok" PROVE OnPath(q)
  <2>1. p = "communicator handler"
    BY <1>3, <1>5 DEF WriterCame
  <2>2. /\ Busy(q) /\ op[q] = o
        /\ \/ place[q] = p
           \/ Kind(outcome[q]) = Kind(Decided(r))
    BY <1>0, Together
  <2>3. Kind(outcome[q]) = Kind("none")
    BY <1>0, <1>1, <1>7, <2>1, <2>2
  <2>4. Writer(q)
    BY <1>1, <2>2, <2>3 DEF Writer, Kind
  <2> QED BY <1>7, <2>4 DEF OnPath, Did
<1> QED BY <1>1, <1>6, <1>7 DEF MayOpen, Creating

(* The marker is written when everything else is stored. *)
LEMMA Committing ==
  ASSUME ControlInv, FileInv, NEW r \in Rank, NEW w, Advance(r, "marker write", w)
  PROVE  /\ \A x \in Part \ {"marker"} : Stored(x)
         /\ OnPath(r) /\ ~ Refused(r)
         /\ \A s \in Rank : s # r /\ OnPath(s) =>
              \/ place[s] = "marker write"
              \/ place[s] = "marker view" /\ Busy(s) /\ Complete(s) /\ ~ Refused(s)
<1> DEFINE p == place[r]
           n == "marker write"
           o == op[r]
<1>0. /\ Busy(r) /\ Target(r) = n /\ Complete(r) /\ ~ MustAbort(r)
      /\ outcome'[r] = Decided(r) /\ Fits(o, p) /\ Fits(o, n)
  BY Advanced, RankParts
<1>1. o \in Writing
  BY <1>0 DEF Fits, WriteStep
<1>2. ~ Refused(r) /\ Leads(o, p, n)
  <2>1. Exit(o, p) # n
    BY DEF Exit
  <2>2. Refused(r) => n = Exit(o, p)
    BY GoesOn
  <2>3. ~ Refused(r) => Leads(o, p, n)
    BY GoesOn
  <2> QED BY <2>1, <2>2, <2>3
<1>3. p = "marker view"
  <2>1. WriterCame(p, n)
    BY <1>0, <1>1, <1>2, WriterCameFrom
  <2> QED BY <2>1 DEF WriterCame
<1>4. outcome[r] = "none" /\ Decided(r) = "none"
  <2>1. outcome[r] = "none"
    BY <1>3, GoesOn DEF ClosingPlace
  <2> QED BY <1>2, <2>1 DEF Decided
<1>5. ASSUME NEW s \in Rank
      PROVE  /\ Writer(s)
             /\ place[s] = n \/ (place[s] = p /\ Busy(s) /\ Complete(s) /\ ~ Refused(s))
  <2>1. /\ Busy(s) /\ op[s] = o
        /\ \/ /\ place[s] = p /\ Kind(outcome[s]) = Kind(outcome[r])
              /\ Complete(s) /\ (Refused(s) <=> Refused(r))
           \/ place[s] = n /\ Kind(outcome[s]) = Kind(Decided(r))
    BY <1>0, Together
  <2>2. outcome[s] = "none"
    BY <1>4, <2>1 DEF Kind
  <2> QED BY <1>1, <1>2, <2>1, <2>2 DEF Writer
<1>6. \A s \in Rank : Writer(s) /\ place[s] \in AfterPayload
  BY <1>3, <1>5 DEF AfterPayload
<1>7. ASSUME NEW x \in Part \ {"marker"} PROVE Stored(x)
  <2>1. \A s \in Rank : WriteInv(s)
    BY DEF FileInv
  <2>2. CASE x = "header"
    BY <1>6, <2>1, <2>2, Parts DEF WriteInv, Stored
  <2>3. CASE \E s \in Rank : x \in PayloadOf(s)
    BY <1>6, <2>1, <2>3 DEF WriteInv, Stored
  <2> QED BY <2>2, <2>3, Parts
<1>8. OnPath(r)
  BY <1>6 DEF OnPath
<1> QED BY <1>2, <1>3, <1>5, <1>7, <1>8

LEMMA AdvanceMarker ==
  ASSUME ControlInv, FileInv, NEW r \in Rank, NEW n, NEW w, Advance(r, n, w), Effect(r, n, w)
  PROVE  MarkerInv'
<1> DEFINE p == place[r]
           o == op[r]
           may(s) == \/ place[s] \in {"marker write", "marker flush"}
                     \/ place[s] = "marker view" /\ Complete(s) /\ ~ Refused(s)
<1>0. /\ Busy(r) /\ Target(r) = n /\ n # "return" /\ Complete(r) /\ ~ MustAbort(r)
      /\ place'[r] = n /\ op' = op /\ outcome'[r] = Decided(r) /\ Fits(o, p) /\ Fits(o, n)
  BY Advanced, RankParts
<1>1. FileType /\ MarkerInv /\ \A s \in Rank : WriteInv(s)
  BY DEF FileInv
<1>2. /\ \A x \in Part : /\ file[x] # "absent" => file'[x] # "absent"
                         /\ file[x] = "stored" => file'[x] = "stored"
                         /\ file[x] = "absent" /\ file'[x] # "absent" => x \in MayWrite(r, n)
      /\ created => created'
  BY <1>1, Monotone
<1>3. ASSUME NEW x \in Part, file[x] = "absent", file'[x] # "absent"
      PROVE  /\ n \in {"header write", "payload write", "marker write"}
             /\ x = "marker" => n = "marker write" /\ r = Root
  <2>1. x \in MayWrite(r, n)
    BY <1>2, <1>3
  <2>2. "marker" \notin PayloadOf(r)
    BY Parts
  <2> QED BY <2>1, <2>2 DEF MayWrite
<1>4. n \in {"header write", "payload write", "marker write"} => created
  <2>1. ASSUME n \in {"header write", "payload write", "marker write"} PROVE OnPath(r)
    <3>1. o \in Writing
      BY <1>0, <2>1 DEF Fits, WriteStep
    <3>2. ~ Refused(r) /\ Leads(o, p, n)
      <4>1. Exit(o, p) \notin {"header write", "payload write", "marker write"}
        BY DEF Exit
      <4>2. Refused(r) => n = Exit(o, p)
        BY GoesOn
      <4>3. ~ Refused(r) => Leads(o, p, n)
        BY GoesOn
      <4> QED BY <2>1, <4>1, <4>2, <4>3
    <3>3. p \in {"file handler", "file view", "marker view"}
      <4>1. WriterCame(p, n)
        BY <1>0, <3>1, <3>2, WriterCameFrom
      <4> QED BY <2>1, <4>1 DEF WriterCame
    <3>4. outcome[r] = "none"
      BY <3>3, GoesOn DEF ClosingPlace
    <3> QED BY <1>0, <3>1, <3>3, <3>4 DEF OnPath, Writer, AfterOpen, AfterHeader, AfterPayload
  <2> QED BY <1>1, <2>1 DEF WriteInv
<1>5. (\E x \in Part : file'[x] # "absent") => created'
  BY <1>1, <1>2, <1>3, <1>4 DEF MarkerInv
<1>6. "marker" \in Part
  BY Parts
<1>7. CASE file'["marker"] = "absent"
  BY <1>5, <1>7 DEF MarkerInv
<1>8. CASE file["marker"] # "absent"
  <2>1. /\ \A x \in Part \ {"marker"} : Stored(x)
        /\ \A s \in Rank : OnPath(s) => may(s)
        /\ created
    BY <1>1, <1>6, <1>8 DEF MarkerInv
  <2>2. \A x \in Part \ {"marker"} : Stored(x)'
    BY <1>2, <2>1 DEF Stored
  <2>3. ASSUME NEW s \in Rank, s # r, OnPath(s)' PROVE may(s)'
    <3>1. OnPath(s) /\ place'[s] = place[s]
      BY <2>3, OthersWrite
    <3>2. Busy(s)
      BY <3>1 DEF OnPath, Writer
    <3>3. Busy(s) /\ Complete(s) => Complete(s)' /\ (Refused(s)' <=> Refused(s))
      BY <2>3, OthersWrite
    <3>4. may(s)
      BY <2>1, <3>1
    <3> QED BY <3>1, <3>2, <3>3, <3>4
  <2>4. ASSUME OnPath(r)' PROVE place'[r] \in {"marker write", "marker flush"}
    <3>1. CASE OnPath(r)
      <4>1. outcome'[r] = "none" /\ o \in Writing
        BY <1>0, <2>4 DEF OnPath, Writer
      <4>2. ~ Refused(r) /\ Leads(o, p, n)
        BY <4>1, GoesOn
      <4>3. WriterCame(p, n)
        BY <1>0, <4>1, <4>2, WriterCameFrom
      <4>4. p \in {"marker view", "marker write", "marker flush"}
        BY <2>1, <3>1
      <4>5. n \in {"MPI_File_open"} \union AfterOpen \union AfterHeader \union AfterPayload
        BY <1>0, <2>4 DEF OnPath, Did
      <4> QED BY <1>0, <4>3, <4>4, <4>5 DEF WriterCame, AfterOpen, AfterHeader, AfterPayload
    <3>2. CASE ~ OnPath(r)
      <4>1. PICK q \in Rank : OnPath(q) /\ place[q] = "MPI_File_open"
        BY <2>1, <2>4, <3>2, Joining
      <4> QED BY <2>1, <4>1
    <3> QED BY <3>1, <3>2
  <2>5. \A s \in Rank : OnPath(s)' => may(s)'
    BY <2>3, <2>4
  <2> QED BY <1>5, <2>2, <2>5 DEF MarkerInv
<1>9. CASE file["marker"] = "absent" /\ file'["marker"] # "absent"
  <2>1. n = "marker write" /\ r = Root
    BY <1>3, <1>6, <1>9
  <2>2. /\ \A x \in Part \ {"marker"} : Stored(x)
        /\ OnPath(r) /\ ~ Refused(r)
        /\ \A s \in Rank : s # r /\ OnPath(s) =>
             \/ place[s] = "marker write"
             \/ place[s] = "marker view" /\ Busy(s) /\ Complete(s) /\ ~ Refused(s)
    BY <2>1, Committing
  <2>3. \A x \in Part \ {"marker"} : Stored(x)'
    BY <1>2, <2>2 DEF Stored
  <2>4. ASSUME NEW s \in Rank, s # r, OnPath(s)' PROVE may(s)'
    <3>1. OnPath(s) /\ place'[s] = place[s]
      BY <2>4, OthersWrite
    <3>2. Busy(s) /\ Complete(s) => Complete(s)' /\ (Refused(s)' <=> Refused(s))
      BY <2>4, OthersWrite
    <3> QED BY <2>2, <2>4, <3>1, <3>2
  <2>5. \A s \in Rank : OnPath(s)' => may(s)'
    BY <1>0, <2>1, <2>4
  <2> QED BY <1>5, <2>3, <2>5 DEF MarkerInv
<1> QED BY <1>7, <1>8, <1>9

LEMMA AdvanceIncomplete ==
  ASSUME ControlInv, FileInv, NEW r \in Rank, NEW n, NEW w, Advance(r, n, w), Effect(r, n, w)
  PROVE  IncompleteInv'
<1> DEFINE p == place[r]
           o == op[r]
           stuck(s) == OnPath(s) => place[s] # "MPI_File_open" /\ Complete(s) /\ Refused(s)
<1>0. /\ Busy(r) /\ Target(r) = n /\ n # "return" /\ Complete(r) /\ ~ MustAbort(r)
      /\ place'[r] = n /\ op' = op /\ outcome'[r] = Decided(r) /\ Fits(o, p)
  BY Advanced, RankParts
<1>1. FileType /\ MarkerInv /\ IncompleteInv /\ \A s \in Rank : WriteInv(s)
  BY DEF FileInv
<1>2. /\ \A x \in Part : file[x] = "absent" /\ file'[x] # "absent" => x \in MayWrite(r, n)
      /\ created => created'
  BY <1>1, Monotone
<1>3. told' = told /\ "marker" \in Part
  BY Parts DEF Effect
<1>4. file["marker"] = "absent" /\ file'["marker"] # "absent" => n = "marker write"
  <2>1. "marker" \notin PayloadOf(r)
    BY Parts
  <2> QED BY <1>2, <1>3, <2>1 DEF MayWrite
<1>5. ASSUME NEW s \in Rank, s # r, stuck(s) PROVE stuck(s)'
  <2>1. (OnPath(s)' <=> OnPath(s)) /\ place'[s] = place[s]
    BY <1>5, OthersWrite
  <2>2. Busy(s) /\ Complete(s) => Complete(s)' /\ (Refused(s)' <=> Refused(s))
    BY <1>5, OthersWrite
  <2> QED BY <1>5, <2>1, <2>2 DEF OnPath, Writer
<1>6. CASE Incomplete
  <2>1. created /\ file["marker"] = "absent" /\ \A s \in Rank : stuck(s)
    BY <1>1, <1>6 DEF IncompleteInv
  <2>2. n # "marker write"
    <3>1. SUFFICES ASSUME n = "marker write" PROVE FALSE
      OBVIOUS
    <3>2. OnPath(r) /\ ~ Refused(r)
      BY <3>1, Committing
    <3> QED BY <2>1, <3>2
  <2>3. ~ OnPath(r)'
    <3>1. SUFFICES ASSUME OnPath(r)' PROVE FALSE
      OBVIOUS
    <3>2. ~ Refused(r)
      <4>1. outcome'[r] = "none"
        BY <3>1 DEF OnPath, Writer
      <4> QED BY <4>1, GoesOn
    <3>3. ~ OnPath(r)
      BY <2>1, <3>2
    <3>4. PICK q \in Rank : OnPath(q) /\ place[q] = "MPI_File_open"
      BY <2>1, <3>1, <3>3, Joining
    <3> QED BY <2>1, <3>4
  <2>4. \A s \in Rank : stuck(s)'
    BY <1>5, <2>1, <2>3
  <2> QED BY <1>2, <1>4, <2>1, <2>2, <2>4 DEF IncompleteInv
<1>7. CASE ~ Incomplete /\ Incomplete'
  <2>1. outcome[r] # "WriteIncomplete" /\ outcome'[r] = "WriteIncomplete"
    <3>1. PICK s \in Rank : outcome'[s] = "WriteIncomplete"
      BY <1>3, <1>7 DEF Incomplete
    <3>2. s = r
      BY <1>7, <3>1, OthersWrite DEF Incomplete
    <3> QED BY <1>7, <3>1, <3>2 DEF Incomplete
  <2>2. Refused(r) /\ outcome[r] = "none" /\ Error(r) = "WriteIncomplete"
    BY <1>0, <2>1 DEF Decided
  <2>3. o \in Writing /\ p \in BeforeMarker
    BY <1>0, <2>2, ErrorsKnown, RankParts DEF ErrorFact
  <2>4. OnPath(r)
    BY <1>0, <2>2, <2>3 DEF OnPath, Writer, BeforeMarker, AfterOpen, AfterHeader, AfterPayload
  <2>5. created
    BY <1>1, <2>4 DEF WriteInv
  <2>6. file["marker"] = "absent"
    BY <1>1, <2>2, <2>3, <2>4 DEF MarkerInv, BeforeMarker
  <2>7. n # "marker write"
    BY <2>2, Committing
  <2>8. ASSUME NEW s \in Rank, s # r PROVE stuck(s)
    <3>1. /\ Busy(s) /\ op[s] = o
          /\ \/ place[s] = p /\ Complete(s) /\ (Refused(s) <=> Refused(r))
             \/ Kind(outcome[s]) = Kind(Decided(r))
      BY <1>0, Together
    <3>2. CASE place[s] = p /\ Complete(s) /\ (Refused(s) <=> Refused(r))
      BY <2>2, <2>3, <3>2 DEF BeforeMarker
    <3>3. CASE Kind(outcome[s]) = Kind(Decided(r))
      <4>1. outcome[s] # "none"
        BY <1>0, <2>1, <3>3 DEF Kind
      <4> QED BY <4>1 DEF OnPath, Writer
    <3> QED BY <3>1, <3>2, <3>3
  <2>9. ~ OnPath(r)'
    BY <2>1 DEF OnPath, Writer
  <2>10. \A s \in Rank : stuck(s)'
    BY <1>5, <2>8, <2>9
  <2> QED BY <1>2, <1>4, <2>5, <2>6, <2>7, <2>10 DEF IncompleteInv
<1>8. CASE ~ Incomplete'
  BY <1>8 DEF IncompleteInv
<1> QED BY <1>6, <1>7, <1>8

LEMMA AdvanceFile ==
  ASSUME ControlInv, FileInv, NEW r \in Rank, NEW n, NEW w, Advance(r, n, w), Effect(r, n, w)
  PROVE  FileInv'
<1>1. FileType'
  <2>1. file' \in [Part -> FileState] /\ created' \in BOOLEAN
    BY Monotone DEF FileInv
  <2> QED BY <2>1 DEF FileInv, FileType, FileState, Effect
<1>2. ASSUME NEW s \in Rank PROVE WriteInv(s)' /\ ReadInv(s)'
  BY <1>2, AdvanceWrite, AdvanceRead, OthersWrite
<1>3. MarkerInv' /\ IncompleteInv'
  BY AdvanceMarker, AdvanceIncomplete
<1>4. ("ok" \in told => file["marker"] = "stored")'
  BY Monotone, Parts DEF FileInv, Effect
<1> QED BY <1>1, <1>2, <1>3, <1>4 DEF FileInv

(* A step that leaves the file alone and keeps rank r off its path.        *)
Quiet(r) ==
  /\ file' = file /\ created' = created /\ FileType'
  /\ WriteInv(r)' /\ ReadInv(r)' /\ ~ OnPath(r)'
  /\ \A s \in Rank : s # r =>
       /\ Unmoved(s) /\ Own(s)' = Own(s)
       /\ staging'[s] = staging[s] /\ destination'[s] = destination[s]
       /\ Busy(s) /\ Complete(s) => Complete(s)' /\ (Refused(s)' <=> Refused(s))
  /\ Incomplete' => Incomplete
  /\ ("ok" \in told => file["marker"] = "stored")'

LEMMA QuietFile ==
  ASSUME FileInv, NEW r \in Rank, Quiet(r)
  PROVE  FileInv'
<1>1. ASSUME NEW s \in Rank, s # r
      PROVE  /\ WriteInv(s)' /\ ReadInv(s)'
             /\ OnPath(s)' <=> OnPath(s)
             /\ place'[s] = place[s]
             /\ OnPath(s) /\ Complete(s) => Complete(s)' /\ (Refused(s)' <=> Refused(s))
  <2>1. WriteInv(s) /\ ReadInv(s)
    BY DEF FileInv
  <2>2. /\ place'[s] = place[s] /\ outcome'[s] = outcome[s] /\ op'[s] = op[s] /\ result'[s] = result[s]
        /\ Own(s)' = Own(s) /\ (Busy(s)' <=> Busy(s))
        /\ staging'[s] = staging[s] /\ destination'[s] = destination[s]
    BY <1>1 DEF Quiet, Unmoved, Busy
  <2>3. /\ Writer(s)' <=> Writer(s)
        /\ \A p : Did(s, p)' <=> Did(s, p)
    BY <2>2 DEF Writer, Did
  <2>4. OnPath(s)' <=> OnPath(s)
    BY <2>2, <2>3 DEF OnPath
  <2>5. file' = file /\ created' = created
    BY DEF Quiet
  <2>6. WriteInv(s)'
    BY <2>1, <2>2, <2>3, <2>4, <2>5 DEF WriteInv
  <2>7. ReadInv(s)'
    BY <2>1, <2>2, <2>3, <2>5 DEF ReadInv
  <2>8. OnPath(s) /\ Complete(s) => Complete(s)' /\ (Refused(s)' <=> Refused(s))
    BY <1>1 DEF Quiet, OnPath, Writer
  <2> QED BY <2>2, <2>4, <2>6, <2>7, <2>8
<1>2. ASSUME NEW s \in Rank, OnPath(s)'
      PROVE  /\ s # r /\ OnPath(s) /\ place'[s] = place[s]
             /\ Complete(s) => Complete(s)' /\ (Refused(s)' <=> Refused(s))
  BY <1>1, <1>2 DEF Quiet
<1>3. MarkerInv'
  <2>1. MarkerInv /\ file' = file /\ created' = created
    BY DEF FileInv, Quiet
  <2> QED BY <1>2, <2>1 DEF MarkerInv, Stored
<1>4. IncompleteInv'
  <2>1. IncompleteInv /\ file' = file /\ created' = created /\ (Incomplete' => Incomplete)
    BY DEF FileInv, Quiet
  <2> QED BY <1>2, <2>1 DEF IncompleteInv
<1>5. ASSUME NEW s \in Rank PROVE WriteInv(s)' /\ ReadInv(s)'
  BY <1>1 DEF Quiet
<1> QED BY <1>3, <1>4, <1>5 DEF FileInv, Quiet

LEMMA BeginFile ==
  ASSUME ControlInv, FileInv, NEW r \in Rank, Begin(r)
  PROVE  FileInv'
<1>0. LogInv /\ LogType /\ ControlType /\ FileType /\ PlaceInv(r)
  BY RankParts DEF ControlInv, FileInv
<1>1. place[r] = "idle" /\ Complete(r)
  BY <1>0 DEF Begin, PlaceInv, Busy
<1>2. PICK o, w : Enter(r, "descriptor", w) /\ op' = [op EXCEPT ![r] = o]
  BY DEF Begin
<1>3. /\ place' = [place EXCEPT ![r] = "descriptor"] /\ outcome' = [outcome EXCEPT ![r] = "none"]
      /\ result' = [result EXCEPT ![r] = "none"] /\ calls' = [calls EXCEPT ![r] = @ + 1]
      /\ staging' = [staging EXCEPT ![r] = "none"] /\ destination' = [destination EXCEPT ![r] = "old"]
      /\ held' = held /\ file' = file /\ created' = created /\ told' = told
  BY DEF Begin, disk
<1>4. /\ place'[r] = "descriptor" /\ outcome'[r] = "none" /\ result'[r] = "none" /\ Busy(r)'
      /\ staging'[r] = "none" /\ destination'[r] = "old"
  BY <1>0, <1>3 DEF ControlType, FileType, Busy
<1>5. ASSUME NEW s \in Rank, s # r
      PROVE  /\ Unmoved(s) /\ Own(s)' = Own(s)
             /\ staging'[s] = staging[s] /\ destination'[s] = destination[s]
             /\ Busy(s) /\ Complete(s) => Complete(s)' /\ (Refused(s)' <=> Refused(s))
  <2>1. Unmoved(s) /\ (Malformed(s)' <=> Malformed(s))
    BY <1>0, <1>2, <1>3, <1>5 DEF Unmoved, ControlType, Malformed
  <2>2. log'[s] = log[s]
    BY <1>0, <1>2, <1>5, EnterLog
  <2>3. Busy(s) /\ Complete(s) => Complete(s)' /\ (Refused(s)' <=> Refused(s))
    BY <1>1, <1>2, <1>5, <2>1, Frame
  <2>4. staging'[s] = staging[s] /\ destination'[s] = destination[s]
    BY <1>0, <1>3, <1>5 DEF FileType
  <2> QED BY <2>1, <2>2, <2>3, <2>4 DEF Own
<1>6. FileType'
  BY <1>0, <1>3 DEF FileType
<1>7. ~ OnPath(r)' /\ WriteInv(r)'
  BY <1>4 DEF OnPath, WriteInv, Did, AfterOpen, AfterHeader, AfterPayload, ClosingPlace
<1>8. ReadInv(r)'
  <2>1. "descriptor" \notin SeenAlready \union SeenByCatalog
    BY DEF SeenAlready, SeenByCatalog, SeenPlace, SeenCatalog, ClosingPlace
  <2> QED BY <1>4, <2>1 DEF ReadInv, Did, SeenAlready, SeenByCatalog
<1>9. Incomplete' => Incomplete
  <2>1. \A s \in Rank : outcome'[s] = "WriteIncomplete" => outcome[s] = "WriteIncomplete"
    BY <1>4, <1>5 DEF Unmoved
  <2> QED BY <1>3, <2>1 DEF Incomplete
<1>10. ("ok" \in told => file["marker"] = "stored")'
  BY <1>3 DEF FileInv
<1>11. Quiet(r)
  BY <1>3, <1>5, <1>6, <1>7, <1>8, <1>9, <1>10 DEF Quiet
<1> QED BY <1>11, QuietFile

(* What it takes to return Ok. *)
LEMMA ReturnsOk ==
  ASSUME ControlInv, FileInv, NEW r \in Rank, Busy(r), Complete(r), ~ MustAbort(r),
         Target(r) = "return", Returning(r) = "ok"
  PROVE  op[r] \in Writing \union {"read_mpi_catalog"} => file["marker"] # "absent"
                                                       /\ (op[r] \in Writing => file["marker"] = "stored")
<1> DEFINE p == place[r]
           o == op[r]
<1>0. /\ RankInv(r) /\ PlaceInv(r) /\ Fits(o, p) /\ o \in KnownOperation
      /\ p \in Places(o) \ {"return"} /\ WriteInv(r) /\ ReadInv(r)
  BY RankParts DEF RankInv, PlaceInv, FileInv
<1>1. outcome[r] = "none" /\ ~ Refused(r)
  <2>1. Error(r) \notin {"none", "ok"}
    BY ErrorsKnown, RankParts DEF ErrorFact
  <2>2. outcome[r] # "ok"
    BY <1>0 DEF RankInv, Result
  <2> QED BY <2>1, <2>2 DEF Returning, Decided
<1>2. Leads(o, p, "return")
  <2>1. NextPlace(o, p) = "return"
    BY <1>1 DEF Target
  <2> QED BY <1>0, <2>1, PlacesOf
<1>3. o \notin Void => p \in {"communicator free", "post cleanup"}
  BY <1>2 DEF Leads, EarlyPlace, UnseenPlace, SeenPlace, UnseenCatalog, SeenCatalog
<1>4. \A x \in Writing \union {"read_mpi_catalog"} : x \notin Void
  BY DEF Writing, Void
<1>5. ASSUME o \in Writing PROVE file["marker"] = "stored"
  <2>1. Writer(r) /\ p \in ClosingPlace \union {"post cleanup"}
    BY <1>1, <1>3, <1>4, <1>5 DEF Writer, ClosingPlace
  <2> QED BY <1>0, <2>1 DEF WriteInv
<1>6. ASSUME o = "read_mpi_catalog" PROVE file["marker"] # "absent"
  <2>1. p = "communicator free"
    BY <1>0, <1>3, <1>4, <1>6 DEF Fits
  <2> QED BY <1>0, <1>1, <1>6, <2>1 DEF ReadInv, ClosingPlace
<1> QED BY <1>5, <1>6

LEMMA ReturnFile ==
  ASSUME ControlInv, FileInv, NEW r \in Rank, Return(r)
  PROVE  FileInv'
<1>0. ControlType /\ FileType /\ RankInv(r) /\ ReadInv(r)
  BY RankParts DEF ControlInv, FileInv
<1>1. /\ Busy(r) /\ Complete(r) /\ ~ MustAbort(r) /\ Target(r) = "return"
      /\ log' = log /\ op' = op /\ outcome' = outcome /\ held' = held /\ calls' = calls
      /\ file' = file /\ created' = created /\ staging' = staging
      /\ place' = [place EXCEPT ![r] = "idle"]
  BY DEF Return, Reaches, Leaves, Busy, bounds, disk
<1>2. Error(r) \in Result \ {"none", "ok"}
  BY <1>1, ErrorsKnown, RankParts DEF ErrorFact
<1>3. /\ result' = [result EXCEPT ![r] = Returning(r)]
      /\ destination' = destination \/ destination' = [destination EXCEPT ![r] = staging[r]]
      /\ told' = IF op[r] \in Writing THEN told \union {Returning(r)} ELSE told
  <2> DEFINE o == IF outcome[r] = "none" /\ Refused(r) THEN Error(r)
                  ELSE IF outcome[r] = "none" THEN "ok" ELSE outcome[r]
  <2>1. /\ result' = [result EXCEPT ![r] = o]
        /\ destination' = destination \/ destination' = [destination EXCEPT ![r] = staging[r]]
        /\ told' = IF op[r] \in Writing THEN told \union {o} ELSE told
    BY DEF Return
  <2>2. o = Returning(r)
    BY <1>2 DEF Returning, Decided
  <2> QED BY <2>1, <2>2
<1>4. Returning(r) \in Result
  BY <1>0, <1>2 DEF Returning, Decided, RankInv, Result
<1>5. /\ place'[r] = "idle" /\ ~ Busy(r)' /\ result'[r] = Returning(r) /\ staging'[r] = staging[r]
      /\ destination'[r] \in {destination[r], staging[r]}
  BY <1>0, <1>1, <1>3 DEF ControlType, FileType, Busy
<1>6. FileType'
  BY <1>0, <1>1, <1>3, <1>4 DEF FileType
<1>7. ASSUME NEW s \in Rank, s # r
      PROVE  /\ Unmoved(s) /\ Own(s)' = Own(s)
             /\ staging'[s] = staging[s] /\ destination'[s] = destination[s]
             /\ Busy(s) /\ Complete(s) => Complete(s)' /\ (Refused(s)' <=> Refused(s))
  <2>1. place'[s] = place[s] /\ Unmoved(s)
    BY <1>0, <1>1, <1>3, <1>7 DEF Unmoved, ControlType
  <2>2. staging'[s] = staging[s] /\ destination'[s] = destination[s]
    BY <1>0, <1>1, <1>3, <1>7 DEF FileType
  <2>3. /\ Complete(s)' <=> Complete(s)
        /\ Words(s)' = Words(s) /\ WordsBefore(s)' = WordsBefore(s) /\ Own(s)' = Own(s)
    BY <1>1 DEF Complete, Words, WordsBefore, WordOf, Own, Ahead, Turn
  <2>4. Agreed(s)' <=> Agreed(s)
    BY <2>1, <2>3 DEF Agreed
  <2>5. Malformed(s)' <=> Malformed(s)
    BY <1>1, <2>1 DEF Malformed
  <2>6. Refused(s)' <=> Refused(s)
    BY <2>1, <2>4, <2>5 DEF Refused
  <2> QED BY <2>1, <2>2, <2>3, <2>6
<1>8. ~ OnPath(r)' /\ WriteInv(r)'
  BY <1>5 DEF OnPath, WriteInv, Writer
<1>9. ReadInv(r)'
  <2>1. op[r] = "read_mpi_catalog" /\ result'[r] = "ok" => file["marker"] # "absent"
    BY <1>1, <1>5, ReturnsOk
  <2>2. "hole" \in {staging'[r], destination'[r]} => op[r] = "read_mpi_raw"
    BY <1>0, <1>5 DEF ReadInv
  <2> QED BY <1>1, <1>5, <2>1, <2>2 DEF ReadInv
<1>10. Incomplete' => Incomplete
  <2>1. ASSUME Returning(r) = "WriteIncomplete" PROVE Incomplete
    <3>1. CASE outcome[r] = "WriteIncomplete"
      BY <3>1 DEF Incomplete
    <3>2. CASE outcome[r] # "WriteIncomplete"
      <4>1. Refused(r) /\ Error(r) = "WriteIncomplete"
        BY <2>1, <3>2 DEF Returning, Decided
      <4>2. place[r] \in BeforeMarker
        BY <1>1, <4>1, ErrorsKnown, RankParts DEF ErrorFact
      <4>3. Target(r) = Exit(op[r], place[r])
        BY <1>1, <4>1, Exits, RankParts
      <4>4. Exit(op[r], place[r]) # "return"
        BY <4>2 DEF Exit, BeforeMarker, MidPlace, PastPlace
      <4> QED BY <1>1, <4>3, <4>4
    <3> QED BY <3>1, <3>2
  <2> QED BY <1>1, <1>3, <2>1 DEF Incomplete
<1>11. ("ok" \in told => file["marker"] = "stored")'
  <2>1. op[r] \in Writing /\ Returning(r) = "ok" => file["marker"] = "stored"
    BY <1>1, ReturnsOk
  <2> QED BY <1>1, <1>3, <2>1 DEF FileInv
<1>12. Quiet(r)
  BY <1>1, <1>6, <1>7, <1>8, <1>9, <1>10, <1>11 DEF Quiet
<1> QED BY <1>12, QuietFile

LEMMA StaysFile ==
  ASSUME ControlInv, FileInv, Stays
  PROVE  FileInv'
<1>0. /\ log' = log /\ place' = place /\ op' = op /\ outcome' = outcome /\ result' = result
      /\ file' = file /\ created' = created /\ staging' = staging /\ destination' = destination
      /\ told' = told
  BY DEF Stays, control, disk, memory
<1>1. ASSUME NEW s \in Rank
      PROVE  /\ Complete(s)' <=> Complete(s)
             /\ Refused(s)' <=> Refused(s)
             /\ OnPath(s)' <=> OnPath(s)
             /\ WriteInv(s)' /\ ReadInv(s)'
  <2>1. /\ Complete(s)' <=> Complete(s)
        /\ Words(s)' = Words(s) /\ WordsBefore(s)' = WordsBefore(s)
        /\ Own(s)' = Own(s) /\ (Busy(s)' <=> Busy(s))
    BY <1>0 DEF Complete, Words, WordsBefore, WordOf, Own, Ahead, Turn, Busy
  <2>2. (Agreed(s)' <=> Agreed(s)) /\ (Malformed(s)' <=> Malformed(s))
    BY <1>0, <2>1 DEF Agreed, Malformed
  <2>3. Refused(s)' <=> Refused(s)
    BY <1>0, <2>2 DEF Refused
  <2>4. /\ Writer(s)' <=> Writer(s)
        /\ \A p : Did(s, p)' <=> Did(s, p)
    BY <1>0, <2>1 DEF Writer, Did
  <2>5. OnPath(s)' <=> OnPath(s)
    BY <1>0, <2>4 DEF OnPath
  <2>6. WriteInv(s) /\ ReadInv(s)
    BY DEF FileInv
  <2>7. WriteInv(s)'
    BY <1>0, <2>4, <2>5, <2>6 DEF WriteInv
  <2>8. ReadInv(s)'
    BY <1>0, <2>1, <2>4, <2>6 DEF ReadInv
  <2> QED BY <2>1, <2>3, <2>5, <2>7, <2>8
<1>2. FileType' /\ MarkerInv'
  BY <1>0, <1>1 DEF FileInv, FileType, MarkerInv, Stored
<1>3. IncompleteInv'
  <2>1. Incomplete' <=> Incomplete
    BY <1>0 DEF Incomplete
  <2> QED BY <1>0, <1>1, <2>1 DEF FileInv, IncompleteInv
<1>4. ("ok" \in told => file["marker"] = "stored")'
  BY <1>0 DEF FileInv
<1> QED BY <1>1, <1>2, <1>3, <1>4 DEF FileInv

(* A crash stores or loses what was cached.  The marker is never cached    *)
(* while anything else is: what was said of the file stays true.           *)
LEMMA CrashFile ==
  ASSUME ControlInv, FileInv, Crash
  PROVE  FileInv'
<1>1. FileType /\ MarkerInv /\ IncompleteInv /\ ("ok" \in told => file["marker"] = "stored")
  BY DEF FileInv
<1>2. /\ place' = [r \in Rank |-> "idle"] /\ outcome' = [r \in Rank |-> "none"]
      /\ result' = [r \in Rank |-> "none"] /\ staging' = [r \in Rank |-> "none"]
      /\ destination' = [r \in Rank |-> "old"] /\ created' = created /\ told' = told
  BY DEF Crash
<1>3. PICK lost \in SUBSET {x \in Part : file[x] = "cached"} :
        file' = [x \in Part |-> IF x \in lost THEN "absent"
                                ELSE IF file[x] = "cached" THEN "stored" ELSE file[x]]
  BY DEF Crash
<1>4. /\ file' \in [Part -> FileState]
      /\ \A x \in Part : /\ file[x] = "stored" => file'[x] = "stored"
                         /\ file[x] = "absent" => file'[x] = "absent"
  BY <1>1, <1>3 DEF FileType, FileState
<1>5. FileType'
  BY <1>1, <1>2, <1>4 DEF FileType, FileState
<1>6. ASSUME NEW r \in Rank
      PROVE  /\ ~ Busy(r)' /\ ~ OnPath(r)' /\ outcome'[r] = "none"
             /\ WriteInv(r)' /\ ReadInv(r)'
  <2>1. /\ ~ Busy(r)' /\ outcome'[r] = "none" /\ result'[r] = "none"
        /\ staging'[r] = "none" /\ destination'[r] = "old"
    BY <1>2 DEF Busy
  <2> QED BY <2>1 DEF OnPath, Writer, WriteInv, ReadInv
<1>7. "marker" \in Part
  BY Parts
<1>8. MarkerInv'
  BY <1>1, <1>2, <1>4, <1>6, <1>7 DEF MarkerInv, Stored
<1>9. IncompleteInv'
  <2>1. Incomplete' => Incomplete
    BY <1>2, <1>6 DEF Incomplete
  <2> QED BY <1>1, <1>2, <1>4, <1>6, <1>7, <2>1 DEF IncompleteInv
<1> QED BY <1>1, <1>2, <1>4, <1>5, <1>6, <1>7, <1>8, <1>9 DEF FileInv

LEMMA FileInit == Init => FileInv
<1> SUFFICES ASSUME Init PROVE FileInv
  OBVIOUS
<1>1. /\ file = [x \in Part |-> "absent"] /\ told = {} /\ created = FALSE /\ "marker" \in Part
      /\ staging = [r \in Rank |-> "none"] /\ destination = [r \in Rank |-> "old"]
  BY Parts DEF Init
<1>2. ASSUME NEW r \in Rank
      PROVE  ~ Busy(r) /\ ~ OnPath(r) /\ outcome[r] = "none" /\ WriteInv(r) /\ ReadInv(r)
  <2>1. /\ ~ Busy(r) /\ outcome[r] = "none" /\ result[r] = "none" /\ staging[r] = "none"
        /\ destination[r] = "old"
    BY DEF Init, Busy
  <2> QED BY <2>1 DEF OnPath, Writer, WriteInv, ReadInv
<1>3. FileType
  BY <1>1 DEF FileType
<1>4. MarkerInv /\ IncompleteInv
  BY <1>1, <1>2 DEF MarkerInv, IncompleteInv, Incomplete
<1> QED BY <1>1, <1>2, <1>3, <1>4 DEF FileInv

LEMMA FileNext == ControlInv /\ FileInv /\ [Next]_vars => FileInv'
<1> SUFFICES ASSUME ControlInv, FileInv, [Next]_vars PROVE FileInv'
  OBVIOUS
<1>1. ASSUME NEW r \in Rank, Begin(r) PROVE FileInv'
  BY <1>1, BeginFile
<1>2. ASSUME NEW r \in Rank, Step(r) PROVE FileInv'
  BY <1>2, StepKinds, StaysFile, ReturnFile, AdvanceFile DEF Advances
<1>3. CASE Crash
  BY <1>3, CrashFile
<1>4. CASE UNCHANGED vars
  <2>1. Stays
    BY <1>4 DEF vars, Stays, bounds
  <2> QED BY <2>1, StaysFile
<1>5. CASE Done
  BY <1>4, <1>5 DEF Done
<1> QED BY <1>1, <1>2, <1>3, <1>4, <1>5 DEF Next

(* The inductive invariant: the ranks are in step, and what they have      *)
(* written, read and said of the file agrees with what it holds.           *)
THEOREM FilesStayConsistent == Spec => []MpiIoInv
<1>1. Init => MpiIoInv
  BY ControlInit, FileInit DEF MpiIoInv
<1>2. MpiIoInv /\ [Next]_vars => MpiIoInv'
  BY ControlNext, FileNext DEF MpiIoInv
<1> QED BY <1>1, <1>2, PTL DEF Spec

(* The marker is the whole truth about a file, whoever fails and whenever  *)
(* the system crashes: a read that succeeds publishes what was written,    *)
(* what a write returned Ok for is stored, and no reader accepts a file    *)
(* that a write has called WriteIncomplete (mpi_io.rs, lib.rs).            *)
THEOREM MarkerAlwaysTellsTheTruth == Spec => []MarkerTellsTheTruth
<1>1. ASSUME MpiIoInv PROVE MarkerTellsTheTruth
  <2>1. /\ file["marker"] # "absent" => \A x \in Part \ {"marker"} : file[x] = "stored"
        /\ \A r \in Rank : ReadInv(r)
        /\ "ok" \in told => file["marker"] = "stored"
        /\ Incomplete => file["marker"] = "absent"
    BY <1>1 DEF MpiIoInv, FileInv, MarkerInv, IncompleteInv, Stored
  <2>2. ReadsAreWhole
    <3>1. ASSUME NEW r \in Rank, destination[r] = "hole" PROVE op[r] = "read_mpi_raw"
      BY <2>1, <3>1 DEF ReadInv
    <3>2. ASSUME NEW r \in Rank, result[r] = "ok", op[r] = "read_mpi_catalog", NEW x \in Part
          PROVE  file[x] # "absent"
      <4>1. file["marker"] # "absent"
        BY <2>1, <3>2 DEF ReadInv
      <4> QED BY <2>1, <4>1
    <3> QED BY <3>1, <3>2 DEF ReadsAreWhole
  <2>3. OkIsStored
    BY <2>1 DEF OkIsStored
  <2>4. IncompleteIsInvisible
    BY <2>1 DEF IncompleteIsInvisible, Incomplete
  <2> QED BY <2>2, <2>3, <2>4 DEF MarkerTellsTheTruth
<1>2. MpiIoInv => MarkerTellsTheTruth
  BY <1>1
<1> QED BY <1>2, FilesStayConsistent, PTL
===============================================================================
