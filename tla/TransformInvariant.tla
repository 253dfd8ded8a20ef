-------------------------- MODULE TransformInvariant --------------------------
(***************************************************************************)
(* The inductive invariant of Transform, as far as control goes.           *)
(*                                                                         *)
(* What a rank will meet the others in next follows from the steps it      *)
(* still has to go and, while it is in a reduction, from the words of all. *)
(* Ranks at the same reduction have the same outlook; a rank that is ahead *)
(* waits in the reduction that the others will come to.  For this a step   *)
(* that may fail on one rank alone must not be followed by a meeting that  *)
(* this rank would miss.                                                   *)
(***************************************************************************)
EXTENDS Transform, ReductionProofs

----------------------------------------------------------------------------
(* Scripts.                                                                *)

(* Where ranks meet; a refusal that all come to is one as well. *)
Meeting(p, x) ==
  \/ x.do \in {"agree", "result", "exchange", "refuse"}
  \/ x.do = "move" /\ p.transition[x.i] = "distributed"

MayFail(x) == x.do \in {"stage", "convert"} /\ x.caught = "result"

(* After a step that may fail alone the next meeting is about it. *)
Answered(p, s) ==
  \A k \in 1..Len(s) : MayFail(s[k]) =>
    \E h \in (k + 1)..Len(s) : s[h].do = "result" /\ \A i \in (k + 1)..(h - 1) : ~ Meeting(p, s[i])

(* Whatever refuses a step can be told from success. *)
Refusing == {"agree", "result", "exchange", "move", "stage", "convert", "refuse"}

(* What a rank looks at in its own arrays is never in question there.      *)
Judged == {"preflight", "member preflight", "transport", "spectrum"}

Named(x) ==
  /\ {"do", "caught"} \subseteq DOMAIN x
  /\ x.do = "move" => "i" \in DOMAIN x
  /\ x.do \in Refusing => "place" \in DOMAIN x /\ x.place # OK
  /\ x.do = "result" => x.place[1] \notin Silent \union Judged

(* What a rank has still to go: agreements at first, parts after them. *)
Whole(p, s) ==
  /\ \E E : s \in Seq(E)
  /\ Answered(p, s)
  /\ \A k \in 1..Len(s) :
       /\ Named(s[k])
       /\ s[k].do = "refuse" => s[k].caught = "no"
       /\ s[k].do = "convert" => s[k].caught = "result"
       /\ TurnsDown(s[k]) => \A i \in 1..k : s[i].do = "agree"

(* Ways to end a call with an error that remain: of member m's spectrum. *)
Looks(s, m) ==
  \E k \in 1..Len(s) : s[k].do = "refuse" \/ (s[k].do = "agree" /\ s[k].place = <<"spectrum", m>>)

----------------------------------------------------------------------------
(* Outlook.                                                                *)

Meetings(p, s) == {k \in 1..Len(s) : Meeting(p, s[k])}

(* From the next meeting on. *)
Onto(p, s) == IF Meetings(p, s) = {} THEN <<>> ELSE SubSeq(s, First(Meetings(p, s)), Len(s))

(* What r will do when the reduction it waits in is complete. *)
Passing(r) == Step(r).place[1] \in Silent \/ Accepted(r)

Rest(r) ==
  IF ~ waiting[r] THEN todo[r]
  ELSE IF Passing(r) THEN Tail(todo[r])
  ELSE IF Handlers(r) # {} THEN SubSeq(todo[r], First(Handlers(r)), Len(todo[r])) ELSE <<>>

Dismissed(r) == waiting[r] /\ ~ Passing(r) /\ Handlers(r) = {}

(* Where steps lead: to the end of the call or to a reduction. *)
Leads(p, s) ==
  LET next == Onto(p, s)
  IN  IF next = <<>> THEN <<"ends", OK>>
      ELSE IF next[1].do = "refuse" THEN <<"ends", next[1].place>>
      ELSE <<"meets", next>>

(* A call counts from its first reduction on: of its header. *)
Opening(r) == todo[r] = Script(call[r])
Engaged(r) == busy[r] /\ (waiting[r] \/ ~ Opening(r))

Outlook(r) ==
  IF ~ Engaged(r) THEN <<"ends", result[r]>>
  ELSE IF Dismissed(r) THEN <<"ends", Step(r).place>>
  ELSE Leads(plan, Rest(r))

(* Ranks p and q are at the same reduction. *)
Same(p, q) ==
  IF waiting[p] /\ waiting[q]
  THEN todo[p] = todo[q] \/ (Opening(p) /\ Opening(q))
  ELSE Outlook(p) = Outlook(q)

(* Rank q is one reduction ahead of p. *)
Lead(q, p) ==
  /\ waiting[q]
  /\ Outlook(p) = <<"meets", todo[q]>> \/ (Outlook(p)[1] = "ends" /\ Opening(q))

InStep ==
  \A p, q \in Rank :
    /\ Ahead(q, p) = 0 => Same(p, q)
    /\ Ahead(q, p) = 1 => Lead(q, p)

RankInv(r) ==
  /\ call[r].kind \in AllKinds /\ call[r].direction \in {"forward", "reverse"}
  /\ call[r].n \in MemberIndex
  /\ Whole(plan, todo[r])
  /\ Len(todo[r]) <= Len(Script(call[r]))
  /\ ~ waiting[r] => Complete(r)
  /\ waiting[r] =>
       /\ busy[r] /\ todo[r] # <<>> /\ Len(log[r]) >= 1
       /\ Meeting(plan, todo[r][1]) /\ todo[r][1].do # "refuse"
       /\ Opening(r) => Own(r).word.about = <<call[r].kind, call[r].direction, call[r].n>>

Shapes ==
  /\ busy \in [Rank -> BOOLEAN] /\ waiting \in [Rank -> BOOLEAN] /\ failing \in [Rank -> BOOLEAN]
  /\ DOMAIN todo = Rank /\ DOMAIN result = Rank /\ DOMAIN call = Rank
  /\ DOMAIN data = Rank /\ DOMAIN poisoned = Rank /\ DOMAIN state = Rank /\ DOMAIN storage = Rank

ControlInv ==
  /\ LogInv /\ plan \in Plans /\ Shapes
  /\ \A r \in Rank : RankInv(r)
  /\ InStep

----------------------------------------------------------------------------
(* Invalid spectra.                                                        *)

(* Who calls with an invalid spectrum has not yet come to where it is      *)
(* looked at, or has failed and not yet come to the result of it.          *)
SpectrumInv(r) ==
  /\ failing[r] => busy[r] /\ todo[r] # <<>> /\ todo[r][1].do = "result"
  /\ \A m \in call[r].bad :
       IF busy[r] THEN failing[r] \/ Looks(todo[r], m)
       ELSE result[r] # OK
  /\ waiting[r] =>
       /\ todo[r][1].do = "result" /\ failing[r] => ~ Own(r).word.ok
       /\ todo[r][1].do = "agree" /\ todo[r][1].place[1] = "spectrum"
            /\ todo[r][1].place[2] \in call[r].bad => ~ Own(r).word.ok

TransformInv == ControlInv /\ \A r \in Rank : SpectrumInv(r)
===============================================================================
