----------------------------- MODULE ContainerProofs -----------------------------
(***************************************************************************)
(* Ranks in a container stay in step: they enter the same reductions,      *)
(* decide alike in every call and keep the same sessions, for any number   *)
(* of ranks and sessions, any sequence of calls, and whatever fails or     *)
(* crashes.  A record is committed when all of it is stored, nothing is    *)
(* written over, and what a scan has found is what there is until the root *)
(* writes.                                                                 *)
(***************************************************************************)
EXTENDS ContainerInvariant, FiniteSetTheorems, SequenceTheorems, WellFoundedInduction

----------------------------------------------------------------------------
(* Scripts.                                                                *)

Allowed(o) == {p \in AnyPlace : Fits(o, p)}
Edges(o) == {e \in AnyPlace \X AnyPlace : Leads(o, e[1], e[2])}

(* Part s of the script of o leads from place a to place b. *)
Stretch(o, s, a, b, S) == Walk(s, a, b, Allowed(o), Edges(o), S)

LEMMA Edge ==
  ASSUME NEW o, NEW p \in AnyPlace, NEW n \in AnyPlace, Leads(o, p, n)
  PROVE  <<p, n>> \in Edges(o)
BY DEF Edges

LEMMA JoinStretches ==
  ASSUME NEW o, NEW s, NEW t, NEW a, NEW b, NEW c, NEW d, NEW S, NEW T,
         Stretch(o, s, a, b, S), Stretch(o, t, c, d, T), <<b, c>> \in Edges(o)
  PROVE  Stretch(o, s \o t, a, d, S \union T)
BY JoinWalks DEF Stretch

(* Agreeing on an array. *)
LEMMA EntryWalk ==
  ASSUME NEW o \in PathOp \ (Collection \union {"named_catalog"})
  PROVE  Stretch(o, Entry(o), "descriptor", "preparation",
               {"descriptor", "name", "preparation"})
<1>1. /\ "descriptor" \in Allowed(o) /\ "name" \in Allowed(o)
      /\ "preparation" \in Allowed(o)
  BY DEF Allowed, Fits, AnyPlace, DetailPlace, NamePlace, ClosePlace, AcquirePlace, ScanPlace,
         CommitPlace, NamedOp, WritingOp, ReadingOp, NewOp, AppendOp, InSession, PathOp, OpenOp,
         SessionOp, Collection
<1>2. /\ <<"descriptor", "name">> \in Edges(o)
      /\ <<"name", "preparation">> \in Edges(o)
  BY DEF Edges, Leads, AnyPlace, DetailPlace, NamePlace, ClosePlace, AcquirePlace, ScanPlace,
         CommitPlace, WritingOp, ReadingOp, NewOp, AppendOp, InSession, PathOp, OpenOp, SessionOp,
         Collection
<1> QED BY <1>1, <1>2, Walk3, Zenon DEF Stretch, Entry

(* Agreeing on a collection. *)
LEMMA CollectionWalk ==
  ASSUME NEW o \in Collection
  PROVE  Stretch(o, Entry(o), "descriptor", "preparation",
               {"descriptor", "collection name", "collection options", "members",
                "collection preparation", "array descriptor", "array name",
                "preparation"})
<1>1. /\ "descriptor" \in Allowed(o) /\ "collection name" \in Allowed(o)
      /\ "collection options" \in Allowed(o) /\ "members" \in Allowed(o)
      /\ "collection preparation" \in Allowed(o) /\ "array descriptor" \in Allowed(o)
      /\ "array name" \in Allowed(o) /\ "preparation" \in Allowed(o)
  BY DEF Allowed, Fits, AnyPlace, DetailPlace, NamePlace, ClosePlace, AcquirePlace, ScanPlace,
         CommitPlace, NamedOp, WritingOp, ReadingOp, NewOp, AppendOp, InSession, PathOp, OpenOp,
         SessionOp, Collection
<1>2. /\ <<"descriptor", "collection name">> \in Edges(o)
      /\ <<"collection name", "collection options">> \in Edges(o)
      /\ <<"collection options", "members">> \in Edges(o)
      /\ <<"members", "collection preparation">> \in Edges(o)
      /\ <<"collection preparation", "array descriptor">> \in Edges(o)
      /\ <<"array descriptor", "array name">> \in Edges(o)
      /\ <<"array name", "preparation">> \in Edges(o)
  BY DEF Edges, Leads, AnyPlace, DetailPlace, NamePlace, ClosePlace, AcquirePlace, ScanPlace,
         CommitPlace, WritingOp, ReadingOp, NewOp, AppendOp, InSession, PathOp, OpenOp, SessionOp,
         Collection
<1> QED BY <1>1, <1>2, Walk8, Zenon DEF Stretch, Entry

(* Agreeing on a catalog. *)
LEMMA CatalogEntryWalk ==
  ASSUME NEW o \in {"named_catalog"}
  PROVE  Stretch(o, <<"descriptor", "preparation", "path bytes">>, "descriptor", "path bytes",
               {"descriptor", "preparation", "path bytes"})
<1>1. /\ "descriptor" \in Allowed(o) /\ "preparation" \in Allowed(o)
      /\ "path bytes" \in Allowed(o)
  BY DEF Allowed, Fits, AnyPlace, DetailPlace, NamePlace, ClosePlace, AcquirePlace, ScanPlace,
         CommitPlace, NamedOp, WritingOp, ReadingOp, NewOp, AppendOp, InSession, PathOp, OpenOp,
         SessionOp, Collection
<1>2. /\ <<"descriptor", "preparation">> \in Edges(o)
      /\ <<"preparation", "path bytes">> \in Edges(o)
  BY DEF Edges, Leads, AnyPlace, DetailPlace, NamePlace, ClosePlace, AcquirePlace, ScanPlace,
         CommitPlace, WritingOp, ReadingOp, NewOp, AppendOp, InSession, PathOp, OpenOp, SessionOp,
         Collection
<1> QED BY <1>1, <1>2, Walk3, Zenon DEF Stretch

(* Agreeing on a new session. *)
LEMMA OpenEntryWalk ==
  ASSUME NEW o \in OpenOp
  PROVE  
Stretch(o, <<"descriptor", "options", "preparation", "path bytes", "identifier", "info">>, "descriptor", "info",
               {"descriptor", "options", "preparation", "path bytes", "identifier",
                "info"})
<1>1. /\ "descriptor" \in Allowed(o) /\ "options" \in Allowed(o)
      /\ "preparation" \in Allowed(o) /\ "path bytes" \in Allowed(o)
      /\ "identifier" \in Allowed(o) /\ "info" \in Allowed(o)
  BY DEF Allowed, Fits, AnyPlace, DetailPlace, NamePlace, ClosePlace, AcquirePlace, ScanPlace,
         CommitPlace, NamedOp, WritingOp, ReadingOp, NewOp, AppendOp, InSession, PathOp, OpenOp,
         SessionOp, Collection
<1>2. /\ <<"descriptor", "options">> \in Edges(o)
      /\ <<"options", "preparation">> \in Edges(o)
      /\ <<"preparation", "path bytes">> \in Edges(o)
      /\ <<"path bytes", "identifier">> \in Edges(o)
      /\ <<"identifier", "info">> \in Edges(o)
  BY DEF Edges, Leads, AnyPlace, DetailPlace, NamePlace, ClosePlace, AcquirePlace, ScanPlace,
         CommitPlace, WritingOp, ReadingOp, NewOp, AppendOp, InSession, PathOp, OpenOp, SessionOp,
         Collection
<1> QED BY <1>1, <1>2, Walk6, Zenon DEF Stretch

(* Agreeing on an array in a session. *)
LEMMA SessionEntryWalk ==
  ASSUME NEW o \in InSession
  PROVE  
Stretch(o, <<"descriptor", "options", "name", "view descriptor", "preparation", "byte view">>, "descriptor", "byte view",
               {"descriptor", "options", "name", "view descriptor", "preparation",
                "byte view"})
<1>1. /\ "descriptor" \in Allowed(o) /\ "options" \in Allowed(o)
      /\ "name" \in Allowed(o) /\ "view descriptor" \in Allowed(o)
      /\ "preparation" \in Allowed(o) /\ "byte view" \in Allowed(o)
  BY DEF Allowed, Fits, AnyPlace, DetailPlace, NamePlace, ClosePlace, AcquirePlace, ScanPlace,
         CommitPlace, NamedOp, WritingOp, ReadingOp, NewOp, AppendOp, InSession, PathOp, OpenOp,
         SessionOp, Collection
<1>2. /\ <<"descriptor", "options">> \in Edges(o)
      /\ <<"options", "name">> \in Edges(o)
      /\ <<"name", "view descriptor">> \in Edges(o)
      /\ <<"view descriptor", "preparation">> \in Edges(o)
      /\ <<"preparation", "byte view">> \in Edges(o)
  BY DEF Edges, Leads, AnyPlace, DetailPlace, NamePlace, ClosePlace, AcquirePlace, ScanPlace,
         CommitPlace, WritingOp, ReadingOp, NewOp, AppendOp, InSession, PathOp, OpenOp, SessionOp,
         Collection
<1> QED BY <1>1, <1>2, Walk6, Zenon DEF Stretch

(* Opening a file. *)
LEMMA AcquireWalk ==
  ASSUME NEW o \in PathOp \union OpenOp
  PROVE  Stretch(o, Acquire, "duplicate", "file handler",
               {"duplicate", "communicator handler", "open", "file handler"})
<1>1. /\ "duplicate" \in Allowed(o) /\ "communicator handler" \in Allowed(o)
      /\ "open" \in Allowed(o) /\ "file handler" \in Allowed(o)
  BY DEF Allowed, Fits, AnyPlace, DetailPlace, NamePlace, ClosePlace, AcquirePlace, ScanPlace,
         CommitPlace, NamedOp, WritingOp, ReadingOp, NewOp, AppendOp, InSession, PathOp, OpenOp,
         SessionOp, Collection
<1>2. /\ <<"duplicate", "communicator handler">> \in Edges(o)
      /\ <<"communicator handler", "open">> \in Edges(o)
      /\ <<"open", "file handler">> \in Edges(o)
  BY DEF Edges, Leads, AnyPlace, DetailPlace, NamePlace, ClosePlace, AcquirePlace, ScanPlace,
         CommitPlace, WritingOp, ReadingOp, NewOp, AppendOp, InSession, PathOp, OpenOp, SessionOp,
         Collection
<1> QED BY <1>1, <1>2, Walk4, Zenon DEF Stretch, Acquire

(* Scanning it. *)
LEMMA ScanWalk ==
  ASSUME NEW o \in (PathOp \union OpenOp \union SessionOp) \ (NewOp \union {"create"})
  PROVE  Stretch(o, Scan, "size", "decode",
               {"size", "report", "decode"})
<1>1. /\ "size" \in Allowed(o) /\ "report" \in Allowed(o)
      /\ "decode" \in Allowed(o)
  BY DEF Allowed, Fits, AnyPlace, DetailPlace, NamePlace, ClosePlace, AcquirePlace, ScanPlace,
         CommitPlace, NamedOp, WritingOp, ReadingOp, NewOp, AppendOp, InSession, PathOp, OpenOp,
         SessionOp, Collection
<1>2. /\ <<"size", "report">> \in Edges(o)
      /\ <<"report", "decode">> \in Edges(o)
  BY DEF Edges, Leads, AnyPlace, DetailPlace, NamePlace, ClosePlace, AcquirePlace, ScanPlace,
         CommitPlace, WritingOp, ReadingOp, NewOp, AppendOp, InSession, PathOp, OpenOp, SessionOp,
         Collection
<1> QED BY <1>1, <1>2, Walk3, Zenon DEF Stretch, Scan

(* Writing a record. *)
LEMMA CommitWalk ==
  ASSUME NEW o \in WritingOp
  PROVE  Stretch(o, Commit, "head", "marker flush",
               {"head", "header flush", "payload view", "payload", "payload flush",
                "marker view", "marker", "marker flush"})
<1>1. /\ "head" \in Allowed(o) /\ "header flush" \in Allowed(o)
      /\ "payload view" \in Allowed(o) /\ "payload" \in Allowed(o)
      /\ "payload flush" \in Allowed(o) /\ "marker view" \in Allowed(o)
      /\ "marker" \in Allowed(o) /\ "marker flush" \in Allowed(o)
  BY DEF Allowed, Fits, AnyPlace, DetailPlace, NamePlace, ClosePlace, AcquirePlace, ScanPlace,
         CommitPlace, NamedOp, WritingOp, ReadingOp, NewOp, AppendOp, InSession, PathOp, OpenOp,
         SessionOp, Collection
<1>2. /\ <<"head", "header flush">> \in Edges(o)
      /\ <<"header flush", "payload view">> \in Edges(o)
      /\ <<"payload view", "payload">> \in Edges(o)
      /\ <<"payload", "payload flush">> \in Edges(o)
      /\ <<"payload flush", "marker view">> \in Edges(o)
      /\ <<"marker view", "marker">> \in Edges(o)
      /\ <<"marker", "marker flush">> \in Edges(o)
  BY DEF Edges, Leads, AnyPlace, DetailPlace, NamePlace, ClosePlace, AcquirePlace, ScanPlace,
         CommitPlace, WritingOp, ReadingOp, NewOp, AppendOp, InSession, PathOp, OpenOp, SessionOp,
         Collection
<1> QED BY <1>1, <1>2, Walk8, Zenon DEF Stretch, Commit

(* Reading one. *)
LEMMA FetchWalk ==
  ASSUME NEW o \in ReadingOp
  PROVE  Stretch(o, Fetch, "datatype", "staging",
               {"datatype", "payload view", "payload read", "staging"})
<1>1. /\ "datatype" \in Allowed(o) /\ "payload view" \in Allowed(o)
      /\ "payload read" \in Allowed(o) /\ "staging" \in Allowed(o)
  BY DEF Allowed, Fits, AnyPlace, DetailPlace, NamePlace, ClosePlace, AcquirePlace, ScanPlace,
         CommitPlace, NamedOp, WritingOp, ReadingOp, NewOp, AppendOp, InSession, PathOp, OpenOp,
         SessionOp, Collection
<1>2. /\ <<"datatype", "payload view">> \in Edges(o)
      /\ <<"payload view", "payload read">> \in Edges(o)
      /\ <<"payload read", "staging">> \in Edges(o)
  BY DEF Edges, Leads, AnyPlace, DetailPlace, NamePlace, ClosePlace, AcquirePlace, ScanPlace,
         CommitPlace, WritingOp, ReadingOp, NewOp, AppendOp, InSession, PathOp, OpenOp, SessionOp,
         Collection
<1> QED BY <1>1, <1>2, Walk4, Zenon DEF Stretch, Fetch

(* Closing the file. *)
LEMMA ClosingWalk ==
  ASSUME NEW o \in PathOp \union {"close"}
  PROVE  Stretch(o, Closing, "datatype free", "communicator free",
               {"datatype free", "file close", "communicator free"})
<1>1. /\ "datatype free" \in Allowed(o) /\ "file close" \in Allowed(o)
      /\ "communicator free" \in Allowed(o)
  BY DEF Allowed, Fits, AnyPlace, DetailPlace, NamePlace, ClosePlace, AcquirePlace, ScanPlace,
         CommitPlace, NamedOp, WritingOp, ReadingOp, NewOp, AppendOp, InSession, PathOp, OpenOp,
         SessionOp, Collection
<1>2. /\ <<"datatype free", "file close">> \in Edges(o)
      /\ <<"file close", "communicator free">> \in Edges(o)
  BY DEF Edges, Leads, AnyPlace, DetailPlace, NamePlace, ClosePlace, AcquirePlace, ScanPlace,
         CommitPlace, WritingOp, ReadingOp, NewOp, AppendOp, InSession, PathOp, OpenOp, SessionOp,
         Collection
<1> QED BY <1>1, <1>2, Walk3, Zenon DEF Stretch, Closing

(* Leaving the file open. *)
LEMMA FinishWalk ==
  ASSUME NEW o \in InSession
  PROVE  Stretch(o, Finish, "view reset", "operation datatype free",
               {"view reset", "operation datatype free"})
<1>1. /\ "view reset" \in Allowed(o) /\ "operation datatype free" \in Allowed(o)
  BY DEF Allowed, Fits, AnyPlace, DetailPlace, NamePlace, ClosePlace, AcquirePlace, ScanPlace,
         CommitPlace, NamedOp, WritingOp, ReadingOp, NewOp, AppendOp, InSession, PathOp, OpenOp,
         SessionOp, Collection
<1>2. /\ <<"view reset", "operation datatype free">> \in Edges(o)
  BY DEF Edges, Leads, AnyPlace, DetailPlace, NamePlace, ClosePlace, AcquirePlace, ScanPlace,
         CommitPlace, WritingOp, ReadingOp, NewOp, AppendOp, InSession, PathOp, OpenOp, SessionOp,
         Collection
<1> QED BY <1>1, <1>2, Walk2, Zenon DEF Stretch, Finish

(* What an error may lead to is in the script. *)
Exits(o) ==
  (IF o \in PathOp \union {"close"} THEN ClosePlace ELSE {})
    \union (IF o \in PathOp \ {"named_catalog"} THEN {"cleanup"} ELSE {})
    \union (IF o = "named_catalog" THEN {"catalog validation"} ELSE {})
    \union (IF o \in InSession THEN {"view reset", "operation datatype free"} ELSE {})

Covered(o) == \E S : Stretch(o, Script(o), "descriptor", "return", S) /\ Exits(o) \subseteq S

(* Scanning a file that has just been opened for a session. *)
LEMMA ViewScanWalk ==
  ASSUME NEW o \in {"open_read", "open_append"}
  PROVE  Stretch(o, <<"byte view">> \o Scan, "byte view", "decode", {"byte view", "size", "report", "decode"})
<1> DEFINE s1 == <<"byte view">>
           S1 == {"byte view"}
           S2 == {"size", "report", "decode"}
<1>1. Stretch(o, s1, "byte view", "byte view", S1)
  <2>1. "byte view" \in Allowed(o)
    BY DEF Allowed, Fits, AnyPlace, DetailPlace, NamePlace, ClosePlace, AcquirePlace, ScanPlace,
             CommitPlace, NamedOp, WritingOp, ReadingOp, NewOp, AppendOp, InSession, PathOp, OpenOp,
             SessionOp, Collection
  <2> QED BY <2>1, Walk1, Zenon DEF Stretch
<1>2. Stretch(o, Scan, "size", "decode", S2)
  BY ScanWalk DEF PathOp, OpenOp, SessionOp, InSession, WritingOp, ReadingOp, NewOp, AppendOp, Collection
<1>3. <<"byte view", "size">> \in Edges(o)
  BY DEF Edges, Leads, AnyPlace, DetailPlace, NamePlace, ClosePlace, AcquirePlace, ScanPlace,
         CommitPlace, NamedOp, WritingOp, ReadingOp, NewOp, AppendOp, InSession, PathOp, OpenOp,
         SessionOp, Collection
<1>4. {"byte view", "size", "report", "decode"} = S1 \union S2
  OBVIOUS
<1> HIDE DEF s1, S1, S2
<1>5. Stretch(o, s1 \o Scan, "byte view", "decode", S1 \union S2)
  BY <1>1, <1>2, <1>3, JoinStretches
<1> QED BY <1>4, <1>5 DEF s1

LEMMA WriteCovered ==
  ASSUME NEW o \in {"write", "write_collection"}
  PROVE  Covered(o)
<1> DEFINE s1 == Entry(o)
           s2 == Acquire
           s3 == <<"datatype", "container">>
           s4 == Commit
           s5 == Closing
           s6 == <<"cleanup", "return">>
           S2 == {"duplicate", "communicator handler", "open", "file handler"}
           S3 == {"datatype", "container"}
           S4 == {"head", "header flush", "payload view", "payload",
                  "payload flush", "marker view", "marker", "marker flush"}
           S5 == {"datatype free", "file close", "communicator free"}
           S6 == {"cleanup", "return"}
<1>0. o \in Collection \/ o \in PathOp \ (Collection \union {"named_catalog"})
  BY DEF Collection, PathOp
<1>1. PICK S1 : Stretch(o, s1, "descriptor", "preparation", S1)
  <2>1. CASE o \in Collection
    BY <2>1, CollectionWalk
  <2>2. CASE o \in PathOp \ (Collection \union {"named_catalog"})
    BY <2>2, EntryWalk
  <2> QED BY <1>0, <2>1, <2>2
<1>2. Stretch(o, s2, "duplicate", "file handler", S2)
  BY AcquireWalk DEF PathOp, OpenOp, SessionOp, InSession, WritingOp, ReadingOp, NewOp, AppendOp, Collection
<1>3. Stretch(o, s3, "datatype", "container", S3)
  <2>1. "datatype" \in Allowed(o) /\ "container" \in Allowed(o)
    BY DEF Allowed, Fits, AnyPlace, DetailPlace, NamePlace, ClosePlace, AcquirePlace, ScanPlace,
             CommitPlace, NamedOp, WritingOp, ReadingOp, NewOp, AppendOp, InSession, PathOp, OpenOp,
             SessionOp, Collection
  <2>2. <<"datatype", "container">> \in Edges(o)
    BY DEF Edges, Leads, AnyPlace, DetailPlace, NamePlace, ClosePlace, AcquirePlace, ScanPlace,
         CommitPlace, NamedOp, WritingOp, ReadingOp, NewOp, AppendOp, InSession, PathOp, OpenOp,
         SessionOp, Collection
  <2> QED BY <2>1, <2>2, Walk2, Zenon DEF Stretch
<1>4. Stretch(o, s4, "head", "marker flush", S4)
  BY CommitWalk DEF PathOp, OpenOp, SessionOp, InSession, WritingOp, ReadingOp, NewOp, AppendOp, Collection
<1>5. Stretch(o, s5, "datatype free", "communicator free", S5)
  BY ClosingWalk DEF PathOp, OpenOp, SessionOp, InSession, WritingOp, ReadingOp, NewOp, AppendOp, Collection
<1>6. Stretch(o, s6, "cleanup", "return", S6)
  <2>1. "cleanup" \in Allowed(o) /\ "return" \in Allowed(o)
    BY DEF Allowed, Fits, AnyPlace, DetailPlace, NamePlace, ClosePlace, AcquirePlace, ScanPlace,
             CommitPlace, NamedOp, WritingOp, ReadingOp, NewOp, AppendOp, InSession, PathOp, OpenOp,
             SessionOp, Collection
  <2>2. <<"cleanup", "return">> \in Edges(o)
    BY DEF Edges, Leads, AnyPlace, DetailPlace, NamePlace, ClosePlace, AcquirePlace, ScanPlace,
         CommitPlace, NamedOp, WritingOp, ReadingOp, NewOp, AppendOp, InSession, PathOp, OpenOp,
         SessionOp, Collection
  <2> QED BY <2>1, <2>2, Walk2, Zenon DEF Stretch
<1>7. /\ <<"preparation", "duplicate">> \in Edges(o)
      /\ <<"file handler", "datatype">> \in Edges(o)
      /\ <<"container", "head">> \in Edges(o)
      /\ <<"marker flush", "datatype free">> \in Edges(o)
      /\ <<"communicator free", "cleanup">> \in Edges(o)
  BY DEF Edges, Leads, AnyPlace, DetailPlace, NamePlace, ClosePlace, AcquirePlace, ScanPlace,
         CommitPlace, NamedOp, WritingOp, ReadingOp, NewOp, AppendOp, InSession, PathOp, OpenOp,
         SessionOp, Collection
<1>8. Script(o) = s1 \o s2 \o s3 \o s4 \o s5 \o s6
  BY DEF Script, WriteScript, OpenOp, Collection, PathOp
<1>9. Exits(o) \subseteq S1 \union S2 \union S3 \union S4 \union S5 \union S6
  BY DEF Exits, ClosePlace, PathOp, Collection, InSession
<1> HIDE DEF s1, s2, s3, s4, s5, s6, S2, S3, S4, S5, S6
<1>10. Stretch(o, s1 \o s2, "descriptor", "file handler", S1 \union S2)
  BY <1>1, <1>2, <1>7, JoinStretches
<1>11. Stretch(o, s1 \o s2 \o s3, "descriptor", "container", S1 \union S2 \union S3)
  BY <1>10, <1>3, <1>7, JoinStretches
<1>12. Stretch(o, s1 \o s2 \o s3 \o s4, "descriptor", "marker flush", S1 \union S2 \union S3 \union S4)
  BY <1>11, <1>4, <1>7, JoinStretches
<1>13. Stretch(o, s1 \o s2 \o s3 \o s4 \o s5, "descriptor", "communicator free", S1 \union S2 \union S3 \union S4 \union S5)
  BY <1>12, <1>5, <1>7, JoinStretches
<1>14. Stretch(o, s1 \o s2 \o s3 \o s4 \o s5 \o s6, "descriptor", "return", S1 \union S2 \union S3 \union S4 \union S5 \union S6)
  BY <1>13, <1>6, <1>7, JoinStretches
<1> QED BY <1>8, <1>9, <1>14 DEF Covered

LEMMA AppendCovered ==
  ASSUME NEW o \in {"append", "append_collection"}
  PROVE  Covered(o)
<1> DEFINE s1 == Entry(o)
           s2 == Acquire
           s3 == Scan
           s4 == <<"datatype">>
           s5 == Commit
           s6 == Closing
           s7 == <<"cleanup", "return">>
           S2 == {"duplicate", "communicator handler", "open", "file handler"}
           S3 == {"size", "report", "decode"}
           S4 == {"datatype"}
           S5 == {"head", "header flush", "payload view", "payload",
                  "payload flush", "marker view", "marker", "marker flush"}
           S6 == {"datatype free", "file close", "communicator free"}
           S7 == {"cleanup", "return"}
<1>0. o \in Collection \/ o \in PathOp \ (Collection \union {"named_catalog"})
  BY DEF Collection, PathOp
<1>1. PICK S1 : Stretch(o, s1, "descriptor", "preparation", S1)
  <2>1. CASE o \in Collection
    BY <2>1, CollectionWalk
  <2>2. CASE o \in PathOp \ (Collection \union {"named_catalog"})
    BY <2>2, EntryWalk
  <2> QED BY <1>0, <2>1, <2>2
<1>2. Stretch(o, s2, "duplicate", "file handler", S2)
  BY AcquireWalk DEF PathOp, OpenOp, SessionOp, InSession, WritingOp, ReadingOp, NewOp, AppendOp, Collection
<1>3. Stretch(o, s3, "size", "decode", S3)
  BY ScanWalk DEF PathOp, OpenOp, SessionOp, InSession, WritingOp, ReadingOp, NewOp, AppendOp, Collection
<1>4. Stretch(o, s4, "datatype", "datatype", S4)
  <2>1. "datatype" \in Allowed(o)
    BY DEF Allowed, Fits, AnyPlace, DetailPlace, NamePlace, ClosePlace, AcquirePlace, ScanPlace,
             CommitPlace, NamedOp, WritingOp, ReadingOp, NewOp, AppendOp, InSession, PathOp, OpenOp,
             SessionOp, Collection
  <2> QED BY <2>1, Walk1, Zenon DEF Stretch
<1>5. Stretch(o, s5, "head", "marker flush", S5)
  BY CommitWalk DEF PathOp, OpenOp, SessionOp, InSession, WritingOp, ReadingOp, NewOp, AppendOp, Collection
<1>6. Stretch(o, s6, "datatype free", "communicator free", S6)
  BY ClosingWalk DEF PathOp, OpenOp, SessionOp, InSession, WritingOp, ReadingOp, NewOp, AppendOp, Collection
<1>7. Stretch(o, s7, "cleanup", "return", S7)
  <2>1. "cleanup" \in Allowed(o) /\ "return" \in Allowed(o)
    BY DEF Allowed, Fits, AnyPlace, DetailPlace, NamePlace, ClosePlace, AcquirePlace, ScanPlace,
             CommitPlace, NamedOp, WritingOp, ReadingOp, NewOp, AppendOp, InSession, PathOp, OpenOp,
             SessionOp, Collection
  <2>2. <<"cleanup", "return">> \in Edges(o)
    BY DEF Edges, Leads, AnyPlace, DetailPlace, NamePlace, ClosePlace, AcquirePlace, ScanPlace,
         CommitPlace, NamedOp, WritingOp, ReadingOp, NewOp, AppendOp, InSession, PathOp, OpenOp,
         SessionOp, Collection
  <2> QED BY <2>1, <2>2, Walk2, Zenon DEF Stretch
<1>8. /\ <<"preparation", "duplicate">> \in Edges(o)
      /\ <<"file handler", "size">> \in Edges(o)
      /\ <<"decode", "datatype">> \in Edges(o)
      /\ <<"datatype", "head">> \in Edges(o)
      /\ <<"marker flush", "datatype free">> \in Edges(o)
      /\ <<"communicator free", "cleanup">> \in Edges(o)
  BY DEF Edges, Leads, AnyPlace, DetailPlace, NamePlace, ClosePlace, AcquirePlace, ScanPlace,
         CommitPlace, NamedOp, WritingOp, ReadingOp, NewOp, AppendOp, InSession, PathOp, OpenOp,
         SessionOp, Collection
<1>9. Script(o) = s1 \o s2 \o s3 \o s4 \o s5 \o s6 \o s7
  BY DEF Script, AppendScript, OpenOp, Collection, PathOp
<1>10. Exits(o) \subseteq S1 \union S2 \union S3 \union S4 \union S5 \union S6 \union S7
  BY DEF Exits, ClosePlace, PathOp, Collection, InSession
<1> HIDE DEF s1, s2, s3, s4, s5, s6, s7, S2, S3, S4, S5, S6, S7
<1>11. Stretch(o, s1 \o s2, "descriptor", "file handler", S1 \union S2)
  BY <1>1, <1>2, <1>8, JoinStretches
<1>12. Stretch(o, s1 \o s2 \o s3, "descriptor", "decode", S1 \union S2 \union S3)
  BY <1>11, <1>3, <1>8, JoinStretches
<1>13. Stretch(o, s1 \o s2 \o s3 \o s4, "descriptor", "datatype", S1 \union S2 \union S3 \union S4)
  BY <1>12, <1>4, <1>8, JoinStretches
<1>14. Stretch(o, s1 \o s2 \o s3 \o s4 \o s5, "descriptor", "marker flush", S1 \union S2 \union S3 \union S4 \union S5)
  BY <1>13, <1>5, <1>8, JoinStretches
<1>15. Stretch(o, s1 \o s2 \o s3 \o s4 \o s5 \o s6, "descriptor", "communicator free", S1 \union S2 \union S3 \union S4 \union S5 \union S6)
  BY <1>14, <1>6, <1>8, JoinStretches
<1>16. Stretch(o, s1 \o s2 \o s3 \o s4 \o s5 \o s6 \o s7, "descriptor", "return", S1 \union S2 \union S3 \union S4 \union S5 \union S6 \union S7)
  BY <1>15, <1>7, <1>8, JoinStretches
<1> QED BY <1>9, <1>10, <1>16 DEF Covered

LEMMA ReadCovered ==
  ASSUME NEW o \in {"read", "read_collection"}
  PROVE  Covered(o)
<1> DEFINE s1 == Entry(o)
           s2 == Acquire
           s3 == Scan
           s4 == Fetch
           s5 == Closing
           s6 == <<"cleanup", "return">>
           S2 == {"duplicate", "communicator handler", "open", "file handler"}
           S3 == {"size", "report", "decode"}
           S4 == {"datatype", "payload view", "payload read", "staging"}
           S5 == {"datatype free", "file close", "communicator free"}
           S6 == {"cleanup", "return"}
<1>0. o \in Collection \/ o \in PathOp \ (Collection \union {"named_catalog"})
  BY DEF Collection, PathOp
<1>1. PICK S1 : Stretch(o, s1, "descriptor", "preparation", S1)
  <2>1. CASE o \in Collection
    BY <2>1, CollectionWalk
  <2>2. CASE o \in PathOp \ (Collection \union {"named_catalog"})
    BY <2>2, EntryWalk
  <2> QED BY <1>0, <2>1, <2>2
<1>2. Stretch(o, s2, "duplicate", "file handler", S2)
  BY AcquireWalk DEF PathOp, OpenOp, SessionOp, InSession, WritingOp, ReadingOp, NewOp, AppendOp, Collection
<1>3. Stretch(o, s3, "size", "decode", S3)
  BY ScanWalk DEF PathOp, OpenOp, SessionOp, InSession, WritingOp, ReadingOp, NewOp, AppendOp, Collection
<1>4. Stretch(o, s4, "datatype", "staging", S4)
  BY FetchWalk DEF PathOp, OpenOp, SessionOp, InSession, WritingOp, ReadingOp, NewOp, AppendOp, Collection
<1>5. Stretch(o, s5, "datatype free", "communicator free", S5)
  BY ClosingWalk DEF PathOp, OpenOp, SessionOp, InSession, WritingOp, ReadingOp, NewOp, AppendOp, Collection
<1>6. Stretch(o, s6, "cleanup", "return", S6)
  <2>1. "cleanup" \in Allowed(o) /\ "return" \in Allowed(o)
    BY DEF Allowed, Fits, AnyPlace, DetailPlace, NamePlace, ClosePlace, AcquirePlace, ScanPlace,
             CommitPlace, NamedOp, WritingOp, ReadingOp, NewOp, AppendOp, InSession, PathOp, OpenOp,
             SessionOp, Collection
  <2>2. <<"cleanup", "return">> \in Edges(o)
    BY DEF Edges, Leads, AnyPlace, DetailPlace, NamePlace, ClosePlace, AcquirePlace, ScanPlace,
         CommitPlace, NamedOp, WritingOp, ReadingOp, NewOp, AppendOp, InSession, PathOp, OpenOp,
         SessionOp, Collection
  <2> QED BY <2>1, <2>2, Walk2, Zenon DEF Stretch
<1>7. /\ <<"preparation", "duplicate">> \in Edges(o)
      /\ <<"file handler", "size">> \in Edges(o)
      /\ <<"decode", "datatype">> \in Edges(o)
      /\ <<"staging", "datatype free">> \in Edges(o)
      /\ <<"communicator free", "cleanup">> \in Edges(o)
  BY DEF Edges, Leads, AnyPlace, DetailPlace, NamePlace, ClosePlace, AcquirePlace, ScanPlace,
         CommitPlace, NamedOp, WritingOp, ReadingOp, NewOp, AppendOp, InSession, PathOp, OpenOp,
         SessionOp, Collection
<1>8. Script(o) = s1 \o s2 \o s3 \o s4 \o s5 \o s6
  BY DEF Script, ReadScript, OpenOp, Collection, PathOp
<1>9. Exits(o) \subseteq S1 \union S2 \union S3 \union S4 \union S5 \union S6
  BY DEF Exits, ClosePlace, PathOp, Collection, InSession
<1> HIDE DEF s1, s2, s3, s4, s5, s6, S2, S3, S4, S5, S6
<1>10. Stretch(o, s1 \o s2, "descriptor", "file handler", S1 \union S2)
  BY <1>1, <1>2, <1>7, JoinStretches
<1>11. Stretch(o, s1 \o s2 \o s3, "descriptor", "decode", S1 \union S2 \union S3)
  BY <1>10, <1>3, <1>7, JoinStretches
<1>12. Stretch(o, s1 \o s2 \o s3 \o s4, "descriptor", "staging", S1 \union S2 \union S3 \union S4)
  BY <1>11, <1>4, <1>7, JoinStretches
<1>13. Stretch(o, s1 \o s2 \o s3 \o s4 \o s5, "descriptor", "communicator free", S1 \union S2 \union S3 \union S4 \union S5)
  BY <1>12, <1>5, <1>7, JoinStretches
<1>14. Stretch(o, s1 \o s2 \o s3 \o s4 \o s5 \o s6, "descriptor", "return", S1 \union S2 \union S3 \union S4 \union S5 \union S6)
  BY <1>13, <1>6, <1>7, JoinStretches
<1> QED BY <1>8, <1>9, <1>14 DEF Covered

LEMMA NamedCatalogCovered ==
  ASSUME NEW o \in {"named_catalog"}
  PROVE  Covered(o)
<1> DEFINE s1 == <<"descriptor", "preparation", "path bytes">>
           s2 == Acquire
           s3 == Scan
           s4 == <<"catalog validation">>
           s5 == Closing
           s6 == <<"return">>
           S1 == {"descriptor", "preparation", "path bytes"}
           S2 == {"duplicate", "communicator handler", "open", "file handler"}
           S3 == {"size", "report", "decode"}
           S4 == {"catalog validation"}
           S5 == {"datatype free", "file close", "communicator free"}
           S6 == {"return"}
<1>1. Stretch(o, s1, "descriptor", "path bytes", S1)
  BY CatalogEntryWalk DEF PathOp, OpenOp, SessionOp, InSession, WritingOp, ReadingOp, NewOp, AppendOp, Collection
<1>2. Stretch(o, s2, "duplicate", "file handler", S2)
  BY AcquireWalk DEF PathOp, OpenOp, SessionOp, InSession, WritingOp, ReadingOp, NewOp, AppendOp, Collection
<1>3. Stretch(o, s3, "size", "decode", S3)
  BY ScanWalk DEF PathOp, OpenOp, SessionOp, InSession, WritingOp, ReadingOp, NewOp, AppendOp, Collection
<1>4. Stretch(o, s4, "catalog validation", "catalog validation", S4)
  <2>1. "catalog validation" \in Allowed(o)
    BY DEF Allowed, Fits, AnyPlace, DetailPlace, NamePlace, ClosePlace, AcquirePlace, ScanPlace,
             CommitPlace, NamedOp, WritingOp, ReadingOp, NewOp, AppendOp, InSession, PathOp, OpenOp,
             SessionOp, Collection
  <2> QED BY <2>1, Walk1, Zenon DEF Stretch
<1>5. Stretch(o, s5, "datatype free", "communicator free", S5)
  BY ClosingWalk DEF PathOp, OpenOp, SessionOp, InSession, WritingOp, ReadingOp, NewOp, AppendOp, Collection
<1>6. Stretch(o, s6, "return", "return", S6)
  <2>1. "return" \in Allowed(o)
    BY DEF Allowed, Fits, AnyPlace, DetailPlace, NamePlace, ClosePlace, AcquirePlace, ScanPlace,
             CommitPlace, NamedOp, WritingOp, ReadingOp, NewOp, AppendOp, InSession, PathOp, OpenOp,
             SessionOp, Collection
  <2> QED BY <2>1, Walk1, Zenon DEF Stretch
<1>7. /\ <<"path bytes", "duplicate">> \in Edges(o)
      /\ <<"file handler", "size">> \in Edges(o)
      /\ <<"decode", "catalog validation">> \in Edges(o)
      /\ <<"catalog validation", "datatype free">> \in Edges(o)
      /\ <<"communicator free", "return">> \in Edges(o)
  BY DEF Edges, Leads, AnyPlace, DetailPlace, NamePlace, ClosePlace, AcquirePlace, ScanPlace,
         CommitPlace, NamedOp, WritingOp, ReadingOp, NewOp, AppendOp, InSession, PathOp, OpenOp,
         SessionOp, Collection
<1>8. Script(o) = s1 \o s2 \o s3 \o s4 \o s5 \o s6
  BY DEF Script, NamedCatalogScript, OpenOp, Collection, PathOp
<1>9. Exits(o) \subseteq S1 \union S2 \union S3 \union S4 \union S5 \union S6
  BY DEF Exits, ClosePlace, PathOp, Collection, InSession
<1> HIDE DEF s1, s2, s3, s4, s5, s6, S1, S2, S3, S4, S5, S6
<1>10. Stretch(o, s1 \o s2, "descriptor", "file handler", S1 \union S2)
  BY <1>1, <1>2, <1>7, JoinStretches
<1>11. Stretch(o, s1 \o s2 \o s3, "descriptor", "decode", S1 \union S2 \union S3)
  BY <1>10, <1>3, <1>7, JoinStretches
<1>12. Stretch(o, s1 \o s2 \o s3 \o s4, "descriptor", "catalog validation", S1 \union S2 \union S3 \union S4)
  BY <1>11, <1>4, <1>7, JoinStretches
<1>13. Stretch(o, s1 \o s2 \o s3 \o s4 \o s5, "descriptor", "communicator free", S1 \union S2 \union S3 \union S4 \union S5)
  BY <1>12, <1>5, <1>7, JoinStretches
<1>14. Stretch(o, s1 \o s2 \o s3 \o s4 \o s5 \o s6, "descriptor", "return", S1 \union S2 \union S3 \union S4 \union S5 \union S6)
  BY <1>13, <1>6, <1>7, JoinStretches
<1> QED BY <1>8, <1>9, <1>14 DEF Covered

LEMMA CreateCovered ==
  ASSUME NEW o \in {"create"}
  PROVE  Covered(o)
<1> DEFINE s1 == <<"descriptor", "options", "preparation", "path bytes", "identifier", "info">>
           s2 == Acquire
           s3 == <<"container", "header flush">>
           s4 == <<"return">>
           S1 == {"descriptor", "options", "preparation", "path bytes", "identifier", "info"}
           S2 == {"duplicate", "communicator handler", "open", "file handler"}
           S3 == {"container", "header flush"}
           S4 == {"return"}
<1>1. Stretch(o, s1, "descriptor", "info", S1)
  BY OpenEntryWalk DEF PathOp, OpenOp, SessionOp, InSession, WritingOp, ReadingOp, NewOp, AppendOp, Collection
<1>2. Stretch(o, s2, "duplicate", "file handler", S2)
  BY AcquireWalk DEF PathOp, OpenOp, SessionOp, InSession, WritingOp, ReadingOp, NewOp, AppendOp, Collection
<1>3. Stretch(o, s3, "container", "header flush", S3)
  <2>1. "container" \in Allowed(o) /\ "header flush" \in Allowed(o)
    BY DEF Allowed, Fits, AnyPlace, DetailPlace, NamePlace, ClosePlace, AcquirePlace, ScanPlace,
             CommitPlace, NamedOp, WritingOp, ReadingOp, NewOp, AppendOp, InSession, PathOp, OpenOp,
             SessionOp, Collection
  <2>2. <<"container", "header flush">> \in Edges(o)
    BY DEF Edges, Leads, AnyPlace, DetailPlace, NamePlace, ClosePlace, AcquirePlace, ScanPlace,
         CommitPlace, NamedOp, WritingOp, ReadingOp, NewOp, AppendOp, InSession, PathOp, OpenOp,
         SessionOp, Collection
  <2> QED BY <2>1, <2>2, Walk2, Zenon DEF Stretch
<1>4. Stretch(o, s4, "return", "return", S4)
  <2>1. "return" \in Allowed(o)
    BY DEF Allowed, Fits, AnyPlace, DetailPlace, NamePlace, ClosePlace, AcquirePlace, ScanPlace,
             CommitPlace, NamedOp, WritingOp, ReadingOp, NewOp, AppendOp, InSession, PathOp, OpenOp,
             SessionOp, Collection
  <2> QED BY <2>1, Walk1, Zenon DEF Stretch
<1>5. /\ <<"info", "duplicate">> \in Edges(o)
      /\ <<"file handler", "container">> \in Edges(o)
      /\ <<"header flush", "return">> \in Edges(o)
  BY DEF Edges, Leads, AnyPlace, DetailPlace, NamePlace, ClosePlace, AcquirePlace, ScanPlace,
         CommitPlace, NamedOp, WritingOp, ReadingOp, NewOp, AppendOp, InSession, PathOp, OpenOp,
         SessionOp, Collection
<1>6. Script(o) = s1 \o s2 \o s3 \o s4
  BY DEF Script, OpenScript, OpenOp, Collection, PathOp
<1>7. Exits(o) \subseteq S1 \union S2 \union S3 \union S4
  BY DEF Exits, ClosePlace, PathOp, Collection, InSession
<1> HIDE DEF s1, s2, s3, s4, S1, S2, S3, S4
<1>8. Stretch(o, s1 \o s2, "descriptor", "file handler", S1 \union S2)
  BY <1>1, <1>2, <1>5, JoinStretches
<1>9. Stretch(o, s1 \o s2 \o s3, "descriptor", "header flush", S1 \union S2 \union S3)
  BY <1>8, <1>3, <1>5, JoinStretches
<1>10. Stretch(o, s1 \o s2 \o s3 \o s4, "descriptor", "return", S1 \union S2 \union S3 \union S4)
  BY <1>9, <1>4, <1>5, JoinStretches
<1> QED BY <1>6, <1>7, <1>10 DEF Covered

LEMMA OpenCovered ==
  ASSUME NEW o \in {"open_read", "open_append"}
  PROVE  Covered(o)
<1> DEFINE s1 == <<"descriptor", "options", "preparation", "path bytes", "identifier", "info">>
           s2 == Acquire
           s3 == <<"byte view">> \o Scan
           s4 == <<"return">>
           S1 == {"descriptor", "options", "preparation", "path bytes", "identifier", "info"}
           S2 == {"duplicate", "communicator handler", "open", "file handler"}
           S3 == {"byte view", "size", "report", "decode"}
           S4 == {"return"}
<1>1. Stretch(o, s1, "descriptor", "info", S1)
  BY OpenEntryWalk DEF PathOp, OpenOp, SessionOp, InSession, WritingOp, ReadingOp, NewOp, AppendOp, Collection
<1>2. Stretch(o, s2, "duplicate", "file handler", S2)
  BY AcquireWalk DEF PathOp, OpenOp, SessionOp, InSession, WritingOp, ReadingOp, NewOp, AppendOp, Collection
<1>3. Stretch(o, s3, "byte view", "decode", S3)
  BY ViewScanWalk DEF PathOp, OpenOp, SessionOp, InSession, WritingOp, ReadingOp, NewOp, AppendOp, Collection
<1>4. Stretch(o, s4, "return", "return", S4)
  <2>1. "return" \in Allowed(o)
    BY DEF Allowed, Fits, AnyPlace, DetailPlace, NamePlace, ClosePlace, AcquirePlace, ScanPlace,
             CommitPlace, NamedOp, WritingOp, ReadingOp, NewOp, AppendOp, InSession, PathOp, OpenOp,
             SessionOp, Collection
  <2> QED BY <2>1, Walk1, Zenon DEF Stretch
<1>5. /\ <<"info", "duplicate">> \in Edges(o)
      /\ <<"file handler", "byte view">> \in Edges(o)
      /\ <<"decode", "return">> \in Edges(o)
  BY DEF Edges, Leads, AnyPlace, DetailPlace, NamePlace, ClosePlace, AcquirePlace, ScanPlace,
         CommitPlace, NamedOp, WritingOp, ReadingOp, NewOp, AppendOp, InSession, PathOp, OpenOp,
         SessionOp, Collection
<1>6. Script(o) = s1 \o s2 \o s3 \o s4
  BY DEF Script, OpenScript, OpenOp, Collection, PathOp
<1>7. Exits(o) \subseteq S1 \union S2 \union S3 \union S4
  BY DEF Exits, ClosePlace, PathOp, Collection, InSession
<1> HIDE DEF s1, s2, s3, s4, S1, S2, S3, S4
<1>8. Stretch(o, s1 \o s2, "descriptor", "file handler", S1 \union S2)
  BY <1>1, <1>2, <1>5, JoinStretches
<1>9. Stretch(o, s1 \o s2 \o s3, "descriptor", "decode", S1 \union S2 \union S3)
  BY <1>8, <1>3, <1>5, JoinStretches
<1>10. Stretch(o, s1 \o s2 \o s3 \o s4, "descriptor", "return", S1 \union S2 \union S3 \union S4)
  BY <1>9, <1>4, <1>5, JoinStretches
<1> QED BY <1>6, <1>7, <1>10 DEF Covered

LEMMA SessionWriteCovered ==
  ASSUME NEW o \in {"write_named"}
  PROVE  Covered(o)
<1> DEFINE s1 == <<"descriptor", "options", "name", "view descriptor", "preparation", "byte view">>
           s2 == Scan
           s3 == <<"record", "datatype">>
           s4 == Commit
           s5 == Finish
           s6 == <<"return">>
           S1 == {"descriptor", "options", "name", "view descriptor", "preparation", "byte view"}
           S2 == {"size", "report", "decode"}
           S3 == {"record", "datatype"}
           S4 == {"head", "header flush", "payload view", "payload",
                  "payload flush", "marker view", "marker", "marker flush"}
           S5 == {"view reset", "operation datatype free"}
           S6 == {"return"}
<1>1. Stretch(o, s1, "descriptor", "byte view", S1)
  BY SessionEntryWalk DEF PathOp, OpenOp, SessionOp, InSession, WritingOp, ReadingOp, NewOp, AppendOp, Collection
<1>2. Stretch(o, s2, "size", "decode", S2)
  BY ScanWalk DEF PathOp, OpenOp, SessionOp, InSession, WritingOp, ReadingOp, NewOp, AppendOp, Collection
<1>3. Stretch(o, s3, "record", "datatype", S3)
  <2>1. "record" \in Allowed(o) /\ "datatype" \in Allowed(o)
    BY DEF Allowed, Fits, AnyPlace, DetailPlace, NamePlace, ClosePlace, AcquirePlace, ScanPlace,
             CommitPlace, NamedOp, WritingOp, ReadingOp, NewOp, AppendOp, InSession, PathOp, OpenOp,
             SessionOp, Collection
  <2>2. <<"record", "datatype">> \in Edges(o)
    BY DEF Edges, Leads, AnyPlace, DetailPlace, NamePlace, ClosePlace, AcquirePlace, ScanPlace,
         CommitPlace, NamedOp, WritingOp, ReadingOp, NewOp, AppendOp, InSession, PathOp, OpenOp,
         SessionOp, Collection
  <2> QED BY <2>1, <2>2, Walk2, Zenon DEF Stretch
<1>4. Stretch(o, s4, "head", "marker flush", S4)
  BY CommitWalk DEF PathOp, OpenOp, SessionOp, InSession, WritingOp, ReadingOp, NewOp, AppendOp, Collection
<1>5. Stretch(o, s5, "view reset", "operation datatype free", S5)
  BY FinishWalk DEF PathOp, OpenOp, SessionOp, InSession, WritingOp, ReadingOp, NewOp, AppendOp, Collection
<1>6. Stretch(o, s6, "return", "return", S6)
  <2>1. "return" \in Allowed(o)
    BY DEF Allowed, Fits, AnyPlace, DetailPlace, NamePlace, ClosePlace, AcquirePlace, ScanPlace,
             CommitPlace, NamedOp, WritingOp, ReadingOp, NewOp, AppendOp, InSession, PathOp, OpenOp,
             SessionOp, Collection
  <2> QED BY <2>1, Walk1, Zenon DEF Stretch
<1>7. /\ <<"byte view", "size">> \in Edges(o)
      /\ <<"decode", "record">> \in Edges(o)
      /\ <<"datatype", "head">> \in Edges(o)
      /\ <<"marker flush", "view reset">> \in Edges(o)
      /\ <<"operation datatype free", "return">> \in Edges(o)
  BY DEF Edges, Leads, AnyPlace, DetailPlace, NamePlace, ClosePlace, AcquirePlace, ScanPlace,
         CommitPlace, NamedOp, WritingOp, ReadingOp, NewOp, AppendOp, InSession, PathOp, OpenOp,
         SessionOp, Collection
<1>8. Script(o) = s1 \o s2 \o s3 \o s4 \o s5 \o s6
  BY DEF Script, SessionWriteScript, OpenOp, Collection, PathOp
<1>9. Exits(o) \subseteq S1 \union S2 \union S3 \union S4 \union S5 \union S6
  BY DEF Exits, ClosePlace, PathOp, Collection, InSession
<1> HIDE DEF s1, s2, s3, s4, s5, s6, S1, S2, S3, S4, S5, S6
<1>10. Stretch(o, s1 \o s2, "descriptor", "decode", S1 \union S2)
  BY <1>1, <1>2, <1>7, JoinStretches
<1>11. Stretch(o, s1 \o s2 \o s3, "descriptor", "datatype", S1 \union S2 \union S3)
  BY <1>10, <1>3, <1>7, JoinStretches
<1>12. Stretch(o, s1 \o s2 \o s3 \o s4, "descriptor", "marker flush", S1 \union S2 \union S3 \union S4)
  BY <1>11, <1>4, <1>7, JoinStretches
<1>13. Stretch(o, s1 \o s2 \o s3 \o s4 \o s5, "descriptor", "operation datatype free", S1 \union S2 \union S3 \union S4 \union S5)
  BY <1>12, <1>5, <1>7, JoinStretches
<1>14. Stretch(o, s1 \o s2 \o s3 \o s4 \o s5 \o s6, "descriptor", "return", S1 \union S2 \union S3 \union S4 \union S5 \union S6)
  BY <1>13, <1>6, <1>7, JoinStretches
<1> QED BY <1>8, <1>9, <1>14 DEF Covered

LEMMA SessionReadCovered ==
  ASSUME NEW o \in {"read_named"}
  PROVE  Covered(o)
<1> DEFINE s1 == <<"descriptor", "options", "name", "view descriptor", "preparation", "byte view">>
           s2 == Scan
           s3 == <<"metadata">>
           s4 == Fetch
           s5 == Finish
           s6 == <<"commit", "return">>
           S1 == {"descriptor", "options", "name", "view descriptor", "preparation", "byte view"}
           S2 == {"size", "report", "decode"}
           S3 == {"metadata"}
           S4 == {"datatype", "payload view", "payload read", "staging"}
           S5 == {"view reset", "operation datatype free"}
           S6 == {"commit", "return"}
<1>1. Stretch(o, s1, "descriptor", "byte view", S1)
  BY SessionEntryWalk DEF PathOp, OpenOp, SessionOp, InSession, WritingOp, ReadingOp, NewOp, AppendOp, Collection
<1>2. Stretch(o, s2, "size", "decode", S2)
  BY ScanWalk DEF PathOp, OpenOp, SessionOp, InSession, WritingOp, ReadingOp, NewOp, AppendOp, Collection
<1>3. Stretch(o, s3, "metadata", "metadata", S3)
  <2>1. "metadata" \in Allowed(o)
    BY DEF Allowed, Fits, AnyPlace, DetailPlace, NamePlace, ClosePlace, AcquirePlace, ScanPlace,
             CommitPlace, NamedOp, WritingOp, ReadingOp, NewOp, AppendOp, InSession, PathOp, OpenOp,
             SessionOp, Collection
  <2> QED BY <2>1, Walk1, Zenon DEF Stretch
<1>4. Stretch(o, s4, "datatype", "staging", S4)
  BY FetchWalk DEF PathOp, OpenOp, SessionOp, InSession, WritingOp, ReadingOp, NewOp, AppendOp, Collection
<1>5. Stretch(o, s5, "view reset", "operation datatype free", S5)
  BY FinishWalk DEF PathOp, OpenOp, SessionOp, InSession, WritingOp, ReadingOp, NewOp, AppendOp, Collection
<1>6. Stretch(o, s6, "commit", "return", S6)
  <2>1. "commit" \in Allowed(o) /\ "return" \in Allowed(o)
    BY DEF Allowed, Fits, AnyPlace, DetailPlace, NamePlace, ClosePlace, AcquirePlace, ScanPlace,
             CommitPlace, NamedOp, WritingOp, ReadingOp, NewOp, AppendOp, InSession, PathOp, OpenOp,
             SessionOp, Collection
  <2>2. <<"commit", "return">> \in Edges(o)
    BY DEF Edges, Leads, AnyPlace, DetailPlace, NamePlace, ClosePlace, AcquirePlace, ScanPlace,
         CommitPlace, NamedOp, WritingOp, ReadingOp, NewOp, AppendOp, InSession, PathOp, OpenOp,
         SessionOp, Collection
  <2> QED BY <2>1, <2>2, Walk2, Zenon DEF Stretch
<1>7. /\ <<"byte view", "size">> \in Edges(o)
      /\ <<"decode", "metadata">> \in Edges(o)
      /\ <<"metadata", "datatype">> \in Edges(o)
      /\ <<"staging", "view reset">> \in Edges(o)
      /\ <<"operation datatype free", "commit">> \in Edges(o)
  BY DEF Edges, Leads, AnyPlace, DetailPlace, NamePlace, ClosePlace, AcquirePlace, ScanPlace,
         CommitPlace, NamedOp, WritingOp, ReadingOp, NewOp, AppendOp, InSession, PathOp, OpenOp,
         SessionOp, Collection
<1>8. Script(o) = s1 \o s2 \o s3 \o s4 \o s5 \o s6
  BY DEF Script, SessionReadScript, OpenOp, Collection, PathOp
<1>9. Exits(o) \subseteq S1 \union S2 \union S3 \union S4 \union S5 \union S6
  BY DEF Exits, ClosePlace, PathOp, Collection, InSession
<1> HIDE DEF s1, s2, s3, s4, s5, s6, S1, S2, S3, S4, S5, S6
<1>10. Stretch(o, s1 \o s2, "descriptor", "decode", S1 \union S2)
  BY <1>1, <1>2, <1>7, JoinStretches
<1>11. Stretch(o, s1 \o s2 \o s3, "descriptor", "metadata", S1 \union S2 \union S3)
  BY <1>10, <1>3, <1>7, JoinStretches
<1>12. Stretch(o, s1 \o s2 \o s3 \o s4, "descriptor", "staging", S1 \union S2 \union S3 \union S4)
  BY <1>11, <1>4, <1>7, JoinStretches
<1>13. Stretch(o, s1 \o s2 \o s3 \o s4 \o s5, "descriptor", "operation datatype free", S1 \union S2 \union S3 \union S4 \union S5)
  BY <1>12, <1>5, <1>7, JoinStretches
<1>14. Stretch(o, s1 \o s2 \o s3 \o s4 \o s5 \o s6, "descriptor", "return", S1 \union S2 \union S3 \union S4 \union S5 \union S6)
  BY <1>13, <1>6, <1>7, JoinStretches
<1> QED BY <1>8, <1>9, <1>14 DEF Covered

LEMMA CatalogCovered ==
  ASSUME NEW o \in {"catalog"}
  PROVE  Covered(o)
<1> DEFINE s1 == <<"descriptor", "options", "byte view">>
           s2 == Scan
           s3 == <<"allocation", "return">>
           S1 == {"descriptor", "options", "byte view"}
           S2 == {"size", "report", "decode"}
           S3 == {"allocation", "return"}
<1>1. Stretch(o, s1, "descriptor", "byte view", S1)
  <2>1. /\ "descriptor" \in Allowed(o) /\ "options" \in Allowed(o)
        /\ "byte view" \in Allowed(o)
    BY DEF Allowed, Fits, AnyPlace, DetailPlace, NamePlace, ClosePlace, AcquirePlace, ScanPlace,
             CommitPlace, NamedOp, WritingOp, ReadingOp, NewOp, AppendOp, InSession, PathOp, OpenOp,
             SessionOp, Collection
  <2>2. /\ <<"descriptor", "options">> \in Edges(o)
        /\ <<"options", "byte view">> \in Edges(o)
    BY DEF Edges, Leads, AnyPlace, DetailPlace, NamePlace, ClosePlace, AcquirePlace, ScanPlace,
         CommitPlace, NamedOp, WritingOp, ReadingOp, NewOp, AppendOp, InSession, PathOp, OpenOp,
         SessionOp, Collection
  <2> QED BY <2>1, <2>2, Walk3, Zenon DEF Stretch
<1>2. Stretch(o, s2, "size", "decode", S2)
  BY ScanWalk DEF PathOp, OpenOp, SessionOp, InSession, WritingOp, ReadingOp, NewOp, AppendOp, Collection
<1>3. Stretch(o, s3, "allocation", "return", S3)
  <2>1. "allocation" \in Allowed(o) /\ "return" \in Allowed(o)
    BY DEF Allowed, Fits, AnyPlace, DetailPlace, NamePlace, ClosePlace, AcquirePlace, ScanPlace,
             CommitPlace, NamedOp, WritingOp, ReadingOp, NewOp, AppendOp, InSession, PathOp, OpenOp,
             SessionOp, Collection
  <2>2. <<"allocation", "return">> \in Edges(o)
    BY DEF Edges, Leads, AnyPlace, DetailPlace, NamePlace, ClosePlace, AcquirePlace, ScanPlace,
         CommitPlace, NamedOp, WritingOp, ReadingOp, NewOp, AppendOp, InSession, PathOp, OpenOp,
         SessionOp, Collection
  <2> QED BY <2>1, <2>2, Walk2, Zenon DEF Stretch
<1>4. /\ <<"byte view", "size">> \in Edges(o)
      /\ <<"decode", "allocation">> \in Edges(o)
  BY DEF Edges, Leads, AnyPlace, DetailPlace, NamePlace, ClosePlace, AcquirePlace, ScanPlace,
         CommitPlace, NamedOp, WritingOp, ReadingOp, NewOp, AppendOp, InSession, PathOp, OpenOp,
         SessionOp, Collection
<1>5. Script(o) = s1 \o s2 \o s3
  BY DEF Script, CatalogScript, OpenOp, Collection, PathOp
<1>6. Exits(o) \subseteq S1 \union S2 \union S3
  BY DEF Exits, ClosePlace, PathOp, Collection, InSession
<1> HIDE DEF s1, s2, s3, S1, S2, S3
<1>7. Stretch(o, s1 \o s2, "descriptor", "decode", S1 \union S2)
  BY <1>1, <1>2, <1>4, JoinStretches
<1>8. Stretch(o, s1 \o s2 \o s3, "descriptor", "return", S1 \union S2 \union S3)
  BY <1>7, <1>3, <1>4, JoinStretches
<1> QED BY <1>5, <1>6, <1>8 DEF Covered

LEMMA FlushCovered ==
  ASSUME NEW o \in {"flush"}
  PROVE  Covered(o)
<1> DEFINE s1 == <<"descriptor", "options", "flush", "return">>
           S1 == {"descriptor", "options", "flush", "return"}
<1>1. Stretch(o, s1, "descriptor", "return", S1)
  <2>1. /\ "descriptor" \in Allowed(o) /\ "options" \in Allowed(o)
        /\ "flush" \in Allowed(o) /\ "return" \in Allowed(o)
    BY DEF Allowed, Fits, AnyPlace, DetailPlace, NamePlace, ClosePlace, AcquirePlace, ScanPlace,
             CommitPlace, NamedOp, WritingOp, ReadingOp, NewOp, AppendOp, InSession, PathOp, OpenOp,
             SessionOp, Collection
  <2>2. /\ <<"descriptor", "options">> \in Edges(o)
        /\ <<"options", "flush">> \in Edges(o)
        /\ <<"flush", "return">> \in Edges(o)
    BY DEF Edges, Leads, AnyPlace, DetailPlace, NamePlace, ClosePlace, AcquirePlace, ScanPlace,
         CommitPlace, NamedOp, WritingOp, ReadingOp, NewOp, AppendOp, InSession, PathOp, OpenOp,
         SessionOp, Collection
  <2> QED BY <2>1, <2>2, Walk4, Zenon DEF Stretch
<1>3. Script(o) = s1
  BY DEF Script, FlushScript, OpenOp, Collection, PathOp
<1>4. Exits(o) \subseteq S1
  BY DEF Exits, ClosePlace, PathOp, Collection, InSession
<1> HIDE DEF s1, S1
<1> QED BY <1>3, <1>4, <1>1 DEF Covered

LEMMA CloseCovered ==
  ASSUME NEW o \in {"close"}
  PROVE  Covered(o)
<1> DEFINE s1 == <<"descriptor", "options">>
           s2 == Closing
           s3 == <<"return">>
           S1 == {"descriptor", "options"}
           S2 == {"datatype free", "file close", "communicator free"}
           S3 == {"return"}
<1>1. Stretch(o, s1, "descriptor", "options", S1)
  <2>1. "descriptor" \in Allowed(o) /\ "options" \in Allowed(o)
    BY DEF Allowed, Fits, AnyPlace, DetailPlace, NamePlace, ClosePlace, AcquirePlace, ScanPlace,
             CommitPlace, NamedOp, WritingOp, ReadingOp, NewOp, AppendOp, InSession, PathOp, OpenOp,
             SessionOp, Collection
  <2>2. <<"descriptor", "options">> \in Edges(o)
    BY DEF Edges, Leads, AnyPlace, DetailPlace, NamePlace, ClosePlace, AcquirePlace, ScanPlace,
         CommitPlace, NamedOp, WritingOp, ReadingOp, NewOp, AppendOp, InSession, PathOp, OpenOp,
         SessionOp, Collection
  <2> QED BY <2>1, <2>2, Walk2, Zenon DEF Stretch
<1>2. Stretch(o, s2, "datatype free", "communicator free", S2)
  BY ClosingWalk DEF PathOp, OpenOp, SessionOp, InSession, WritingOp, ReadingOp, NewOp, AppendOp, Collection
<1>3. Stretch(o, s3, "return", "return", S3)
  <2>1. "return" \in Allowed(o)
    BY DEF Allowed, Fits, AnyPlace, DetailPlace, NamePlace, ClosePlace, AcquirePlace, ScanPlace,
             CommitPlace, NamedOp, WritingOp, ReadingOp, NewOp, AppendOp, InSession, PathOp, OpenOp,
             SessionOp, Collection
  <2> QED BY <2>1, Walk1, Zenon DEF Stretch
<1>4. /\ <<"options", "datatype free">> \in Edges(o)
      /\ <<"communicator free", "return">> \in Edges(o)
  BY DEF Edges, Leads, AnyPlace, DetailPlace, NamePlace, ClosePlace, AcquirePlace, ScanPlace,
         CommitPlace, NamedOp, WritingOp, ReadingOp, NewOp, AppendOp, InSession, PathOp, OpenOp,
         SessionOp, Collection
<1>5. Script(o) = s1 \o s2 \o s3
  BY DEF Script, CloseScript, OpenOp, Collection, PathOp
<1>6. Exits(o) \subseteq S1 \union S2 \union S3
  BY DEF Exits, ClosePlace, PathOp, Collection, InSession
<1> HIDE DEF s1, s2, s3, S1, S2, S3
<1>7. Stretch(o, s1 \o s2, "descriptor", "communicator free", S1 \union S2)
  BY <1>1, <1>2, <1>4, JoinStretches
<1>8. Stretch(o, s1 \o s2 \o s3, "descriptor", "return", S1 \union S2 \union S3)
  BY <1>7, <1>3, <1>4, JoinStretches
<1> QED BY <1>5, <1>6, <1>8 DEF Covered

LEMMA ScriptCovered ==
  ASSUME NEW o \in Operation
  PROVE  Covered(o)
<1>1. o \in PathOp \union OpenOp \union SessionOp
  BY ContainerAssumption
<1>2. CASE o \in PathOp
  BY <1>2, WriteCovered, AppendCovered, ReadCovered, NamedCatalogCovered DEF PathOp, Collection
<1>3. CASE o \in OpenOp
  BY <1>3, CreateCovered, OpenCovered DEF OpenOp
<1>4. CASE o \in SessionOp
  BY <1>4, SessionWriteCovered, SessionReadCovered, CatalogCovered, FlushCovered, CloseCovered
     DEF SessionOp
<1> QED BY <1>1, <1>2, <1>3, <1>4

(* What the places of a call are, and which follows which. *)
LEMMA PlacesOf ==
  ASSUME NEW o \in Operation
  PROVE  /\ "descriptor" \in Places(o) /\ Exits(o) \subseteq Places(o)
         /\ \A p \in Places(o) : Fits(o, p) /\ p \in AnyPlace
         /\ \A p \in Places(o) \ {"return"} :
              Successor[o][p] \in Places(o) /\ Leads(o, p, Successor[o][p])
<1> DEFINE s == Script(o)
<1>1. PICK S : Walk(s, "descriptor", "return", Allowed(o), Edges(o), S) /\ Exits(o) \subseteq S
  BY ScriptCovered DEF Covered, Stretch
<1>2. Places(o) = {s[i] : i \in 1..Len(s)}
  BY DEF Places
<1>3. Successor[o] =
        [p \in {s[i] : i \in 1..(Len(s) - 1)} |-> s[(CHOOSE i \in DOMAIN s : s[i] = p) + 1]]
  BY DEF Successor
<1> HIDE DEF s
<1>4. /\ "descriptor" \in Places(o) /\ Exits(o) \subseteq Places(o) /\ Places(o) \subseteq Allowed(o)
      /\ \A p \in Places(o) \ {"return"} :
           LET next == s[(CHOOSE i \in DOMAIN s : s[i] = p) + 1]
           IN  /\ p \in {s[i] : i \in 1..(Len(s) - 1)}
               /\ next \in Places(o) /\ <<p, next>> \in Edges(o)
  BY <1>1, <1>2, WalkPlaces
<1>5. ASSUME NEW p \in Places(o) \ {"return"}
      PROVE  Successor[o][p] \in Places(o) /\ Leads(o, p, Successor[o][p])
  <2>1. Successor[o][p] \in Places(o) /\ <<p, Successor[o][p]>> \in Edges(o)
    BY <1>3, <1>4
  <2> HIDE DEF Places
  <2> QED BY <2>1 DEF Edges
<1> QED BY <1>4, <1>5 DEF Allowed

----------------------------------------------------------------------------
(* Decisions.                                                              *)

LEMMA RankParts ==
  ASSUME ControlInv, NEW r \in Rank
  PROVE  /\ LogInv /\ LogType /\ LogsMatch /\ PlaceInv(r) /\ IdInv(r)
         /\ place[r] \in (AnyPlace \ {"return"}) \union {"idle"}
         /\ call[r] \in [op : Operation \union {"none"}, name : Name \union {NoName}, handle : Nat]
         /\ outcome[r] \in Outcome /\ result[r] \in Outcome \union {"ok"}
         /\ held[r] \subseteq {"communicator", "file", "datatype"}
         /\ handles[r] \in Seq(Session) /\ Len(handles[r]) \in Nat
         /\ seen[r] \in [names : SUBSET Name, tail : Nat, size : Nat]
         /\ calls[r] \in Nat /\ nextId \in Nat
<1>1. handles[r] \in Seq(Session)
  BY DEF ControlInv, ControlType
<1>2. Len(handles[r]) \in Nat
  BY <1>1
<1> QED BY <1>1, <1>2 DEF ControlInv, ControlType, LogInv

(* Words are of a rank's place. *)
LEMMA WordsKnown ==
  ASSUME ControlInv, NEW r \in Rank, Busy(r), Complete(r), NEW q \in Rank
  PROVE  /\ WordOf(q, r).ok \in BOOLEAN
         /\ place[r] = "report" => WordOf(q, r).about \in Scanning
<1>1. LogInv /\ LogsMatch /\ WordsFit /\ Len(log[r]) >= 1 /\ log[r][1].place = place[r]
  BY DEF ControlInv, PlaceInv, Own
<1>2. Ahead(q, r) \in {0, 1}
  BY DEF Complete
<1>3. 1 + Ahead(q, r) \in 1..Len(log[q]) /\ log[q][1 + Ahead(q, r)].place = log[r][1].place
  BY <1>1, <1>2, MatchingEntries
<1> QED BY <1>1, <1>3 DEF WordsFit, WordOf

LEMMA ErrorType ==
  ASSUME ControlInv, NEW r \in Rank, Busy(r), Complete(r)
  PROVE  Error(r) \in Outcome /\ Decided(r) \in Outcome /\ Returning(r) \in Outcome \union {"ok"}
<1>1. place[r] = "report" => WordOf(Root, r).about \in Scanning
  BY WordsKnown, ContainerAssumption
<1>2. Rejected(r) \in Outcome /\ Barred(r) \in Outcome
  BY DEF Rejected, Barred, Outcome
<1>3. Refusal(r) \in Outcome
  BY DEF Refusal, Outcome
<1>4. Scanning \subseteq Outcome /\ {"ReadOnly", "none"} \subseteq Outcome
  BY DEF Scanning, Outcome
<1>5. Error(r) \in Outcome
  BY <1>1, <1>2, <1>3, <1>4 DEF Error
<1> QED BY <1>5, RankParts DEF Decided, Returning, Outcome

(* Where a write may have left something behind. *)
LEMMA CommitPlaces ==
  {Commit[i] : i \in DOMAIN Commit} = CommitPlace
<1>1. DOMAIN Commit = 1..8
  BY DEF Commit
<1>2. /\ Commit[1] = "head" /\ Commit[2] = "header flush" /\ Commit[3] = "payload view"
      /\ Commit[4] = "payload" /\ Commit[5] = "payload flush" /\ Commit[6] = "marker view"
      /\ Commit[7] = "marker" /\ Commit[8] = "marker flush"
  BY DEF Commit
<1>3. ASSUME NEW i \in 1..8 PROVE Commit[i] \in CommitPlace
  <2>1. i = 1 \/ i = 2 \/ i = 3 \/ i = 4 \/ i = 5 \/ i = 6 \/ i = 7 \/ i = 8
    BY <1>3
  <2> QED BY <1>2, <2>1 DEF CommitPlace
<1>4. ASSUME NEW x \in CommitPlace PROVE \E i \in 1..8 : Commit[i] = x
  <2>1. 1 \in 1..8 /\ 2 \in 1..8 /\ 3 \in 1..8 /\ 4 \in 1..8 /\ 5 \in 1..8 /\ 6 \in 1..8
        /\ 7 \in 1..8 /\ 8 \in 1..8
    OBVIOUS
  <2>2. \/ x = Commit[1] \/ x = Commit[2] \/ x = Commit[3] \/ x = Commit[4] \/ x = Commit[5]
        \/ x = Commit[6] \/ x = Commit[7] \/ x = Commit[8]
    BY <1>2, <1>4, Zenon DEF CommitPlace
  <2> QED BY <2>1, <2>2, Zenon
<1> QED BY <1>1, <1>3, <1>4

LEMMA UncertainPlaces ==
  ASSUME NEW r
  PROVE  /\ Op(r) = "write_named" => Uncertain(r) = CommitPlace \union {"view reset"}
         /\ Op(r) # "write_named" => Uncertain(r) = {"marker", "marker flush"}
<1>1. {Commit[i] : i \in DOMAIN Commit} = CommitPlace
  BY CommitPlaces
<1> QED BY <1>1 DEF Uncertain

LEMMA InOperationPlaces ==
  InOperation \subseteq {"datatype", "payload view", "payload read", "staging"} \union CommitPlace
<1>1. DOMAIN Fetch = 1..4
  BY DEF Fetch
<1>2. ASSUME NEW i \in 1..4 PROVE Fetch[i] \in {"datatype", "payload view", "payload read", "staging"}
  <2>1. /\ Fetch[1] = "datatype" /\ Fetch[2] = "payload view" /\ Fetch[3] = "payload read"
        /\ Fetch[4] = "staging"
    BY DEF Fetch
  <2>2. i = 1 \/ i = 2 \/ i = 3 \/ i = 4
    BY <1>2
  <2> QED BY <2>1, <2>2
<1> QED BY <1>1, <1>2, CommitPlaces DEF InOperation

(* Nobody can succeed with a descriptor on which the ranks do not agree. *)
LEMMA Disagreed ==
  ASSUME NEW r, place[r] \in {"descriptor", "options"} \union NamePlace, ~ AgreedWords(Words(r))
  PROVE  /\ Error(r) \notin {"none", "ok", "CommitUncertain"}
         /\ place[r] \in {"descriptor", "options"} => Error(r) = "CollectiveDescriptorMismatch"
<1>1. place[r] # "report" /\ place[r] # "members" /\ place[r] # "identifier" /\ place[r] \notin Uncertain(r)
  BY UncertainPlaces DEF NamePlace, CommitPlace
<1>2. Error(r) = Refusal(r)
  BY <1>1 DEF Error
<1> QED BY <1>1, <1>2 DEF Refusal

LEMMA AgreesAt ==
  ASSUME NEW r, place[r] \in {"descriptor", "options"} \union NamePlace, Error(r) = "none"
  PROVE  AgreedWords(Words(r))
BY Disagreed

(* Where a rank goes, with or without an error. *)
LEMMA Targets ==
  ASSUME ControlInv, NEW r \in Rank, Busy(r)
  PROVE  /\ Target(r) \in At(Op(r)) \union {"return"} /\ Target(r) # "descriptor"
         /\ Fits(Op(r), Target(r))
         /\ Decided(r) # "none" => Target(r) \in ExitPlace \union {"return"}
         /\ Decided(r) = "none" =>
              \/ Leads(Op(r), place[r], Target(r))
              \/ place[r] = "options" /\ Target(r) = "return"
         /\ place[r] \in {"descriptor", "options"} \union NamePlace /\ Error(r) # "none" =>
              Target(r) = "return"
<1> DEFINE o == Op(r)
           p == place[r]
<1>1. o \in Operation /\ p \in At(o) /\ (outcome[r] # "none" => p \in ExitPlace)
        /\ (p \in {"descriptor", "options"} \union NamePlace => held[r] = {})
  BY RankParts DEF PlaceInv, CallInv
<1>2. /\ "descriptor" \in Places(o) /\ Exits(o) \subseteq Places(o)
      /\ \A x \in Places(o) : Fits(o, x) /\ x \in AnyPlace
      /\ \A x \in Places(o) \ {"return"} : Successor[o][x] \in Places(o) /\ Leads(o, x, Successor[o][x])
  BY <1>1, PlacesOf
<1>3. o \in PathOp \union OpenOp \union SessionOp
  BY <1>1, ContainerAssumption
<1>4. \A x \in At(o) \union {"return"} : Fits(o, x)
  <2>1. ClosePlace \subseteq AnyPlace /\ "return" \in AnyPlace
    BY DEF AnyPlace
  <2>2. o \in OpenOp => \A x \in ClosePlace : Fits(o, x)
    BY <2>1 DEF Fits, ClosePlace, AcquirePlace, NamePlace, CommitPlace, ScanPlace
  <2>3. Fits(o, "return")
    BY <2>1 DEF Fits, ClosePlace, AcquirePlace, NamePlace, CommitPlace, ScanPlace
  <2> QED BY <1>2, <2>2, <2>3 DEF At
<1>5. ASSUME Error(r) # "none"
      PROVE  /\ Target(r) \in ExitPlace \union {"return"} /\ Target(r) \in At(o) \union {"return"}
             /\ p \in {"descriptor", "options"} \union NamePlace => Target(r) = "return"
  <2>1. Target(r) = Exit(r)
    BY <1>5 DEF Target
  <2>2. CASE o \in SessionOp
    <3>1. \/ Exit(r) = "return"
          \/ p \in InOperation \union {"view reset"} /\ Exit(r) \in {"view reset", "operation datatype free"}
      BY <2>2 DEF Exit
    <3>2. p \in InOperation \union {"view reset"} => o \in InSession /\ p \notin {"descriptor", "options"} \union NamePlace
      <4>1. InOperation \union {"view reset"} \subseteq
              {"datatype", "head", "header flush", "payload view", "payload", "payload flush",
               "marker view", "marker", "marker flush", "payload read", "staging", "view reset"}
        BY InOperationPlaces DEF CommitPlace
      <4>2. Fits(o, p) /\ o \notin PathOp \union OpenOp
        BY <1>1, <1>4, <2>2 DEF SessionOp, PathOp, OpenOp, Collection
      <4> QED BY <4>1, <4>2 DEF Fits, NamedOp, WritingOp, ReadingOp, NewOp, AppendOp, InSession,
                   NamePlace, CommitPlace, PathOp, OpenOp, Collection
    <3>3. o \in InSession => {"view reset", "operation datatype free"} \subseteq At(o)
      BY <1>2 DEF Exits, At
    <3> QED BY <2>1, <3>1, <3>2, <3>3 DEF ExitPlace
  <2>3. CASE o \notin SessionOp
    <3>1. \/ Exit(r) = "return"
          \/ Exit(r) = "catalog validation" /\ o = "named_catalog" /\ p \in ScanPlace
          \/ Exit(r) \in {"datatype free", "communicator free"} /\ held[r] # {}
      BY <2>3 DEF Exit, ScanPlace
    <3>2. o = "named_catalog" => "catalog validation" \in At(o)
      BY <1>2 DEF Exits, At
    <3>3. ClosePlace \subseteq At(o)
      BY <1>2, <1>3, <2>3 DEF Exits, At, ClosePlace
    <3>4. p \in {"descriptor", "options"} \union NamePlace => p \notin ScanPlace
      BY DEF NamePlace, ScanPlace
    <3> QED BY <1>1, <2>1, <3>1, <3>2, <3>3, <3>4 DEF ExitPlace, ClosePlace
  <2> QED BY <2>2, <2>3
<1>6. ASSUME Error(r) = "none"
      PROVE  /\ Target(r) \in At(o) \union {"return"}
             /\ outcome[r] # "none" => Target(r) \in ExitPlace \union {"return"}
             /\ Leads(o, p, Target(r)) \/ (p = "options" /\ Target(r) = "return")
                  \/ (outcome[r] # "none" /\ p = "operation datatype free" /\ Target(r) = "return")
  <2>1. CASE p \in ClosePlace
    <3>1. o \in PathOp \union OpenOp \union {"close"}
      BY <1>1, <1>4, <2>1 DEF Fits
    <3>2. ClosePlace \subseteq At(o)
      BY <1>2, <3>1 DEF Exits, At, ClosePlace
    <3>3. o \in PathOp \ {"named_catalog"} => "cleanup" \in At(o)
      BY <1>2 DEF Exits, At
    <3>4. \/ p = "datatype free" /\ Target(r) = "file close"
          \/ p = "file close" /\ Target(r) = "communicator free"
          \/ p = "communicator free" /\ Target(r) = "return"
          \/ p = "communicator free" /\ Target(r) = "cleanup" /\ o \in PathOp \ {"named_catalog"}
      BY <1>6, <2>1 DEF Target, ClosePlace
    <3> QED BY <3>2, <3>3, <3>4 DEF ExitPlace, ClosePlace, Leads
  <2>2. CASE p \notin ClosePlace
    <3>1. p \in Places(o) \ {"return"}
      BY <1>1, <2>2 DEF At
    <3>2. \/ Target(r) = Successor[o][p]
          \/ p = "operation datatype free" /\ outcome[r] # "none" /\ Target(r) = "return"
          \/ p = "options" /\ Target(r) = "return"
      BY <1>6, <2>2 DEF Target, ClosePlace
    <3>3. Successor[o][p] \in Places(o) /\ Leads(o, p, Successor[o][p])
      BY <1>2, <3>1
    <3>4. ASSUME p \in ExitPlace, Leads(o, p, Successor[o][p])
          PROVE  Successor[o][p] \in ExitPlace \union {"return", "commit"}
      <4>1. p \in {"catalog validation", "view reset", "operation datatype free", "cleanup"}
        BY <2>2, <3>4 DEF ExitPlace
      <4> QED BY <3>4, <4>1 DEF Leads, ExitPlace, ClosePlace, NamePlace, DetailPlace
    <3>5. ASSUME outcome[r] # "none" PROVE Target(r) \in ExitPlace \union {"return"}
      <4>1. CASE p = "operation datatype free"
        BY <1>6, <3>5, <4>1 DEF Target
      <4>2. CASE p # "operation datatype free"
        <5>1. p \in ExitPlace /\ p # "options"
          BY <1>1, <3>5 DEF ExitPlace, ClosePlace
        <5>2. Target(r) = Successor[o][p]
          BY <3>2, <4>2, <5>1
        <5>3. Leads(o, p, Target(r)) /\ p \in {"catalog validation", "view reset", "cleanup"}
          BY <2>2, <3>3, <4>2, <5>1, <5>2 DEF ExitPlace
        <5> QED BY <5>3 DEF Leads, ExitPlace, ClosePlace, NamePlace, DetailPlace
      <4> QED BY <4>1, <4>2
    <3> QED BY <3>2, <3>3, <3>5 DEF At
  <2> QED BY <2>1, <2>2
<1>7. Target(r) # "descriptor"
  <2>1. Leads(o, p, Target(r)) => Target(r) # "descriptor"
    BY DEF Leads, DetailPlace
  <2>2. "descriptor" \notin ExitPlace \union {"return"}
    BY DEF ExitPlace, ClosePlace
  <2> QED BY <1>5, <1>6, <2>1, <2>2
<1> QED BY <1>4, <1>5, <1>6, <1>7 DEF Decided

----------------------------------------------------------------------------
(* Ranks at the same reduction decide alike.                               *)

Early == {"descriptor", "options"} \union NamePlace

(* A call fits the place it is at. *)
LEMMA FitsPlace ==
  ASSUME ControlInv, NEW r \in Rank, Busy(r)
  PROVE  Fits(Op(r), place[r]) /\ Op(r) \in Operation /\ Op(r) \in PathOp \union OpenOp \union SessionOp
<1>1. Op(r) \in Operation /\ place[r] \in At(Op(r))
  BY RankParts DEF PlaceInv, CallInv
<1>2. Op(r) \in PathOp \union OpenOp \union SessionOp
  BY <1>1, ContainerAssumption
<1>3. \A x \in Places(Op(r)) : Fits(Op(r), x)
  BY <1>1, PlacesOf
<1>4. Op(r) \in OpenOp => \A x \in ClosePlace : Fits(Op(r), x)
  BY DEF Fits, AnyPlace, ClosePlace, AcquirePlace, NamePlace, CommitPlace, ScanPlace
<1> QED BY <1>1, <1>2, <1>3, <1>4 DEF At

(* What the sessions of r become, by operation. *)
LEMMA AfterCases ==
  ASSUME NEW r, NEW o
  PROVE  /\ Op(r) \in OpenOp /\ o = "ok" =>
              HandlesAfter(r, o) = Append(handles[r], [id |-> nextId, readonly |-> Op(r) = "open_read",
                                                        closed |-> FALSE, poisoned |-> FALSE])
         /\ Op(r) = "close" /\ o = "ok" =>
              HandlesAfter(r, o) = [handles[r] EXCEPT ![call[r].handle].closed = TRUE]
         /\ Op(r) = "write_named" /\ o = "CommitUncertain" =>
              HandlesAfter(r, o) = [handles[r] EXCEPT ![call[r].handle].poisoned = TRUE]
         /\ ~ (Op(r) \in OpenOp /\ o = "ok") /\ ~ (Op(r) = "close" /\ o = "ok")
              /\ ~ (Op(r) = "write_named" /\ o = "CommitUncertain") => HandlesAfter(r, o) = handles[r]
<1>1. "close" \notin OpenOp /\ "write_named" \notin OpenOp
  BY DEF OpenOp
<1> QED BY <1>1 DEF HandlesAfter

LEMMA AfterOther ==
  ASSUME NEW r, NEW o, o \notin {"ok", "CommitUncertain"}
  PROVE  HandlesAfter(r, o) = handles[r]
BY DEF HandlesAfter

LEMMA AfterAlike ==
  ASSUME NEW p, NEW q, NEW o, Op(p) = Op(q), handles[p] = handles[q],
         Op(p) \in {"close", "write_named"} => call[p].handle = call[q].handle
  PROVE  HandlesAfter(p, o) = HandlesAfter(q, o)
<1>1. CASE Op(p) \in OpenOp
  <2>1. Op(p) # "close" /\ Op(p) # "write_named"
    BY <1>1 DEF OpenOp
  <2> QED BY <1>1, <2>1 DEF HandlesAfter
<1>2. CASE Op(p) \notin OpenOp /\ Op(p) \in {"close", "write_named"}
  BY <1>2 DEF HandlesAfter
<1>3. CASE Op(p) \notin OpenOp \union {"close", "write_named"}
  BY <1>3 DEF HandlesAfter
<1> QED BY <1>1, <1>2, <1>3

(* What the words of an early place say of the calls. *)
LEMMA EarlyAgreed ==
  ASSUME ControlInv, NEW p \in Rank, NEW q \in Rank, Busy(p), Busy(q), Ahead(q, p) = 0,
         place[p] \in Early, AgreedWords(Words(p))
  PROVE  /\ Op(p) = Op(q)
         /\ place[p] # "descriptor" /\ Op(p) \in SessionOp => call[p].handle = call[q].handle
         /\ place[p] \in NamePlace => call[p].name = call[q].name
<1>1. /\ LogInv /\ LogType /\ PlaceInv(p) /\ PlaceInv(q) /\ IdInv(p)
      /\ handles[p] \in Seq(Session)
  BY RankParts
<1>2. Abreast(p, q)
  <2>1. Same(p, q)
    BY DEF ControlInv, InStep
  <2> QED BY <2>1 DEF Same
<1>3. place[p] = place[q] /\ handles[p] = handles[q]
  BY <1>2 DEF Abreast
<1>4. Own(p).word.about = Own(q).word.about
  <2>1. Own(p).word \in Words(p) /\ Own(q).word \in Words(p)
    BY <1>1, AheadType, OwnWord
  <2> QED BY <2>1 DEF AgreedWords
<1>5. Op(p) = Op(q)
  <2>1. CASE place[p] = "descriptor"
    BY <1>1, <1>3, <1>4, <2>1 DEF PlaceInv
  <2>2. CASE place[p] # "descriptor"
    BY <1>2, <2>2 DEF Abreast, Alike
  <2> QED BY <2>1, <2>2
<1>6. ASSUME place[p] # "descriptor", Op(p) \in SessionOp PROVE call[p].handle = call[q].handle
  <2>1. CASE place[p] = "options"
    <3>1. Flags(p) = Flags(q)
      BY <1>1, <1>3, <1>4, <2>1 DEF PlaceInv
    <3>2. Flags(p)[1] = Handle(p).id /\ Flags(q)[1] = Handle(q).id
      BY <1>5, <1>6 DEF Flags
    <3>3. call[p].handle \in 1..Len(handles[p]) /\ call[q].handle \in 1..Len(handles[p])
      BY <1>1, <1>3, <1>5, <1>6 DEF PlaceInv, CallInv
    <3>4. handles[p][call[p].handle].id = handles[p][call[q].handle].id
      BY <1>3, <3>1, <3>2 DEF Handle
    <3> QED BY <1>1, <3>3, <3>4 DEF IdInv
  <2>2. CASE place[p] # "options"
    BY <1>2, <1>6, <2>2 DEF Abreast, Alike
  <2> QED BY <2>1, <2>2
<1>7. place[p] \in NamePlace => call[p].name = call[q].name
  BY <1>1, <1>3, <1>4 DEF PlaceInv
<1> QED BY <1>5, <1>6, <1>7

(* Ranks abreast of each other hold the same unless they are to stop. *)
LEMMA HoldAlike ==
  ASSUME ControlInv, NEW p \in Rank, NEW q \in Rank, Busy(p), Busy(q), Ahead(q, p) = 0, ~ MustAbort(p)
  PROVE  Kept(p) = Kept(q)
<1>1. LogType /\ LogsMatch /\ LogInv /\ PlaceInv(p) /\ PlaceInv(q)
  BY RankParts
<1>2. Abreast(p, q)
  <2>1. Same(p, q)
    BY DEF ControlInv, InStep
  <2> QED BY <2>1 DEF Same
<1>3. Own(p).word \in Words(p) /\ Own(q).word \in Words(p)
  BY <1>1, AheadType, OwnWord
<1>4. Own(p).word.ok \in BOOLEAN /\ Own(q).word.ok \in BOOLEAN
  <2>1. Len(log[p]) >= 1 /\ Len(log[q]) >= 1 /\ Len(log[p]) \in Nat /\ Len(log[q]) \in Nat
    BY <1>1, TurnType DEF PlaceInv
  <2> QED BY <2>1 DEF ControlInv, WordsFit, Own
<1>5. ASSUME Kept(p) # Kept(q) PROVE FALSE
  <2>1. place[p] \in StatePlace /\ Own(p).word.ok # Own(q).word.ok
    BY <1>2, <1>5 DEF Abreast
  <2>2. Mixed(Words(p))
    BY <1>3, <1>4, <2>1 DEF Mixed
  <2> QED BY <2>1, <2>2 DEF MustAbort
<1> QED BY <1>5

LEMMA DecideAlike ==
  ASSUME ControlInv, NEW p \in Rank, NEW q \in Rank, Busy(p), Busy(q), Ahead(q, p) = 0, Complete(p)
  PROVE  /\ Complete(q) /\ place[q] = place[p] /\ handles[q] = handles[p]
         /\ MustAbort(q) <=> MustAbort(p)
         /\ Error(q) = Error(p) /\ Decided(q) = Decided(p) /\ Returning(q) = Returning(p)
<1>1. /\ LogInv /\ LogType /\ LogsMatch /\ PlaceInv(p) /\ PlaceInv(q)
  BY RankParts
<1>2. Abreast(p, q)
  <2>1. Same(p, q)
    BY DEF ControlInv, InStep
  <2> QED BY <2>1 DEF Same
<1>3. place[q] = place[p] /\ handles[q] = handles[p] /\ outcome[q] = outcome[p]
  BY <1>2 DEF Abreast
<1>4. Complete(q) /\ Words(q) = Words(p)
  BY <1>1, SameTurn
<1>5. WordOf(Root, q) = WordOf(Root, p)
  <2>1. Ahead(Root, p) = Ahead(Root, q)
    BY <1>1, SameTurn, ContainerAssumption
  <2> QED BY <2>1 DEF WordOf
<1>6. MustAbort(q) <=> MustAbort(p)
  BY <1>3, <1>4 DEF MustAbort
<1>7. Error(q) = Error(p)
  <2>1. CASE place[p] = "report" /\ \A w \in Words(p) : w.ok
    BY <1>3, <1>4, <1>5, <2>1 DEF Error
  <2>2. CASE ~ (place[p] = "report" /\ \A w \in Words(p) : w.ok) /\ ~ AgreedWords(Words(p))
    <3>1. Error(q) = Refusal(q) /\ Error(p) = Refusal(p)
      BY <1>3, <1>4, <2>2 DEF Error
    <3>2. CASE place[p] = "descriptor"
      BY <1>3, <3>1, <3>2 DEF Refusal
    <3>3. CASE place[p] # "descriptor"
      <4>1. Op(p) = Op(q)
        BY <1>2, <3>3 DEF Abreast, Alike
      <4>2. Uncertain(p) = Uncertain(q)
        BY <4>1 DEF Uncertain
      <4>3. Refusal(q) = Refusal(p)
        BY <1>3, <4>1, <4>2 DEF Refusal
      <4> QED BY <3>1, <4>3
    <3> QED BY <3>2, <3>3
  <2>3. CASE ~ (place[p] = "report" /\ \A w \in Words(p) : w.ok) /\ AgreedWords(Words(p))
    <3>1. CASE place[p] = "options"
      <4>1. Op(p) = Op(q) /\ (Op(p) \in SessionOp => call[p].handle = call[q].handle)
        BY <2>3, <3>1, EarlyAgreed DEF Early
      <4>2. Op(p) \in SessionOp => Barred(p) = Barred(q)
        BY <1>3, <4>1 DEF Barred, Handle
      <4> QED BY <1>3, <1>4, <2>3, <3>1, <4>1, <4>2 DEF Error
    <3>2. CASE place[p] = "view descriptor"
      <4>1. /\ Op(p) = Op(q)
            /\ Op(p) \in SessionOp => call[p].handle = call[q].handle
        BY <1>2, <3>2 DEF Abreast, Alike
      <4>2. Op(p) = "write_named" => Handle(p) = Handle(q)
        BY <1>3, <4>1 DEF Handle, SessionOp
      <4> QED BY <1>3, <1>4, <2>3, <3>2, <4>1, <4>2 DEF Error
    <3>3. CASE place[p] = "decode"
      <4>1. /\ Op(p) = Op(q)
            /\ Op(p) \in NamedOp => call[p].name = call[q].name
        BY <1>2, <3>3 DEF Abreast, Alike, NamePlace
      <4>2. seen[p] = seen[q]
        <5>1. outcome[p] = "none"
          BY <1>1, <3>3 DEF PlaceInv, ExitPlace, ClosePlace
        <5> QED BY <1>2, <3>3, <5>1 DEF Abreast
      <4>3. Op(p) \in AppendOp \union {"write_named"} \union ReadingOp => call[p].name = call[q].name
        BY <4>1 DEF NamedOp, WritingOp
      <4>4. Rejected(p) = Rejected(q)
        BY <4>1, <4>2, <4>3 DEF Rejected
      <4> QED BY <1>3, <1>4, <2>3, <3>3, <4>4 DEF Error
    <3>4. CASE place[p] \notin {"options", "view descriptor", "decode"}
      BY <1>3, <1>4, <2>3, <3>4 DEF Error
    <3> QED BY <3>1, <3>2, <3>3, <3>4
  <2> QED BY <2>1, <2>2, <2>3
<1> QED BY <1>3, <1>4, <1>6, <1>7 DEF Decided, Returning

LEMMA GoAlike ==
  ASSUME ControlInv, NEW p \in Rank, NEW q \in Rank, Busy(p), Busy(q), Ahead(q, p) = 0, Complete(p),
         ~ MustAbort(p)
  PROVE  /\ Target(q) = Target(p) /\ Kept(q) = Kept(p)
         /\ Target(p) # "return" => Alike(p, q, Target(p)) /\ Alike(q, p, Target(p)) /\ Op(q) = Op(p)
         /\ Target(p) = "operation datatype free" => PoisonView(q) = PoisonView(p)
         /\ Target(p) = "return" => HandlesAfter(q, Returning(q)) = HandlesAfter(p, Returning(p))
         /\ Decided(p) = "none" /\ place[p] # "report" => seen[p] = seen[q]
<1>1. /\ LogInv /\ LogType /\ LogsMatch /\ PlaceInv(p) /\ PlaceInv(q)
  BY RankParts
<1>2. Abreast(p, q)
  <2>1. Same(p, q)
    BY DEF ControlInv, InStep
  <2> QED BY <2>1 DEF Same
<1>3. place[q] = place[p] /\ handles[q] = handles[p] /\ outcome[q] = outcome[p]
  BY <1>2 DEF Abreast
<1>4. /\ Complete(q) /\ Error(q) = Error(p) /\ Decided(q) = Decided(p) /\ Returning(q) = Returning(p)
  BY DecideAlike
<1>5. Kept(q) = Kept(p)
  BY HoldAlike
<1>6. place[p] \in Early /\ Error(p) # "none" => Target(p) = "return" /\ Target(q) = "return"
  BY <1>3, <1>4, Targets DEF Early
<1>7. ASSUME place[p] \in Early, Error(p) = "none"
      PROVE  /\ Op(p) = Op(q)
             /\ place[p] # "descriptor" /\ Op(p) \in SessionOp => call[p].handle = call[q].handle
             /\ place[p] \in NamePlace => call[p].name = call[q].name
  <2>1. AgreedWords(Words(p))
    BY <1>7, AgreesAt DEF Early
  <2> QED BY <1>7, <2>1, EarlyAgreed
<1>8. ASSUME place[p] \notin Early
      PROVE  /\ Op(p) = Op(q)
             /\ Op(p) \in SessionOp => call[p].handle = call[q].handle
             /\ Op(p) \in NamedOp => call[p].name = call[q].name
  BY <1>2, <1>8 DEF Abreast, Alike, Early
<1>9. ~ (place[p] \in Early /\ Error(p) # "none") => Op(q) = Op(p)
  BY <1>7, <1>8
<1>10. place[p] # "descriptor" => Op(q) = Op(p)
  BY <1>2 DEF Abreast, Alike
<1>11. Target(q) = Target(p)
  <2>1. CASE place[p] \in Early /\ Error(p) # "none"
    BY <1>6, <2>1
  <2>2. CASE Error(p) # "none" /\ place[p] \notin Early
    <3>1. Op(q) = Op(p)
      BY <1>8, <2>2
    <3>2. /\ "file" \in held[p] <=> "file" \in held[q]
          /\ "communicator" \in held[p] <=> "communicator" \in held[q]
      BY <1>5 DEF Kept
    <3>3. Exit(q) = Exit(p)
      BY <1>3, <3>1, <3>2 DEF Exit
    <3> QED BY <1>4, <2>2, <3>3 DEF Target
  <2>3. CASE Error(p) = "none"
    <3>1. Op(q) = Op(p)
      BY <1>9, <2>3
    <3>2. place[p] = "communicator free" => log[q][2].place = log[p][2].place
      <4>1. place[p] = "communicator free" => Len(log[p]) >= 2
        BY <1>1 DEF PlaceInv
      <4>2. Len(log[p]) >= 2 => log[q][2 + Ahead(q, p)].place = log[p][2].place
        BY <1>1, MatchingEntries
      <4>3. Len(log[p]) >= 2 => log[q][2].place = log[p][2].place
        BY <4>2
      <4> QED BY <4>1, <4>3
    <3>3. place[p] = "options" /\ Op(p) = "close" => Handle(p) = Handle(q)
      BY <1>3, <1>7, <2>3 DEF Early, SessionOp, Handle
    <3> QED BY <1>3, <1>4, <2>3, <3>1, <3>2, <3>3 DEF Target
  <2> QED BY <2>1, <2>2, <2>3
<1>12. ASSUME Target(p) # "return" PROVE Alike(p, q, Target(p)) /\ Alike(q, p, Target(p)) /\ Op(q) = Op(p)
  <2> DEFINE n == Target(p)
  <2>1. ~ (place[p] \in Early /\ Error(p) # "none") /\ Op(q) = Op(p)
    BY <1>6, <1>9, <1>12
  <2>2. place[p] \in Early => outcome[p] = "none" /\ Error(p) = "none" /\ Leads(Op(p), place[p], n)
    <3>1. place[p] \in Early => outcome[p] = "none"
      BY <1>1 DEF PlaceInv, Early, NamePlace, ExitPlace, ClosePlace
    <3> QED BY <1>12, <2>1, <3>1, Targets DEF Decided
  <2>3. ASSUME n \notin {"descriptor", "options"}, Op(p) \in SessionOp
        PROVE  call[p].handle = call[q].handle
    <3>1. place[p] # "descriptor"
      <4>1. Op(p) \notin PathOp
        BY <2>3 DEF SessionOp, PathOp, Collection
      <4>2. Op(p) # "named_catalog" /\ Op(p) \notin Collection
        BY <4>1 DEF PathOp
      <4>3. Leads(Op(p), "descriptor", n) => n = "options"
        BY <4>1, <4>2 DEF Leads, NamePlace, DetailPlace
      <4> QED BY <2>2, <2>3, <4>3 DEF Early
    <3> QED BY <1>7, <1>8, <2>2, <2>3, <3>1
  <2>4. ASSUME n \notin {"descriptor", "options"} \union NamePlace, Op(p) \in NamedOp
        PROVE  call[p].name = call[q].name
    <3>1. Op(p) \in (PathOp \ {"named_catalog"}) \union InSession /\ Op(p) # "named_catalog"
      BY <2>4 DEF NamedOp, WritingOp, ReadingOp, NewOp, AppendOp, InSession, PathOp, Collection
    <3>2. place[p] # "descriptor"
      <4>1. Leads(Op(p), "descriptor", n) => n \in {"collection name", "name", "options"}
        BY <3>1 DEF Leads, NamePlace, DetailPlace
      <4> QED BY <2>2, <2>4, <4>1 DEF Early, NamePlace
    <3>3. place[p] # "options"
      <4>1. place[p] = "options" => Op(p) \in InSession
        <5>1. place[p] = "options" => Op(p) \in OpenOp \union SessionOp
          BY <1>1, <2>2, FitsPlace DEF Fits
        <5> QED BY <3>1, <5>1 DEF OpenOp, SessionOp, PathOp, Collection
      <4>2. Op(p) \in InSession /\ Leads(Op(p), "options", n) => n = "name"
        BY DEF Leads, NamePlace, DetailPlace
      <4> QED BY <2>2, <2>4, <4>1, <4>2 DEF Early, NamePlace
    <3> QED BY <1>7, <1>8, <2>2, <2>4, <3>2, <3>3 DEF Early
  <2> QED BY <2>1, <2>3, <2>4 DEF Alike
<1>13. ASSUME Target(p) = "operation datatype free" PROVE PoisonView(q) = PoisonView(p)
  <2>1. Op(q) = Op(p) /\ Op(p) \in InSession
    BY <1>12, <1>13, Targets DEF Fits
  <2>2. call[p].handle = call[q].handle
    BY <1>12, <1>13, <2>1 DEF Alike, InSession, SessionOp
  <2> QED BY <1>3, <1>4, <2>2 DEF PoisonView
<1>14. ASSUME Target(p) = "return" PROVE HandlesAfter(q, Returning(q)) = HandlesAfter(p, Returning(p))
  <2>1. CASE place[p] \in Early /\ Error(p) # "none"
    <3>1. outcome[p] = "none"
      BY <1>1, <2>1 DEF PlaceInv, Early, NamePlace, ExitPlace, ClosePlace
    <3>2. Returning(p) = Error(p)
      BY <2>1, <3>1 DEF Returning, Decided
    <3>3. CASE ~ AgreedWords(Words(p))
      <4>1. Returning(p) \notin {"ok", "CommitUncertain"}
        BY <2>1, <3>2, <3>3, Disagreed DEF Early
      <4> QED BY <1>3, <1>4, <4>1, AfterOther
    <3>4. CASE AgreedWords(Words(p))
      <4>1. Error(p) \notin {"ok", "CommitUncertain"}
        <5>1. Barred(p) \notin {"ok", "CommitUncertain"}
          BY DEF Barred
        <5> QED BY <2>1, <3>4, <5>1 DEF Error, Early, NamePlace
      <4> QED BY <1>3, <1>4, <3>2, <4>1, AfterOther
    <3> QED BY <3>3, <3>4
  <2>2. CASE ~ (place[p] \in Early /\ Error(p) # "none")
    <3>1. Op(q) = Op(p)
      BY <1>9, <2>2
    <3>2. place[p] # "descriptor"
      <4>1. place[p] = "descriptor" => outcome[p] = "none"
        BY <1>1 DEF PlaceInv, ExitPlace, ClosePlace
      <4>2. ~ Leads(Op(p), "descriptor", "return")
        BY DEF Leads, NamePlace, DetailPlace
      <4>3. place[p] = "descriptor" => Leads(Op(p), place[p], Target(p))
        BY <2>2, <4>1, Targets DEF Early, Decided
      <4> QED BY <1>14, <4>2, <4>3
    <3>3. Op(p) \in SessionOp => call[p].handle = call[q].handle
      BY <1>7, <1>8, <2>2, <3>2
    <3>4. Op(p) \in {"close", "write_named"} => call[p].handle = call[q].handle
      BY <3>3 DEF SessionOp
    <3> QED BY <1>3, <1>4, <3>1, <3>4, AfterAlike
  <2> QED BY <2>1, <2>2
<1>15. Decided(p) = "none" /\ place[p] # "report" => seen[p] = seen[q]
  BY <1>2 DEF Abreast, Decided
<1> QED BY <1>5, <1>11, <1>12, <1>13, <1>14, <1>15

----------------------------------------------------------------------------
(* What a rank will do does not change while others go on.                 *)

Unmoved(s) ==
  /\ place'[s] = place[s] /\ call'[s] = call[s] /\ outcome'[s] = outcome[s] /\ result'[s] = result[s]
  /\ held'[s] = held[s] /\ handles'[s] = handles[s] /\ seen'[s] = seen[s] /\ calls'[s] = calls[s]

SameWords(s) ==
  /\ log'[s] = log[s] /\ Words(s)' = Words(s) /\ WordOf(Root, s)' = WordOf(Root, s)

LEMMA Frame ==
  ASSUME NEW s, Unmoved(s), SameWords(s)
  PROVE  /\ MustAbort(s)' <=> MustAbort(s)
         /\ Decided(s)' = Decided(s) /\ Returning(s)' = Returning(s) /\ Target(s)' = Target(s)
         /\ Kept(s)' = Kept(s) /\ PoisonView(s)' = PoisonView(s)
         /\ nextId' = nextId => HandlesAfter(s, Returning(s))' = HandlesAfter(s, Returning(s))
<1>1. /\ place'[s] = place[s] /\ call'[s] = call[s] /\ outcome'[s] = outcome[s]
      /\ held'[s] = held[s] /\ handles'[s] = handles[s] /\ seen'[s] = seen[s]
      /\ log'[s] = log[s] /\ Words(s)' = Words(s) /\ WordOf(Root, s)' = WordOf(Root, s)
  BY DEF Unmoved, SameWords
<1>2. Op(s)' = Op(s) /\ Handle(s)' = Handle(s)
  BY <1>1 DEF Op, Handle
<1>3. MustAbort(s)' <=> MustAbort(s)
  BY <1>1 DEF MustAbort
<1>4. Error(s)' = Error(s)
  <2>1. Uncertain(s)' = Uncertain(s)
    BY <1>2 DEF Uncertain
  <2>2. Refusal(s)' = Refusal(s)
    BY <1>1, <1>2, <2>1 DEF Refusal
  <2>3. Rejected(s)' = Rejected(s)
    BY <1>1, <1>2 DEF Rejected
  <2>4. Barred(s)' = Barred(s)
    BY <1>2 DEF Barred
  <2> QED BY <1>1, <1>2, <2>2, <2>3, <2>4 DEF Error
<1>5. Decided(s)' = Decided(s)
  BY <1>1, <1>4 DEF Decided
<1>6. Returning(s)' = Returning(s)
  BY <1>5 DEF Returning
<1>7. Target(s)' = Target(s)
  <2>1. Exit(s)' = Exit(s)
    BY <1>1, <1>2 DEF Exit
  <2> QED BY <1>1, <1>2, <1>4, <2>1 DEF Target
<1>8. PoisonView(s)' = PoisonView(s)
  BY <1>1, <1>4 DEF PoisonView
<1>9. ASSUME nextId' = nextId
      PROVE  HandlesAfter(s, Returning(s))' = HandlesAfter(s, Returning(s))
  BY <1>1, <1>2, <1>6, <1>9 DEF HandlesAfter
<1>10. Kept(s)' = Kept(s)
  BY <1>1 DEF Kept
<1> QED BY <1>3, <1>5, <1>6, <1>7, <1>8, <1>9, <1>10

(* Only opening a session asks for its identifier. *)
LEMMA FrameAfter ==
  ASSUME NEW s, Unmoved(s), SameWords(s), ~ (Op(s) \in OpenOp /\ Returning(s) = "ok")
  PROVE  HandlesAfter(s, Returning(s))' = HandlesAfter(s, Returning(s))
<1>1. call'[s] = call[s] /\ handles'[s] = handles[s] /\ Returning(s)' = Returning(s)
  BY Frame DEF Unmoved
<1>2. Op(s)' = Op(s)
  BY <1>1 DEF Op
<1>3. CASE Op(s) \in OpenOp /\ Returning(s) # "ok"
  <2>1. Op(s) # "close" /\ Op(s) # "write_named"
    BY <1>3 DEF OpenOp
  <2> QED BY <1>1, <1>2, <1>3, <2>1 DEF HandlesAfter
<1>4. CASE Op(s) \notin OpenOp
  BY <1>1, <1>2, <1>4 DEF HandlesAfter
<1> QED BY <1>3, <1>4

LEMMA FrameWords ==
  ASSUME LogInv, NEW r \in Rank, NEW p, NEW w, Enter(r, p, w), Complete(r),
         NEW s \in Rank, s # r, Complete(s), Len(log[s]) >= 1
  PROVE  SameWords(s) /\ Complete(s)'
BY Stable, StableWords, ContainerAssumption DEF SameWords

----------------------------------------------------------------------------
(* Steps.  All that lead from a place to the next are alike as far as the  *)
(* ranks' control is concerned.                                            *)

Native == {"communicator", "file", "datatype"}

(* What r takes or gives back at place n. *)
Takes(r, n, ok) ==
  /\ held' \in [Rank -> SUBSET Native]
  /\ \A s \in Rank : s # r => held'[s] = held[s]
  /\ Kept(r)' = Keeping(Kept(r), n, ok)
  /\ n \in Early => held'[r] = held[r]

Advance(r, n, w) ==
  /\ Leaves(r) /\ Target(r) = n /\ n # "return" /\ Vote(r, n, w)
  /\ w.ok \in BOOLEAN /\ (n \in Early \union {"report"} => w.about = About(r, n))
  /\ Takes(r, n, w.ok)
  /\ handles' = IF n = "operation datatype free" THEN [handles EXCEPT ![r] = PoisonView(r)] ELSE handles
  /\ seen' = [seen EXCEPT ![r] = IF n = "decode" THEN seen[Root]
                                 ELSE IF n = "report" /\ r = Root THEN Scanned ELSE @]
  /\ nextId' = IF n = "identifier" /\ r = Root /\ w.ok THEN nextId + 1 ELSE nextId
  /\ calls' = calls

ViewPlace  == {"payload view", "marker view", "byte view", "view reset"}
FlushPlace == {"header flush", "payload flush", "marker flush", "flush", "file close"}
WritePlace == {"container", "head", "payload", "marker"}

(* What it does to the file there. *)
Effect(r, n, w) ==
  /\ IF n = "open" THEN view' = [view EXCEPT ![r][File(r)] = "bytes"]
     ELSE IF n \in ViewPlace
     THEN LET new == IF n = "payload view" THEN "payload" ELSE "bytes"
          IN  \E v \in IF w.ok THEN {new} ELSE {new, view[r][File(r)]} :
                view' = [view EXCEPT ![r][File(r)] = v]
     ELSE view' = view
  /\ IF n = "open"
     THEN /\ w.ok => MayOpen(r)
          /\ created' \in IF ~ Creates(r) THEN {created} ELSE IF w.ok THEN {TRUE} ELSE {created, TRUE}
     ELSE created' = created
  /\ n = "container" =>
       /\ container' \in IF r # Root THEN {container}
                         ELSE IF w.ok THEN {"cached"} ELSE {container, "cached"}
       /\ file' = file
  /\ n = "head" =>
       /\ file' \in IF r # Root THEN {file}
                    ELSE IF w.ok THEN {WithHead(Index(r), "cached")}
                    ELSE {file, WithHead(Index(r), "absent"), WithHead(Index(r), "cached")}
       /\ container' = container
  /\ n = "payload" =>
       /\ file' \in IF w.ok THEN {Cached(Index(r), r)} ELSE {file, Cached(Index(r), r)}
       /\ container' = container
  /\ n = "marker" =>
       /\ file' \in IF r # Root THEN {file}
                    ELSE IF w.ok THEN {Cached(Index(r), "marker")} ELSE {file, Cached(Index(r), "marker")}
       /\ container' = container
  /\ n \in FlushPlace => IF w.ok THEN Synced(r) ELSE UNCHANGED disk
  /\ n \notin WritePlace \union FlushPlace => file' = file /\ container' = container

Advances(r) == \E n, w : Advance(r, n, w) /\ Effect(r, n, w)

LEMMA WordsOf ==
  ASSUME NEW r, NEW n, NEW w \in WordsAt(r, n)
  PROVE  /\ w.ok \in BOOLEAN
         /\ n \notin {"size", "path bytes", "view descriptor"} => w.about = About(r, n)
<1>1. \/ w = [ok |-> TRUE, about |-> About(r, n)]
      \/ w = [ok |-> FALSE, about |-> About(r, n)]
      \/ w = [ok |-> TRUE, about |-> "other"] /\ n \in {"size", "path bytes", "view descriptor"}
  BY DEF WordsAt, Good
<1>2. CASE w = [ok |-> TRUE, about |-> About(r, n)]
  <2>1. w.ok = TRUE /\ w.about = About(r, n)
    BY <1>2, Zenon
  <2> QED BY <2>1
<1>3. CASE w = [ok |-> FALSE, about |-> About(r, n)]
  <2>1. w.ok = FALSE /\ w.about = About(r, n)
    BY <1>3, Zenon
  <2> QED BY <2>1
<1>4. CASE w = [ok |-> TRUE, about |-> "other"] /\ n \in {"size", "path bytes", "view descriptor"}
  <2>1. w.ok = TRUE
    BY <1>4, Zenon
  <2> QED BY <1>4, <2>1
<1> QED BY <1>1, <1>2, <1>3, <1>4, Zenon

LEMMA WordsFitting ==
  ASSUME NEW r, NEW n, NEW w \in WordsAt(r, n)
  PROVE  w.ok \in BOOLEAN /\ (n \in Early \union {"report"} => w.about = About(r, n))
<1>1. n \in Early \union {"report"} => n \notin {"size", "path bytes", "view descriptor"}
  BY DEF Early, NamePlace
<1> QED BY <1>1, WordsOf

LEMMA SameTakes ==
  ASSUME NEW r \in Rank, NEW n, NEW ok, held \in [Rank -> SUBSET Native], held' = held,
         n \notin {"duplicate", "open", "file close", "communicator free"}
  PROVE  Takes(r, n, ok)
<1>1. Kept(r)' = Kept(r)
  BY DEF Kept
<1>2. Keeping(Kept(r), n, ok) = Kept(r)
  BY DEF Keeping
<1> QED BY <1>1, <1>2 DEF Takes

(* A place without an effect on what a rank holds, has seen or opened. *)
LEMMA PlainAdvance ==
  ASSUME ControlInv, NEW r \in Rank, NEW n, NEW w \in WordsAt(r, n),
         Reaches(r, n), Vote(r, n, w), UNCHANGED <<held, handles, seen, nextId, calls>>,
         n \notin {"duplicate", "open", "file close", "communicator free", "operation datatype free",
                   "report", "decode", "identifier", "return"}
  PROVE  Advance(r, n, w)
<1>1. held \in [Rank -> SUBSET Native] /\ seen \in [Rank -> [names : SUBSET Name, tail : Nat, size : Nat]]
  BY DEF ControlInv, ControlType, Native
<1>2. Takes(r, n, w.ok)
  BY <1>1, SameTakes
<1>3. w.ok \in BOOLEAN /\ (n \in Early \union {"report"} => w.about = About(r, n))
  BY WordsFitting
<1>4. seen' = [seen EXCEPT ![r] = seen[r]]
  BY <1>1
<1> QED BY <1>2, <1>3, <1>4 DEF Advance, Reaches

LEMMA StepKinds ==
  ASSUME ControlInv, NEW r \in Rank, Step(r)
  PROVE  Abort(r) \/ Return(r) \/ Advances(r)
<1>0. held \in [Rank -> SUBSET Native] /\ seen \in [Rank -> [names : SUBSET Name, tail : Nat, size : Nat]]
  BY DEF ControlInv, ControlType, Native
<1>1. CASE Check(r)
  <2>1. PICK n \in Plain \intersect {Target(r)} : \E w \in WordsAt(r, n) : Vote(r, n, w) /\ Fault(w # Good(r, n))
    BY <1>1 DEF Check
  <2>2. PICK w \in WordsAt(r, n) : Vote(r, n, w) /\ Fault(w # Good(r, n))
    BY <2>1
  <2>3. UNCHANGED <<held, handles, view, seen, disk, nextId>> /\ Leaves(r)
    BY <1>1 DEF Check
  <2>4. n \notin {"duplicate", "open", "file close", "communicator free", "operation datatype free",
                   "report", "decode", "identifier", "return"}
        /\ n \notin WritePlace \union FlushPlace \union ViewPlace
    BY <2>1 DEF Plain, WritePlace, FlushPlace, ViewPlace
  <2>5. Reaches(r, n) /\ calls' = calls
    BY <2>1, <2>2, <2>3 DEF Reaches, Fault
  <2>6. Advance(r, n, w)
    BY <2>2, <2>3, <2>4, <2>5, PlainAdvance
  <2>7. Effect(r, n, w)
    BY <2>3, <2>4 DEF Effect, disk, WritePlace
  <2> QED BY <2>6, <2>7 DEF Advances
<1>2. CASE ValidateCatalog(r)
  <2> DEFINE n == "catalog validation"
             w == [ok |-> outcome[r] = "none" /\ Error(r) = "none", about |-> "same"]
  <2>1. Reaches(r, n) /\ Vote(r, n, w) /\ calls' = calls
    BY <1>2 DEF ValidateCatalog, Fault
  <2>2. UNCHANGED <<held, handles, view, seen, disk, nextId>>
    BY <1>2 DEF ValidateCatalog
  <2>3. w \in WordsAt(r, n)
    BY DEF WordsAt, Good, About
  <2>4. Advance(r, n, w)
    BY <2>1, <2>2, <2>3, PlainAdvance
  <2>5. Effect(r, n, w)
    BY <2>2 DEF Effect, disk, WritePlace, FlushPlace, ViewPlace
  <2> QED BY <2>4, <2>5 DEF Advances
<1>3. CASE Identify(r)
  <2>1. PICK ok \in BOOLEAN :
          /\ Vote(r, "identifier", [ok |-> ok, about |-> "same"])
          /\ nextId' = IF ok /\ r = Root THEN nextId + 1 ELSE nextId
    BY <1>3 DEF Identify
  <2> DEFINE n == "identifier"
             w == [ok |-> ok, about |-> "same"]
  <2>2. UNCHANGED <<held, handles, view, seen, disk, calls>> /\ Leaves(r) /\ Target(r) = n
    BY <1>3 DEF Identify, Fault, Reaches
  <2>3. Takes(r, n, w.ok)
    BY <1>0, <2>2, SameTakes
  <2>4. n \notin Early
    BY DEF Early, NamePlace
  <2>5. seen' = [seen EXCEPT ![r] = seen[r]]
    BY <1>0, <2>2
  <2>6. Advance(r, n, w)
    BY <2>1, <2>2, <2>3, <2>4, <2>5 DEF Advance
  <2>7. Effect(r, n, w)
    BY <2>2 DEF Effect, disk, WritePlace, FlushPlace, ViewPlace
  <2> QED BY <2>6, <2>7 DEF Advances
<1>4. CASE Duplicate(r)
  <2> DEFINE n == "duplicate"
  <2>1. PICK w \in WordsAt(r, n) :
          /\ Vote(r, n, w) /\ Fault(~ w.ok)
          /\ held' = [held EXCEPT ![r] = IF w.ok THEN @ \union {"communicator"} ELSE @]
    BY <1>4 DEF Duplicate
  <2>2. UNCHANGED <<handles, view, seen, disk, nextId, calls>> /\ Leaves(r) /\ Target(r) = n
    BY <1>4, <2>1 DEF Duplicate, Fault, Reaches
  <2>3. n \notin Early
    BY DEF Early, NamePlace
  <2>4. Takes(r, n, w.ok)
    <3>1. held'[r] = (IF w.ok THEN held[r] \union {"communicator"} ELSE held[r])
      BY <1>0, <2>1
    <3>2. Kept(r)' = Keeping(Kept(r), n, w.ok)
      BY <3>1 DEF Kept, Keeping
    <3> QED BY <1>0, <2>1, <2>3, <3>2 DEF Takes, Native
  <2>5. seen' = [seen EXCEPT ![r] = seen[r]]
    BY <1>0, <2>2
  <2>6. w.ok \in BOOLEAN
    BY WordsFitting
  <2>7. Advance(r, n, w)
    BY <2>1, <2>2, <2>3, <2>4, <2>5, <2>6 DEF Advance
  <2>8. Effect(r, n, w)
    BY <2>2 DEF Effect, disk, WritePlace, FlushPlace, ViewPlace
  <2> QED BY <2>7, <2>8 DEF Advances
<1>5. CASE OpenFile(r)
  <2> DEFINE n == "open"
  <2>1. PICK w \in WordsAt(r, n) :
          /\ w.ok => MayOpen(r)
          /\ Vote(r, n, w) /\ Fault(~ w.ok /\ MayOpen(r))
          /\ held' = [held EXCEPT ![r] = IF w.ok THEN @ \union {"file"} ELSE @]
          /\ created' \in IF ~ Creates(r) THEN {created} ELSE IF w.ok THEN {TRUE} ELSE {created, TRUE}
          /\ view' = [view EXCEPT ![r][File(r)] = "bytes"]
    BY <1>5 DEF OpenFile
  <2>2. UNCHANGED <<handles, seen, container, file, nextId, calls>> /\ Leaves(r) /\ Target(r) = n
    BY <1>5, <2>1 DEF OpenFile, Fault, Reaches
  <2>3. n \notin Early
    BY DEF Early, NamePlace
  <2>4. Takes(r, n, w.ok)
    <3>1. held'[r] = (IF w.ok THEN held[r] \union {"file"} ELSE held[r])
      BY <1>0, <2>1
    <3>2. Kept(r)' = Keeping(Kept(r), n, w.ok)
      BY <3>1 DEF Kept, Keeping
    <3> QED BY <1>0, <2>1, <2>3, <3>2 DEF Takes, Native
  <2>5. seen' = [seen EXCEPT ![r] = seen[r]]
    BY <1>0, <2>2
  <2>6. w.ok \in BOOLEAN
    BY WordsFitting
  <2>7. Advance(r, n, w)
    BY <2>1, <2>2, <2>3, <2>4, <2>5, <2>6 DEF Advance
  <2>8. Effect(r, n, w)
    BY <2>1, <2>2 DEF Effect, WritePlace, FlushPlace, ViewPlace
  <2> QED BY <2>7, <2>8 DEF Advances
<1>6. CASE ScanFile(r)
  <2>1. PICK n \in {"report", "decode"} \intersect {Target(r)} :
          /\ \E w \in WordsAt(r, n) : Vote(r, n, w) /\ Fault(~ w.ok)
          /\ seen' = [seen EXCEPT ![r] = IF n = "decode" THEN seen[Root]
                                         ELSE IF r = Root THEN Scanned ELSE @]
    BY <1>6 DEF ScanFile
  <2>2. PICK w \in WordsAt(r, n) : Vote(r, n, w) /\ Fault(~ w.ok)
    BY <2>1
  <2>3. UNCHANGED <<held, handles, view, disk, nextId, calls>> /\ Leaves(r) /\ Target(r) = n
    BY <1>6, <2>1, <2>2 DEF ScanFile, Fault
  <2>4. Takes(r, n, w.ok)
    BY <1>0, <2>1, <2>3, SameTakes
  <2>5. w.ok \in BOOLEAN /\ (n \in Early \union {"report"} => w.about = About(r, n))
    BY WordsFitting
  <2>6. Advance(r, n, w)
    BY <2>1, <2>2, <2>3, <2>4, <2>5 DEF Advance
  <2>7. Effect(r, n, w)
    BY <2>1, <2>3 DEF Effect, disk, WritePlace, FlushPlace, ViewPlace
  <2> QED BY <2>6, <2>7 DEF Advances
<1>7. CASE CreateDatatype(r)
  <2> DEFINE n == "datatype"
  <2>1. PICK w \in WordsAt(r, n) :
          /\ Vote(r, n, w) /\ Fault(~ w.ok)
          /\ held' = [held EXCEPT ![r] = IF w.ok THEN @ \union {"datatype"} ELSE @]
    BY <1>7 DEF CreateDatatype
  <2>2. UNCHANGED <<handles, view, seen, disk, nextId, calls>> /\ Leaves(r) /\ Target(r) = n
    BY <1>7, <2>1 DEF CreateDatatype, Fault, Reaches
  <2>3. n \notin Early
    BY DEF Early, NamePlace
  <2>4. Takes(r, n, w.ok)
    <3>1. held'[r] = (IF w.ok THEN held[r] \union {"datatype"} ELSE held[r])
      BY <1>0, <2>1
    <3>2. Kept(r)' = Kept(r)
      BY <3>1 DEF Kept
    <3>3. Keeping(Kept(r), n, w.ok) = Kept(r)
      BY DEF Keeping
    <3> QED BY <1>0, <2>1, <2>3, <3>2, <3>3 DEF Takes, Native
  <2>5. seen' = [seen EXCEPT ![r] = seen[r]]
    BY <1>0, <2>2
  <2>6. w.ok \in BOOLEAN
    BY WordsFitting
  <2>7. Advance(r, n, w)
    BY <2>1, <2>2, <2>3, <2>4, <2>5, <2>6 DEF Advance
  <2>8. Effect(r, n, w)
    BY <2>2 DEF Effect, disk, WritePlace, FlushPlace, ViewPlace
  <2> QED BY <2>7, <2>8 DEF Advances
<1>8. CASE SetView(r)
  <2>1. PICK n \in ViewPlace \intersect {Target(r)} :
          \E w \in WordsAt(r, n) :
             /\ Vote(r, n, w) /\ Fault(~ w.ok)
             /\ \E v \in IF w.ok THEN {IF n = "payload view" THEN "payload" ELSE "bytes"}
                         ELSE {IF n = "payload view" THEN "payload" ELSE "bytes", view[r][File(r)]} :
                  view' = [view EXCEPT ![r][File(r)] = v]
    BY <1>8 DEF SetView, ViewPlace
  <2>2. PICK w \in WordsAt(r, n) :
             /\ Vote(r, n, w) /\ Fault(~ w.ok)
             /\ \E v \in IF w.ok THEN {IF n = "payload view" THEN "payload" ELSE "bytes"}
                         ELSE {IF n = "payload view" THEN "payload" ELSE "bytes", view[r][File(r)]} :
                  view' = [view EXCEPT ![r][File(r)] = v]
    BY <2>1
  <2>3. UNCHANGED <<held, handles, seen, disk, nextId, calls>> /\ Reaches(r, n)
    BY <1>8, <2>1, <2>2 DEF SetView, Fault, Reaches
  <2>4. n \notin {"duplicate", "open", "file close", "communicator free", "operation datatype free",
                   "report", "decode", "identifier", "return"}
        /\ n \notin WritePlace \union FlushPlace /\ n \in ViewPlace
    BY <2>1 DEF WritePlace, FlushPlace, ViewPlace
  <2>5. Advance(r, n, w)
    BY <2>2, <2>3, <2>4, PlainAdvance
  <2>6. Effect(r, n, w)
    BY <2>2, <2>3, <2>4 DEF Effect, disk, WritePlace
  <2> QED BY <2>5, <2>6 DEF Advances
<1>9. CASE WriteContainer(r)
  <2> DEFINE n == "container"
  <2>1. PICK w \in WordsAt(r, n) :
          /\ Vote(r, n, w) /\ Fault(~ w.ok)
          /\ container' \in IF r # Root THEN {container}
                            ELSE IF w.ok THEN {"cached"} ELSE {container, "cached"}
    BY <1>9 DEF WriteContainer
  <2>2. UNCHANGED <<held, handles, view, seen, created, file, nextId, calls>> /\ Reaches(r, n)
    BY <1>9, <2>1 DEF WriteContainer, Fault
  <2>3. Advance(r, n, w)
    BY <2>1, <2>2, PlainAdvance
  <2>4. Effect(r, n, w)
    BY <2>1, <2>2 DEF Effect, WritePlace, FlushPlace, ViewPlace
  <2> QED BY <2>3, <2>4 DEF Advances
<1>10. CASE WriteHead(r)
  <2> DEFINE n == "head"
  <2>1. PICK w \in WordsAt(r, n) :
          /\ Vote(r, n, w) /\ Fault(~ w.ok)
          /\ file' \in IF r # Root THEN {file}
                       ELSE IF w.ok THEN {WithHead(Index(r), "cached")}
                       ELSE {file, WithHead(Index(r), "absent"), WithHead(Index(r), "cached")}
    BY <1>10 DEF WriteHead
  <2>2. UNCHANGED <<held, handles, view, seen, created, container, nextId, calls>> /\ Reaches(r, n)
    BY <1>10, <2>1 DEF WriteHead, Fault
  <2>3. Advance(r, n, w)
    BY <2>1, <2>2, PlainAdvance
  <2>4. Effect(r, n, w)
    BY <2>1, <2>2 DEF Effect, WritePlace, FlushPlace, ViewPlace
  <2> QED BY <2>3, <2>4 DEF Advances
<1>11. CASE WritePayload(r)
  <2> DEFINE n == "payload"
  <2>1. PICK w \in WordsAt(r, n) :
          /\ Vote(r, n, w) /\ Fault(~ w.ok)
          /\ file' \in IF w.ok THEN {Cached(Index(r), r)} ELSE {file, Cached(Index(r), r)}
    BY <1>11 DEF WritePayload
  <2>2. UNCHANGED <<held, handles, view, seen, created, container, nextId, calls>> /\ Reaches(r, n)
    BY <1>11, <2>1 DEF WritePayload, Fault
  <2>3. Advance(r, n, w)
    BY <2>1, <2>2, PlainAdvance
  <2>4. Effect(r, n, w)
    BY <2>1, <2>2 DEF Effect, WritePlace, FlushPlace, ViewPlace
  <2> QED BY <2>3, <2>4 DEF Advances
<1>12. CASE WriteMarker(r)
  <2> DEFINE n == "marker"
  <2>1. PICK w \in WordsAt(r, n) :
          /\ Vote(r, n, w) /\ Fault(~ w.ok)
          /\ file' \in IF r # Root THEN {file}
                       ELSE IF w.ok THEN {Cached(Index(r), "marker")}
                       ELSE {file, Cached(Index(r), "marker")}
    BY <1>12 DEF WriteMarker
  <2>2. UNCHANGED <<held, handles, view, seen, created, container, nextId, calls>> /\ Reaches(r, n)
    BY <1>12, <2>1 DEF WriteMarker, Fault
  <2>3. Advance(r, n, w)
    BY <2>1, <2>2, PlainAdvance
  <2>4. Effect(r, n, w)
    BY <2>1, <2>2 DEF Effect, WritePlace, FlushPlace, ViewPlace
  <2> QED BY <2>3, <2>4 DEF Advances
<1>13. CASE Flush(r)
  <2>1. PICK n \in {"header flush", "payload flush", "marker flush", "flush"} \intersect {Target(r)} :
          \E w \in WordsAt(r, n) :
            /\ Vote(r, n, w) /\ Fault(~ w.ok)
            /\ IF w.ok THEN Synced(r) ELSE UNCHANGED disk
    BY <1>13 DEF Flush
  <2>2. PICK w \in WordsAt(r, n) :
            /\ Vote(r, n, w) /\ Fault(~ w.ok)
            /\ IF w.ok THEN Synced(r) ELSE UNCHANGED disk
    BY <2>1
  <2>3. UNCHANGED <<held, handles, view, seen, nextId, calls>> /\ Reaches(r, n) /\ created' = created
    BY <1>13, <2>1, <2>2 DEF Flush, Fault, Reaches, Synced, disk
  <2>4. Advance(r, n, w)
    BY <2>1, <2>2, <2>3, PlainAdvance
  <2>5. Effect(r, n, w)
    BY <2>1, <2>2, <2>3 DEF Effect, WritePlace, FlushPlace, ViewPlace
  <2> QED BY <2>4, <2>5 DEF Advances
<1>14. CASE Release(r)
  <2>1. PICK n \in {"datatype free", "file close", "communicator free"} \intersect {Target(r)} :
          \E w \in WordsAt(r, n) :
            /\ Vote(r, n, w) /\ Fault(~ w.ok)
            /\ held' = [held EXCEPT ![r] = @ \
                 CASE n = "datatype free" -> {"datatype"}
                   [] n = "file close" -> {"file"}
                   [] n = "communicator free" -> {"communicator"}]
            /\ IF n = "file close" /\ w.ok THEN Synced(r) ELSE UNCHANGED disk
    BY <1>14 DEF Release
  <2>2. PICK w \in WordsAt(r, n) :
            /\ Vote(r, n, w) /\ Fault(~ w.ok)
            /\ held' = [held EXCEPT ![r] = @ \
                 CASE n = "datatype free" -> {"datatype"}
                   [] n = "file close" -> {"file"}
                   [] n = "communicator free" -> {"communicator"}]
            /\ IF n = "file close" /\ w.ok THEN Synced(r) ELSE UNCHANGED disk
    BY <2>1
  <2>3. UNCHANGED <<handles, view, seen, nextId, calls>> /\ Leaves(r) /\ Target(r) = n /\ created' = created
    BY <1>14, <2>1, <2>2 DEF Release, Fault, Synced, disk
  <2>4. n \notin Early /\ n \notin WritePlace \union ViewPlace \union {"open"}
    BY <2>1 DEF Early, NamePlace, WritePlace, ViewPlace
  <2>5. Takes(r, n, w.ok)
    <3> DEFINE gone == CASE n = "datatype free" -> {"datatype"}
                         [] n = "file close" -> {"file"}
                         [] n = "communicator free" -> {"communicator"}
    <3>1. /\ n = "datatype free" => gone = {"datatype"}
          /\ n = "file close" => gone = {"file"}
          /\ n = "communicator free" => gone = {"communicator"}
      OBVIOUS
    <3>2. held' = [held EXCEPT ![r] = held[r] \ gone]
      BY <2>2
    <3> HIDE DEF gone
    <3>3. held'[r] = held[r] \ gone
      BY <1>0, <3>2
    <3>4. Kept(r)' = Keeping(Kept(r), n, w.ok)
      <4>1. CASE n = "datatype free"
        BY <3>1, <3>3, <4>1 DEF Kept, Keeping
      <4>2. CASE n = "file close"
        BY <3>1, <3>3, <4>2 DEF Kept, Keeping
      <4>3. CASE n = "communicator free"
        BY <3>1, <3>3, <4>3 DEF Kept, Keeping
      <4> QED BY <2>1, <4>1, <4>2, <4>3
    <3> QED BY <1>0, <2>4, <3>2, <3>4 DEF Takes, Native
  <2>6. seen' = [seen EXCEPT ![r] = seen[r]]
    BY <1>0, <2>3
  <2>7. w.ok \in BOOLEAN
    BY WordsFitting
  <2>8. Advance(r, n, w)
    BY <2>1, <2>2, <2>3, <2>4, <2>5, <2>6, <2>7 DEF Advance
  <2>9. Effect(r, n, w)
    BY <2>1, <2>2, <2>3, <2>4 DEF Effect, FlushPlace, WritePlace, disk
  <2> QED BY <2>8, <2>9 DEF Advances
<1>15. CASE FinishOperation(r)
  <2> DEFINE n == "operation datatype free"
  <2>1. PICK w \in WordsAt(r, n) : Vote(r, n, w) /\ Fault(~ w.ok)
    BY <1>15 DEF FinishOperation
  <2>2. UNCHANGED <<view, seen, disk, nextId, calls>> /\ Leaves(r) /\ Target(r) = n
    BY <1>15, <2>1 DEF FinishOperation, Fault, Reaches
  <2>3. /\ handles' = [handles EXCEPT ![r] = PoisonView(r)]
        /\ held' = [held EXCEPT ![r] = @ \ {"datatype"}]
    BY <1>15 DEF FinishOperation
  <2>4. n \notin Early
    BY DEF Early, NamePlace
  <2>5. Takes(r, n, w.ok)
    <3>1. held'[r] = held[r] \ {"datatype"}
      BY <1>0, <2>3
    <3>2. Kept(r)' = Kept(r)
      BY <3>1 DEF Kept
    <3>3. Keeping(Kept(r), n, w.ok) = Kept(r)
      BY DEF Keeping
    <3> QED BY <1>0, <2>3, <2>4, <3>2, <3>3 DEF Takes, Native
  <2>6. seen' = [seen EXCEPT ![r] = seen[r]]
    BY <1>0, <2>2
  <2>7. w.ok \in BOOLEAN
    BY WordsFitting
  <2>8. Advance(r, n, w)
    BY <2>1, <2>2, <2>3, <2>4, <2>5, <2>6, <2>7 DEF Advance
  <2>9. Effect(r, n, w)
    BY <2>2 DEF Effect, disk, WritePlace, FlushPlace, ViewPlace
  <2> QED BY <2>8, <2>9 DEF Advances
<1> QED BY <1>1, <1>2, <1>3, <1>4, <1>5, <1>6, <1>7, <1>8, <1>9, <1>10, <1>11, <1>12, <1>13, <1>14,
           <1>15 DEF Step

----------------------------------------------------------------------------
(* Prefixes of the file.                                                   *)

LEMMA FirstGap ==
  ASSUME NEW n \in Nat, NEW G
  PROVE  \E k \in 0..n : (\A i \in 1..k : i \in G) /\ (k = n \/ k + 1 \notin G)
<1> DEFINE S == {i \in 1..n : i \notin G}
<1>1. CASE S = {}
  <2>1. \A i \in 1..n : i \in G
    BY <1>1
  <2> QED BY <2>1
<1>2. CASE S # {}
  <2>1. S \in SUBSET Nat
    OBVIOUS
  <2>2. PICK x \in S : \A y \in S : ~ (<<y, x>> \in OpToRel(<, Nat))
    BY <1>2, <2>1, WFMin, NatLessThanWellFounded, Zenon
  <2>3. ASSUME NEW i \in 1..(x - 1) PROVE i \in G
    <3>1. i \in Nat /\ x \in Nat /\ i < x /\ i \in 1..n
      OBVIOUS
    <3>2. i \notin S
      BY <2>2, <3>1 DEF OpToRel
    <3> QED BY <3>1, <3>2
  <2>4. x - 1 \in 0..n /\ (x - 1) + 1 \notin G
    OBVIOUS
  <2> QED BY <2>3, <2>4
<1> QED BY <1>1, <1>2

(* The longest prefix of listed records. *)
LEMMA ListedPrefix ==
  ASSUME file \in Seq(Record)
  PROVE  LET k == Prefix(Listed)
         IN  /\ k \in 0..Len(file)
             /\ \A i \in 1..k : Listed(file[i])
             /\ k = Len(file) \/ ~ Listed(file[k + 1])
<1> DEFINE G == {i \in 1..Len(file) : Listed(file[i])}
<1>1. Len(file) \in Nat
  OBVIOUS
<1>2. PICK k \in 0..Len(file) : (\A i \in 1..k : i \in G) /\ (k = Len(file) \/ k + 1 \notin G)
  BY <1>1, FirstGap
<1>3. (\A i \in 1..k : Listed(file[i])) /\ (k = Len(file) \/ ~ Listed(file[k + 1]))
  BY <1>1, <1>2
<1> QED BY <1>3 DEF Prefix

LEMMA StoredPrefix ==
  ASSUME file \in Seq(Record)
  PROVE  LET k == Prefix(Stored)
         IN  /\ k \in 0..Len(file)
             /\ \A i \in 1..k : Stored(file[i])
             /\ k = Len(file) \/ ~ Stored(file[k + 1])
<1> DEFINE G == {i \in 1..Len(file) : Stored(file[i])}
<1>1. Len(file) \in Nat
  OBVIOUS
<1>2. PICK k \in 0..Len(file) : (\A i \in 1..k : i \in G) /\ (k = Len(file) \/ k + 1 \notin G)
  BY <1>1, FirstGap
<1>3. (\A i \in 1..k : Stored(file[i])) /\ (k = Len(file) \/ ~ Stored(file[k + 1]))
  BY <1>1, <1>2
<1> QED BY <1>3 DEF Prefix

(* There is only one. *)
LEMMA PrefixIs ==
  ASSUME file \in Seq(Record), NEW k \in 0..Len(file)
  PROVE  /\ (\A i \in 1..k : Listed(file[i])) /\ (k = Len(file) \/ ~ Listed(file[k + 1]))
              => Prefix(Listed) = k
         /\ (\A i \in 1..k : Stored(file[i])) /\ (k = Len(file) \/ ~ Stored(file[k + 1]))
              => Prefix(Stored) = k
         /\ (\A i \in 1..k : Stored(file[i])) => k <= Prefix(Stored)
         /\ (\A i \in 1..k : Listed(file[i])) => k <= Prefix(Listed)
<1>0. Len(file) \in Nat
  OBVIOUS
<1> DEFINE a == Prefix(Listed)
           b == Prefix(Stored)
<1>1. /\ a \in 0..Len(file) /\ \A i \in 1..a : Listed(file[i])
      /\ a = Len(file) \/ ~ Listed(file[a + 1])
  BY ListedPrefix
<1>2. /\ b \in 0..Len(file) /\ \A i \in 1..b : Stored(file[i])
      /\ b = Len(file) \/ ~ Stored(file[b + 1])
  BY StoredPrefix
<1> HIDE DEF a, b
<1>3. (\A i \in 1..k : Listed(file[i])) => k <= a
  BY <1>0, <1>1
<1>4. (\A i \in 1..k : Stored(file[i])) => k <= b
  BY <1>0, <1>2
<1>5. (\A i \in 1..k : Listed(file[i])) /\ (k = Len(file) \/ ~ Listed(file[k + 1])) => a = k
  BY <1>0, <1>1, <1>3
<1>6. (\A i \in 1..k : Stored(file[i])) /\ (k = Len(file) \/ ~ Stored(file[k + 1])) => b = k
  BY <1>0, <1>2, <1>4
<1> QED BY <1>3, <1>4, <1>5, <1>6 DEF a, b

LEMMA ScannedType ==
  ASSUME file \in Seq(Record)
  PROVE  Scanned \in [names : SUBSET Name, tail : Nat, size : Nat]
<1> DEFINE k == Prefix(Listed)
<1>1. k \in 0..Len(file) /\ Len(file) \in Nat
  BY ListedPrefix
<1> HIDE DEF k
<1>2. \A i \in 1..k : file[i] \in Record
  BY <1>1
<1>3. Names(k) \subseteq Name
  BY <1>2 DEF Names, Record
<1> QED BY <1>1, <1>3 DEF Scanned, k

LEMMA SessionFields ==
  ASSUME NEW s \in Session
  PROVE  /\ [s EXCEPT !.poisoned = TRUE] \in Session /\ [s EXCEPT !.poisoned = TRUE].id = s.id
         /\ [s EXCEPT !.closed = TRUE] \in Session /\ [s EXCEPT !.closed = TRUE].id = s.id
<1>1. [s EXCEPT !.poisoned = TRUE] \in Session
  BY DEF Session
<1>2. [s EXCEPT !.poisoned = TRUE].id = s.id
  BY DEF Session
<1>3. [s EXCEPT !.closed = TRUE] \in Session
  BY DEF Session
<1>4. [s EXCEPT !.closed = TRUE].id = s.id
  BY DEF Session
<1> QED BY <1>1, <1>2, <1>3, <1>4

(* What the sessions of a rank may become. *)
LEMMA PoisonType ==
  ASSUME ControlInv, NEW r \in Rank, Busy(r), Op(r) \in SessionOp
  PROVE  /\ PoisonView(r) \in Seq(Session) /\ Len(PoisonView(r)) = Len(handles[r])
         /\ \A i \in 1..Len(handles[r]) : PoisonView(r)[i].id = handles[r][i].id
<1> DEFINE h == handles[r]
           c == call[r].handle
           g == [h EXCEPT ![c].poisoned = TRUE]
<1>1. h \in Seq(Session) /\ c \in 1..Len(h) /\ Len(h) \in Nat
  BY RankParts DEF PlaceInv, CallInv
<1>2. g = [h EXCEPT ![c] = [h[c] EXCEPT !.poisoned = TRUE]]
  OBVIOUS
<1>3. h[c] \in Session /\ [h[c] EXCEPT !.poisoned = TRUE] \in Session
      /\ [h[c] EXCEPT !.poisoned = TRUE].id = h[c].id
  <2>1. h[c] \in Session
    BY <1>1
  <2> HIDE DEF h, c
  <2> QED BY <2>1, SessionFields
<1>4. g \in Seq(Session) /\ Len(g) = Len(h)
  BY <1>1, <1>2, <1>3
<1>5. \A i \in 1..Len(h) : g[i].id = h[i].id
  <2>1. \A i \in 1..Len(h) : g[i] = IF i = c THEN [h[c] EXCEPT !.poisoned = TRUE] ELSE h[i]
    BY <1>1, <1>2
  <2> QED BY <1>3, <2>1
<1> QED BY <1>1, <1>4, <1>5 DEF PoisonView

----------------------------------------------------------------------------
(* A rank goes on to its next place.                                       *)

PairInStep(p, q) ==
  /\ Ahead(q, p) = 0 => Same(p, q)
  /\ Ahead(q, p) = 1 => Lead(q, p)

Finishing(n) == n = "operation datatype free"

LEMMA Advanced ==
  ASSUME ControlInv, NEW r \in Rank, NEW n, NEW w, Advance(r, n, w)
  PROVE  /\ Busy(r) /\ Complete(r) /\ ~ MustAbort(r) /\ Target(r) = n /\ n # "return" /\ Enter(r, n, w)
         /\ call' = call /\ result' = result /\ calls' = calls
         /\ place' = [place EXCEPT ![r] = n] /\ place'[r] = n /\ outcome'[r] = Decided(r)
         /\ n \in At(Op(r)) /\ Fits(Op(r), n) /\ n \in AnyPlace /\ n # "descriptor" /\ n # "idle"
         /\ log'[r][1].place = n /\ log'[r][1].word = w /\ log'[r][2] = log[r][1] /\ Len(log'[r]) \in 2..3
         /\ Finishing(n) => handles'[r] = PoisonView(r)
         /\ ~ Finishing(n) => handles'[r] = handles[r]
         /\ n = "decode" => seen'[r] = seen[Root]
         /\ n = "report" /\ r = Root => seen'[r] = Scanned
         /\ n # "decode" /\ ~ (n = "report" /\ r = Root) => seen'[r] = seen[r]
         /\ \A s \in Rank : s # r => Unmoved(s) /\ log'[s] = log[s]
<1>0. /\ LogInv /\ LogType /\ PlaceInv(r)
      /\ place \in [Rank -> (AnyPlace \ {"return"}) \union {"idle"}]
      /\ outcome \in [Rank -> Outcome] /\ handles \in [Rank -> Seq(Session)]
      /\ seen \in [Rank -> [names : SUBSET Name, tail : Nat, size : Nat]]
  BY RankParts DEF ControlInv, ControlType
<1>a. Busy(r) /\ Complete(r) /\ ~ MustAbort(r) /\ Target(r) = n /\ n # "return" /\ Enter(r, n, w)
  BY DEF Advance, Vote, Leaves, Busy
<1>1. /\ Busy(r) /\ Complete(r) /\ Target(r) = n
      /\ place' = [place EXCEPT ![r] = n]
      /\ outcome' = [outcome EXCEPT ![r] = IF @ = "none" THEN Error(r) ELSE @]
      /\ call' = call /\ result' = result /\ calls' = calls
      /\ \A s \in Rank : s # r => held'[s] = held[s]
      /\ handles' = IF Finishing(n) THEN [handles EXCEPT ![r] = PoisonView(r)] ELSE handles
      /\ seen' = [seen EXCEPT ![r] = IF n = "decode" THEN seen[Root]
                                     ELSE IF n = "report" /\ r = Root THEN Scanned ELSE @]
  BY DEF Advance, Vote, Leaves, Busy, Takes, Finishing
<1>2. n \in At(Op(r)) /\ n # "descriptor" /\ Fits(Op(r), n)
  BY <1>a, Targets
<1>3. n \in AnyPlace
  BY <1>2 DEF Fits
<1>4. n # "idle"
  BY <1>3 DEF AnyPlace, DetailPlace, NamePlace, ClosePlace, AcquirePlace, ScanPlace, CommitPlace
<1>5. place'[r] = n /\ outcome'[r] = Decided(r)
  BY <1>0, <1>1 DEF Decided
<1>6. /\ \A q \in Rank : q # r => log'[q] = log[q]
      /\ log'[r][1] = [turn |-> (Turn(r) + 1) % 4, place |-> n, word |-> w]
      /\ Len(log'[r]) = OneMore(Len(log[r]))
      /\ \A i \in 1..2 : i <= Len(log[r]) => log'[r][i + 1] = log[r][i]
  BY <1>0, <1>a, EnterLog
<1>7. Len(log[r]) >= 1 /\ Len(log[r]) \in 0..3
  BY <1>0, <1>1, TurnType DEF PlaceInv
<1>8. log'[r][2] = log[r][1]
  <2>1. log'[r][1 + 1] = log[r][1]
    BY <1>6, <1>7
  <2> QED BY <2>1
<1>9. Len(log'[r]) \in 2..3
  BY <1>6, <1>7 DEF OneMore
<1>10. log'[r][1].place = n /\ log'[r][1].word = w
  BY <1>6
<1>11. /\ Finishing(n) => handles'[r] = PoisonView(r)
       /\ ~ Finishing(n) => handles'[r] = handles[r]
  BY <1>0, <1>1
<1>12. /\ n = "decode" => seen'[r] = seen[Root]
       /\ n = "report" /\ r = Root => seen'[r] = Scanned
       /\ n # "decode" /\ ~ (n = "report" /\ r = Root) => seen'[r] = seen[r]
  BY <1>0, <1>1
<1>13. ASSUME NEW s \in Rank, s # r PROVE Unmoved(s) /\ log'[s] = log[s]
  <2>1. handles'[s] = handles[s]
    BY <1>0, <1>1, <1>13
  <2>2. seen'[s] = seen[s]
    BY <1>0, <1>1, <1>13
  <2>3. place'[s] = place[s] /\ outcome'[s] = outcome[s]
    BY <1>0, <1>1, <1>13
  <2> QED BY <1>1, <1>6, <1>13, <2>1, <2>2, <2>3 DEF Unmoved
<1> QED BY <1>a, <1>1, <1>2, <1>3, <1>4, <1>5, <1>8, <1>9, <1>10, <1>11, <1>12, <1>13

(* What leads to the first places, and to the scan. *)
LEMMA CameFrom ==
  ASSUME NEW o, NEW p, NEW n, Leads(o, p, n), Fits(o, p)
  PROVE  /\ n = "options" \/ n \in NamePlace => p \in {"descriptor", "options"}
         /\ p = "report" => n = "decode"
         /\ o \in OpenOp /\ n \in Identified => p \in Identified \/ (n = "info" /\ p = "identifier")
<1>1. n = "options" => p = "descriptor"
  BY DEF Leads, DetailPlace
<1>2. n \in NamePlace => p \in {"descriptor", "options"}
  <2>1. CASE n = "name"
    BY <2>1 DEF Leads, DetailPlace
  <2>2. CASE n = "collection name"
    BY <2>2 DEF Leads, DetailPlace
  <2> QED BY <2>1, <2>2 DEF NamePlace
<1>3. p = "report" => n = "decode"
  BY DEF Leads, DetailPlace, NamePlace
<1>4. ASSUME o \in OpenOp, n \in Identified PROVE p \in Identified \/ (n = "info" /\ p = "identifier")
  <2>1. o \notin PathOp /\ o \notin InSession /\ o \notin NewOp /\ o \notin WritingOp /\ o # "catalog"
        /\ o # "named_catalog" /\ o # "flush" /\ o # "read_named" /\ o # "write_named"
    BY <1>4 DEF OpenOp, PathOp, InSession, NewOp, WritingOp, AppendOp, Collection
  <2>2. n \notin DetailPlace \union {"identifier", "name", "collection name", "preparation"}
    BY <1>4 DEF Identified, DetailPlace, AcquirePlace, ScanPlace
  <2>3. n \notin {"return", "datatype free", "datatype", "catalog validation", "record", "metadata",
                  "allocation", "head", "payload view", "payload", "payload read", "payload flush",
                  "marker view", "marker", "marker flush", "staging", "view reset", "file close",
                  "communicator free", "cleanup", "operation datatype free", "commit", "options", "flush"}
    BY <1>4 DEF Identified, AcquirePlace, ScanPlace
  <2>4. CASE p \in NamePlace \union DetailPlace
    <3>1. p \notin {"descriptor", "options", "identifier", "info", "duplicate", "communicator handler",
                    "open", "file handler", "byte view", "size", "report", "decode", "record", "metadata",
                    "datatype", "container", "head", "header flush", "payload view", "payload",
                    "payload flush", "marker view", "marker", "payload read", "marker flush", "staging",
                    "catalog validation", "datatype free", "file close", "communicator free", "view reset",
                    "operation datatype free", "allocation", "flush", "cleanup", "commit"}
      BY <2>4 DEF NamePlace, DetailPlace
    <3> QED BY <1>4, <2>1, <2>2, <3>1 DEF Leads
  <2>5. CASE p \notin NamePlace \union DetailPlace
    <3>1. p \in {"identifier", "info", "duplicate", "communicator handler", "open", "file handler",
                 "byte view", "size", "report", "container", "head"}
      BY <2>1, <2>2, <2>3, <2>5, <1>4 DEF Leads, DetailPlace
    <3>2. p # "head"
      <4>1. p = "head" => o \in WritingOp
        BY DEF Fits, CommitPlace
      <4> QED BY <2>1, <4>1
    <3>3. p = "identifier" => n = "info"
      BY <2>5 DEF Leads
    <3> QED BY <3>1, <3>2, <3>3 DEF Identified, AcquirePlace, ScanPlace
  <2> QED BY <2>4, <2>5
<1> QED BY <1>1, <1>2, <1>3, <1>4

(* Opening a session that goes well does not close it. *)
LEMMA OpensOnly ==
  ASSUME NEW o \in OpenOp, NEW p, NEW n, Leads(o, p, n), Fits(o, p), p \notin ClosePlace
  PROVE  n \notin ClosePlace
<1>1. o \notin PathOp /\ o \notin InSession /\ o \notin WritingOp /\ o \notin ReadingOp /\ o # "named_catalog"
      /\ o # "flush" /\ o # "catalog"
  BY DEF OpenOp, PathOp, InSession, NewOp, WritingOp, ReadingOp, AppendOp, Collection
<1>2. p \notin {"marker flush", "staging", "catalog validation"}
  BY <1>1 DEF Fits, CommitPlace
<1>3. ASSUME n \in ClosePlace PROVE FALSE
  <2>1. n \notin DetailPlace \union {"identifier"}
    BY <1>3 DEF ClosePlace, DetailPlace
  <2>2. n \in {"datatype free", "file close", "communicator free"}
    BY <1>3 DEF ClosePlace
  <2>3. p \notin {"datatype free", "file close", "communicator free"}
    BY DEF ClosePlace
  <2> QED BY <1>1, <1>2, <2>1, <2>2, <2>3 DEF Leads, DetailPlace
<1> QED BY <1>3

LEMMA AdvancePlace ==
  ASSUME ControlInv, NEW r \in Rank, NEW n, NEW w, Advance(r, n, w)
  PROVE  PlaceInv(r)' /\ handles' \in [Rank -> Seq(Session)] /\ Len(handles'[r]) = Len(handles[r])
         /\ \A i \in 1..Len(handles[r]) : handles'[r][i].id = handles[r][i].id
<1>1. /\ Busy(r) /\ Complete(r) /\ Target(r) = n /\ n # "return" /\ call' = call
      /\ place'[r] = n /\ outcome'[r] = Decided(r)
      /\ n \in At(Op(r)) /\ Fits(Op(r), n) /\ n # "descriptor" /\ n # "idle"
      /\ log'[r][1].place = n /\ log'[r][1].word = w /\ Len(log'[r]) \in 2..3
      /\ Finishing(n) => handles'[r] = PoisonView(r)
      /\ ~ Finishing(n) => handles'[r] = handles[r]
  BY Advanced
<1>2. PlaceInv(r) /\ handles \in [Rank -> Seq(Session)] /\ Len(handles[r]) \in Nat
  BY RankParts DEF ControlInv, ControlType
<1>3. /\ Finishing(n) => Op(r) \in SessionOp
      /\ handles' = IF Finishing(n) THEN [handles EXCEPT ![r] = PoisonView(r)] ELSE handles
  BY <1>1 DEF Fits, InSession, SessionOp, Advance, Finishing
<1>4. /\ handles' \in [Rank -> Seq(Session)] /\ Len(handles'[r]) = Len(handles[r])
      /\ \A i \in 1..Len(handles[r]) : handles'[r][i].id = handles[r][i].id
  <2>1. CASE Finishing(n)
    <3>1. /\ PoisonView(r) \in Seq(Session) /\ Len(PoisonView(r)) = Len(handles[r])
          /\ \A i \in 1..Len(handles[r]) : PoisonView(r)[i].id = handles[r][i].id
      BY <1>1, <1>3, <2>1, PoisonType
    <3>2. handles'[r] = PoisonView(r) /\ handles' = [handles EXCEPT ![r] = PoisonView(r)]
      BY <1>1, <1>3, <2>1
    <3> QED BY <1>2, <3>1, <3>2
  <2>2. CASE ~ Finishing(n)
    <3>1. handles' = handles
      BY <1>3, <2>2
    <3> QED BY <1>2, <3>1
  <2> QED BY <2>1, <2>2
<1>5. Op(r)' = Op(r) /\ Busy(r)' /\ CallInv(r)
  BY <1>1, <1>2 DEF Op, Busy, PlaceInv
<1>6. CallInv(r)'
  BY <1>1, <1>4, <1>5 DEF CallInv
<1>7. n \in {"options"} \union NamePlace => held'[r] = {}
  <2>1. ASSUME n \in {"options"} \union NamePlace PROVE place[r] \in {"descriptor", "options"}
    <3>1. n \notin ExitPlace
      BY <2>1 DEF ExitPlace, NamePlace, ClosePlace
    <3>2. Decided(r) = "none" /\ Leads(Op(r), place[r], n)
      BY <1>1, <3>1, Targets
    <3>3. Fits(Op(r), place[r])
      BY <1>1, FitsPlace
    <3> QED BY <2>1, <3>2, <3>3, CameFrom
  <2>2. n \in Early => held'[r] = held[r]
    BY DEF Advance, Takes
  <2> QED BY <1>2, <2>1, <2>2 DEF PlaceInv, Early
<1>8. Own(r)'.place = n /\ Own(r)'.word = w /\ Len(log'[r]) >= 1
  <2>1. Own(r)' = log'[r][1]
    BY DEF Own
  <2>2. Own(r)'.place = n /\ Own(r)'.word = w
    BY <1>1, <2>1
  <2> QED BY <1>1, <2>2
<1>9. /\ n = "options" => w.about = Flags(r)'
      /\ n \in NamePlace => w.about = call'[r].name
  <2>1. n \in Early => w.about = About(r, n)
    BY DEF Advance
  <2>2. n = "options" => About(r, n) = Flags(r) /\ handles' = handles
    BY <1>3 DEF About, Finishing
  <2>3. n = "options" => Flags(r)' = Flags(r)
    BY <1>1, <1>5, <2>2 DEF Flags, Handle
  <2>4. n \in NamePlace => About(r, n) = call[r].name
    BY DEF About, NamePlace
  <2> QED BY <1>1, <2>1, <2>2, <2>3, <2>4 DEF Early
<1>10. outcome'[r] # "none" => n \in ExitPlace
  BY <1>1, Targets
<1>11. Len(handles'[r]) <= MaxSessions /\ Len(log'[r]) >= 2
  <2>1. Len(handles[r]) <= MaxSessions
    BY <1>2 DEF PlaceInv
  <2>2. Len(handles'[r]) <= MaxSessions
    BY <1>4, <2>1
  <2>3. Len(log'[r]) >= 2
    BY <1>1
  <2> QED BY <2>2, <2>3
<1>12. Op(r) \in OpenOp /\ n \in ClosePlace => outcome'[r] # "none"
  <2> SUFFICES ASSUME Op(r) \in OpenOp, n \in ClosePlace, Decided(r) = "none" PROVE FALSE
    BY <1>1
  <2>1. place[r] \notin ClosePlace
    BY <1>1, <1>2 DEF PlaceInv, Decided
  <2>2. Leads(Op(r), place[r], n) /\ Fits(Op(r), place[r])
    BY <1>1, Targets, FitsPlace
  <2> QED BY <2>1, <2>2, OpensOnly
<1>13. PlaceInv(r)'
  BY <1>1, <1>5, <1>6, <1>7, <1>8, <1>9, <1>10, <1>11, <1>12 DEF PlaceInv
<1> QED BY <1>4, <1>13

(* Words of a place stay words of it. *)
LEMMA EnterWords ==
  ASSUME LogInv, WordsFit, NEW r \in Rank, NEW n, NEW w, Enter(r, n, w), w.ok \in BOOLEAN,
         n = "report" => w.about \in Scanning
  PROVE  WordsFit'
<1> DEFINE Fit(e) == e.word.ok \in BOOLEAN /\ (e.place = "report" => e.word.about \in Scanning)
<1>0. LogType
  BY DEF LogInv
<1>1. /\ \A q \in Rank : q # r => log'[q] = log[q]
      /\ log'[r][1] = [turn |-> (Turn(r) + 1) % 4, place |-> n, word |-> w]
      /\ Len(log'[r]) = OneMore(Len(log[r]))
      /\ \A i \in 1..2 : i <= Len(log[r]) => log'[r][i + 1] = log[r][i]
  BY <1>0, EnterLog
<1>2. \A q \in Rank : \A i \in 1..Len(log[q]) : Fit(log[q][i])
  BY DEF WordsFit
<1>3. log'[r][1].word = w /\ log'[r][1].place = n
  BY <1>1
<1>4. Fit(log'[r][1])
  BY <1>3
<1> HIDE DEF Fit
<1>5. ASSUME NEW i \in 1..Len(log'[r]) PROVE Fit(log'[r][i])
  <2> DEFINE m == Len(log[r])
  <2>1. m \in 0..3
    BY <1>0, TurnType
  <2>2. i \in 1..OneMore(m)
    BY <1>1
  <2>3. CASE i = 1
    BY <1>4, <2>3
  <2>4. CASE i # 1
    <3>1. \A j \in 1..2 : j <= m => log'[r][j + 1] = log[r][j]
      BY <1>1
    <3>2. \A j \in 1..m : Fit(log[r][j])
      BY <1>2
    <3> HIDE DEF m
    <3>3. PICK j \in 1..2 : i = j + 1 /\ j <= m /\ j \in 1..m
      BY <2>1, <2>2, <2>4 DEF OneMore
    <3> QED BY <3>1, <3>2, <3>3
  <2> QED BY <2>3, <2>4
<1>6. ASSUME NEW q \in Rank PROVE \A i \in 1..Len(log'[q]) : Fit(log'[q][i])
  <2>1. CASE q = r
    BY <1>5, <2>1
  <2>2. CASE q # r
    BY <1>1, <1>2, <2>2
  <2> QED BY <2>1, <2>2
<1> QED BY <1>6 DEF WordsFit, Fit

(* The root and r know the same sessions when it gave r an identifier. *)
LEMMA RootBelow ==
  ASSUME ControlInv, NEW r \in Rank, NEW n, NEW w, Advance(r, n, w), Op(r) \in OpenOp, Decided(r) = "none",
         n = "info", place[r] = "identifier"
  PROVE  Below(r)
<1>1. /\ Busy(r) /\ Complete(r) /\ ~ MustAbort(r) /\ Target(r) = n /\ n # "return"
  BY Advanced
<1>2. LogInv /\ LogType /\ Root \in Rank /\ IdInv(Root) /\ IdInv(r) /\ outcome[r] = "none" /\ PlaceInv(Root)
  BY RankParts, ContainerAssumption DEF Decided
<1>3. WordOf(Root, r).ok
  <2>1. Error(r) = "none"
    BY <1>2 DEF Decided
  <2>2. AgreedWords(Words(r))
    BY <2>1 DEF Error, Refusal
  <2> QED BY <1>2, <2>2 DEF AgreedWords, Words
<1>4. Ahead(Root, r) \in {0, 1}
  BY <1>1, <1>2 DEF Complete
<1>5. CASE Ahead(Root, r) = 0
  <2>1. Same(r, Root)
    BY <1>2, <1>5 DEF ControlInv, InStep
  <2>2. Busy(Root)
    BY <1>1, <2>1 DEF Same, Leaving
  <2>3. Abreast(r, Root)
    BY <1>1, <2>1, <2>2 DEF Same
  <2>4. /\ place[Root] = "identifier" /\ outcome[Root] = "none" /\ handles[Root] = handles[r]
        /\ Op(Root) = Op(r)
    BY <1>2, <2>3 DEF Abreast, Alike
  <2>5. Own(Root).word.ok
    BY <1>3, <1>5 DEF WordOf, Own
  <2>6. Below(Root)
    BY <1>2, <2>2, <2>4, <2>5 DEF IdInv
  <2> QED BY <2>4, <2>6 DEF Below
<1>6. CASE Ahead(Root, r) = 1
  <2>1. Lead(Root, r)
    BY <1>2, <1>6 DEF ControlInv, InStep
  <2>2. Busy(Root) /\ Further(Root, r)
    BY <1>1, <2>1 DEF Lead
  <2>3. place[Root] = "info" /\ outcome[Root] = "none" /\ Op(r) = Op(Root)
    BY <1>1, <2>2 DEF Further, Alike
  <2>4. handles[Root] = handles[r]
    BY <2>2, <2>3 DEF Further
  <2>5. "info" \in Identified
    BY DEF Identified
  <2>6. Below(Root)
    BY <1>2, <2>2, <2>3, <2>5 DEF IdInv
  <2> QED BY <2>4, <2>6 DEF Below
<1> QED BY <1>4, <1>5, <1>6

LEMMA AdvanceId ==
  ASSUME ControlInv, NEW r \in Rank, NEW n, NEW w, Advance(r, n, w), NEW s \in Rank
  PROVE  IdInv(s)'
<1>1. /\ Busy(r) /\ Complete(r) /\ Target(r) = n /\ call' = call
      /\ place'[r] = n /\ outcome'[r] = Decided(r)
      /\ log'[r][1].word = w /\ (~ Finishing(n) => handles'[r] = handles[r])
      /\ \A q \in Rank : q # r => Unmoved(q) /\ log'[q] = log[q]
  BY Advanced
<1>2. IdInv(s) /\ IdInv(r) /\ PlaceInv(r) /\ nextId \in Nat /\ handles[s] \in Seq(Session) /\ handles[r] \in Seq(Session)
  BY RankParts
<1>3. /\ Len(handles'[r]) = Len(handles[r])
      /\ \A i \in 1..Len(handles[r]) : handles'[r][i].id = handles[r][i].id
  BY AdvancePlace
<1>4. /\ nextId' \in Nat /\ nextId <= nextId'
      /\ n = "identifier" /\ r = Root /\ w.ok => nextId' = nextId + 1
  <2>1. nextId' = IF n = "identifier" /\ r = Root /\ w.ok THEN nextId + 1 ELSE nextId
    BY DEF Advance
  <2> QED BY <1>2, <2>1
<1>5. ASSUME NEW q \in Rank PROVE \A i \in 1..Len(handles[q]) : handles[q][i].id \in Nat
  <2>1. handles[q] \in Seq(Session)
    BY RankParts
  <2>2. \A i \in 1..Len(handles[q]) : handles[q][i] \in Session
    BY <2>1
  <2> QED BY <2>2 DEF Session
<1>6. CASE s # r
  <2>1. place'[s] = place[s] /\ outcome'[s] = outcome[s] /\ handles'[s] = handles[s] /\ log'[s] = log[s]
        /\ call'[s] = call[s]
    BY <1>1, <1>6 DEF Unmoved
  <2>2. Op(s)' = Op(s) /\ Own(s)' = Own(s) /\ (Busy(s)' <=> Busy(s))
    BY <2>1 DEF Op, Own, Busy
  <2>3. Below(s) => Below(s)'
    BY <1>2, <1>4, <1>5, <2>1 DEF Below
  <2>4. \A i \in 1..Len(handles[s]) : handles[s][i].id <= nextId
    BY <1>2 DEF IdInv
  <2>5. ASSUME NEW i \in 1..Len(handles'[s]) PROVE handles'[s][i].id <= nextId'
    <3>1. i \in 1..Len(handles[s]) /\ handles'[s][i].id = handles[s][i].id
      BY <2>1
    <3>2. handles[s][i].id \in Nat /\ handles[s][i].id <= nextId
      BY <1>5, <2>4, <3>1
    <3> QED BY <1>2, <1>4, <3>1, <3>2
  <2> QED BY <1>2, <2>1, <2>2, <2>3, <2>5 DEF IdInv
<1>7. CASE s = r
  <2>1. \A i \in 1..Len(handles[r]) : handles[r][i].id <= nextId
    BY <1>2 DEF IdInv
  <2>2. ASSUME NEW i \in 1..Len(handles'[r]) PROVE handles'[r][i].id <= nextId'
    <3>1. i \in 1..Len(handles[r])
      BY <1>3
    <3>2. /\ handles'[r][i].id = handles[r][i].id
          /\ handles[r][i].id \in Nat /\ handles[r][i].id <= nextId
      BY <1>3, <1>5, <2>1, <3>1
    <3> QED BY <1>2, <1>4, <3>2
  <2>3. \A i, j \in 1..Len(handles'[r]) : handles'[r][i].id = handles'[r][j].id => i = j
    BY <1>2, <1>3 DEF IdInv
  <2>4. Op(r)' = Op(r) /\ Own(r)'.word = w
    <3>1. Own(r)' = log'[r][1]
      BY DEF Own
    <3> QED BY <1>1, <3>1 DEF Op
  <2>5. Below(r) /\ handles'[r] = handles[r] => Below(r)'
    BY <1>2, <1>4, <1>5 DEF Below
  <2>6. ASSUME Op(r) \in OpenOp, Decided(r) = "none", n \in Identified PROVE Below(r)'
    <3>1. n \notin ExitPlace \union {"return", "operation datatype free"}
      BY <2>6 DEF Identified, ExitPlace, ClosePlace, AcquirePlace, ScanPlace
    <3>2. Leads(Op(r), place[r], n) /\ Fits(Op(r), place[r])
      BY <1>1, <2>6, <3>1, Targets, FitsPlace
    <3>3. place[r] \in Identified \/ (n = "info" /\ place[r] = "identifier")
      BY <2>6, <3>2, CameFrom
    <3>4. outcome[r] = "none"
      BY <2>6 DEF Decided
    <3>5. Below(r)
      BY <1>1, <1>2, <2>6, <3>3, <3>4, RootBelow DEF IdInv
    <3>6. handles'[r] = handles[r]
      BY <1>1, <3>1 DEF Finishing
    <3> QED BY <2>5, <3>5, <3>6
  <2>7. ASSUME n = "identifier", w.ok, r = Root PROVE Below(r)'
    <3>1. handles'[r] = handles[r]
      BY <1>1, <2>7 DEF Finishing
    <3>2. nextId' = nextId + 1
      BY <1>4, <2>7
    <3> QED BY <1>2, <1>5, <2>1, <3>1, <3>2 DEF Below
  <2> QED BY <1>1, <1>7, <2>2, <2>3, <2>4, <2>6, <2>7 DEF IdInv
<1> QED BY <1>6, <1>7

(* What the other ranks at a complete reduction will do. *)
LEMMA OthersKeep ==
  ASSUME ControlInv, NEW r \in Rank, NEW n, NEW w, Advance(r, n, w),
         NEW s \in Rank, s # r, Busy(s), Complete(s)
  PROVE  /\ Complete(s)' /\ Ahead(s, r) = 0
         /\ MustAbort(s)' <=> MustAbort(s)
         /\ Decided(s)' = Decided(s) /\ Returning(s)' = Returning(s) /\ Target(s)' = Target(s)
         /\ Kept(s)' = Kept(s) /\ PoisonView(s)' = PoisonView(s)
         /\ ~ MustAbort(s) /\ Target(s) = n
<1>1. /\ Busy(r) /\ Complete(r) /\ ~ MustAbort(r) /\ Target(r) = n /\ n # "return" /\ Enter(r, n, w)
      /\ Unmoved(s)
  BY Advanced
<1>2. LogInv /\ LogType /\ PlaceInv(s)
  BY RankParts
<1>3. SameWords(s) /\ Complete(s)'
  <2>1. Len(log[s]) >= 1
    BY <1>2 DEF PlaceInv
  <2> QED BY <1>1, <1>2, <2>1, FrameWords
<1>4. Ahead(s, r) = 0
  BY <1>1, <1>2, BothComplete
<1>5. ~ MustAbort(s) /\ Target(s) = n
  BY <1>1, <1>4, DecideAlike, GoAlike
<1> QED BY <1>1, <1>3, <1>4, <1>5, Frame

LEMMA AlikeBoth ==
  ASSUME NEW p, NEW q, NEW x, x # "descriptor", Alike(p, q, x)
  PROVE  Alike(q, p, x) /\ Op(p) = Op(q)
BY DEF Alike

LEMMA AlikeKept ==
  ASSUME NEW p, NEW q, NEW x, call'[p] = call[p], call'[q] = call[q], Alike(p, q, x)
  PROVE  Alike(p, q, x)'
<1>1. Op(p)' = Op(p) /\ Op(q)' = Op(q)
  BY DEF Op
<1> QED BY <1>1 DEF Alike

(* Only an acquisition depends on its own word. *)
LEMMA KeepingDiffers ==
  ASSUME NEW kept, NEW n, NEW a, NEW b, Keeping(kept, n, a) # Keeping(kept, n, b), a \in BOOLEAN, b \in BOOLEAN
  PROVE  n \in StatePlace /\ a # b
<1>1. n \notin StatePlace => Keeping(kept, n, a) = Keeping(kept, n, b)
  BY DEF Keeping, StatePlace
<1>2. a # b
  OBVIOUS
<1> QED BY <1>1, <1>2

(* A rank that was one ahead is abreast of r now. *)
LEMMA CaughtUp ==
  ASSUME ControlInv, NEW r \in Rank, NEW n, NEW w, Advance(r, n, w), NEW q \in Rank, q # r, Ahead(q, r) = 1
  PROVE  Same(r, q)' /\ Same(q, r)'
<1>1. /\ Busy(r) /\ Complete(r) /\ Target(r) = n /\ n # "return" /\ n # "descriptor" /\ n # "idle"
      /\ call' = call /\ calls' = calls /\ place'[r] = n /\ outcome'[r] = Decided(r)
      /\ log'[r][1].word = w /\ Unmoved(q) /\ log'[q] = log[q]
      /\ (Finishing(n) => handles'[r] = PoisonView(r)) /\ (~ Finishing(n) => handles'[r] = handles[r])
      /\ (n = "decode" => seen'[r] = seen[Root])
      /\ (n # "decode" /\ ~ (n = "report" /\ r = Root) => seen'[r] = seen[r])
  BY Advanced
<1>2. Lead(q, r)
  BY DEF ControlInv, InStep
<1>3. Busy(q) /\ Further(q, r)
  BY <1>1, <1>2 DEF Lead
<1>4. /\ calls[q] = calls[r] /\ place[q] = n /\ outcome[q] = Decided(r)
      /\ Alike(r, q, n)
      /\ Kept(q) = Keeping(Kept(r), n, Own(q).word.ok)
      /\ outcome[q] = "none" /\ n # "report" =>
           seen[q] = IF n = "decode" THEN seen[Root] ELSE seen[r]
  BY <1>1, <1>3 DEF Further
<1>5. handles'[r] = handles[q]
  <2>1. handles[q] = IF Finishing(n) THEN PoisonView(r) ELSE handles[r]
    BY <1>3, <1>4 DEF Further, Finishing
  <2> QED BY <1>1, <2>1
<1>6. /\ place'[q] = n /\ outcome'[q] = outcome[q] /\ handles'[q] = handles[q] /\ held'[q] = held[q]
      /\ seen'[q] = seen[q] /\ calls'[q] = calls[q]
  BY <1>1, <1>4 DEF Unmoved
<1>7. Busy(r)' /\ Busy(q)'
  BY <1>1, <1>6 DEF Busy
<1>8. Kept(q)' = Kept(q) /\ Own(q)' = Own(q) /\ Own(r)' = log'[r][1]
  BY <1>1, <1>6 DEF Kept, Own
<1>9. ASSUME Kept(r)' # Kept(q)' PROVE n \in StatePlace /\ Own(r)'.word.ok # Own(q)'.word.ok
  <2>1. Kept(r)' = Keeping(Kept(r), n, w.ok) /\ w.ok \in BOOLEAN
    BY DEF Advance, Takes
  <2>2. Own(q).word.ok \in BOOLEAN
    <3>1. PlaceInv(q) /\ LogType
      BY RankParts
    <3>2. Len(log[q]) >= 1 /\ Len(log[q]) \in Nat
      BY <1>3, <3>1, TurnType DEF PlaceInv
    <3>3. 1 \in 1..Len(log[q])
      BY <3>2
    <3> QED BY <3>3 DEF ControlInv, WordsFit, Own
  <2>3. n \in StatePlace /\ w.ok # Own(q).word.ok
    BY <1>4, <1>8, <1>9, <2>1, <2>2, KeepingDiffers
  <2>4. Own(r)'.word = w
    BY <1>1, <1>8
  <2> QED BY <1>8, <2>3, <2>4
<1>10. outcome'[r] = "none" /\ n # "report" => seen'[r] = seen'[q]
  BY <1>1, <1>4, <1>6
<1>11. Alike(r, q, n)' /\ Alike(q, r, n)'
  BY <1>1, <1>4, AlikeBoth, AlikeKept
<1>12. Abreast(r, q)' /\ Abreast(q, r)'
  <2>1. place'[r] = n /\ place'[q] = n /\ outcome'[r] = outcome'[q] /\ handles'[r] = handles'[q]
    BY <1>1, <1>4, <1>5, <1>6
  <2> QED BY <1>9, <1>10, <1>11, <2>1 DEF Abreast
<1>13. calls'[r] = calls'[q]
  BY <1>1, <1>4
<1> QED BY <1>7, <1>12, <1>13 DEF Same

(* A rank that was abreast of r is one behind it now. *)
LEMMA FellBehind ==
  ASSUME ControlInv, NEW r \in Rank, NEW n, NEW w, Advance(r, n, w), NEW q \in Rank, q # r, Ahead(q, r) = 0
  PROVE  Lead(r, q)'
<1>1. /\ Busy(r) /\ Complete(r) /\ ~ MustAbort(r) /\ Target(r) = n /\ n # "return" /\ n # "descriptor" /\ n # "idle"
      /\ call' = call /\ calls' = calls /\ place'[r] = n /\ outcome'[r] = Decided(r)
      /\ log'[r][1].word = w /\ Unmoved(q)
      /\ (Finishing(n) => handles'[r] = PoisonView(r)) /\ (~ Finishing(n) => handles'[r] = handles[r])
      /\ (n = "decode" => seen'[r] = seen[Root])
      /\ (n # "decode" /\ ~ (n = "report" /\ r = Root) => seen'[r] = seen[r])
  BY Advanced
<1>2. LogType /\ Root \in Rank
  BY RankParts, ContainerAssumption
<1>3. Same(r, q) /\ Busy(q)
  <2>1. Same(r, q)
    BY DEF ControlInv, InStep
  <2> QED BY <1>1, <2>1 DEF Same, Leaving
<1>4. /\ Complete(q) /\ Decided(q) = Decided(r) /\ Target(q) = n /\ handles[q] = handles[r] /\ Kept(q) = Kept(r)
      /\ Alike(q, r, n) /\ (Finishing(n) => PoisonView(q) = PoisonView(r))
      /\ (Decided(r) = "none" /\ place[r] # "report" => seen[r] = seen[q])
  <2>1. Complete(q) /\ Decided(q) = Decided(r) /\ handles[q] = handles[r]
    BY <1>1, <1>3, DecideAlike
  <2>2. Target(q) = n /\ Kept(q) = Kept(r)
    BY <1>1, <1>3, GoAlike, Zenon
  <2>3. Alike(q, r, n)
    BY <1>1, <1>3, GoAlike, Zenon
  <2>4. Finishing(n) => PoisonView(q) = PoisonView(r)
    BY <1>1, <1>3, GoAlike, Zenon DEF Finishing
  <2>5. Decided(r) = "none" /\ place[r] # "report" => seen[r] = seen[q]
    BY <1>1, <1>3, GoAlike, Zenon
  <2> QED BY <2>1, <2>2, <2>3, <2>4, <2>5
<1>5. /\ ~ MustAbort(q)' /\ Decided(q)' = Decided(q) /\ Target(q)' = Target(q)
      /\ Kept(q)' = Kept(q) /\ PoisonView(q)' = PoisonView(q)
  BY <1>3, <1>4, OthersKeep
<1>6. Busy(r)' /\ Busy(q)' /\ place'[q] = place[q] /\ handles'[q] = handles[q] /\ seen'[q] = seen[q]
  BY <1>1, <1>3 DEF Busy, Unmoved
<1>7. handles'[r] = IF Finishing(n) THEN PoisonView(q)' ELSE handles'[q]
  BY <1>1, <1>4, <1>5, <1>6
<1>8. Alike(q, r, n)'
  BY <1>1, <1>4, AlikeKept
<1>9. Kept(r)' = Keeping(Kept(q)', n, Own(r)'.word.ok)
  <2>1. Kept(r)' = Keeping(Kept(r), n, w.ok)
    BY DEF Advance, Takes
  <2>2. Own(r)'.word = w
    <3>1. Own(r)' = log'[r][1]
      BY DEF Own
    <3> QED BY <1>1, <3>1
  <2> QED BY <1>4, <1>5, <2>1, <2>2
<1>10. ASSUME outcome'[r] = "none", n # "report"
       PROVE  seen'[r] = IF n = "decode" THEN seen'[Root] ELSE seen'[q]
  <2>1. CASE n = "decode"
    <3>1. seen'[Root] = seen[Root]
      <4>1. CASE Root = r
        BY <1>1, <2>1, <4>1
      <4>2. CASE Root # r
        <5>1. Unmoved(Root)
          BY <1>2, <4>2, Advanced
        <5> QED BY <5>1 DEF Unmoved
      <4> QED BY <4>1, <4>2
    <3> QED BY <1>1, <2>1, <3>1
  <2>2. CASE n # "decode"
    <3>1. place[r] # "report"
      <4>2. place[r] = "report" => Leads(Op(r), "report", n)
        BY <1>1, <1>10, Targets
      <4>3. Leads(Op(r), "report", n) => n = "decode"
        BY DEF Leads, DetailPlace, NamePlace
      <4> QED BY <2>2, <4>2, <4>3
    <3>2. seen[r] = seen[q]
      BY <1>1, <1>4, <1>10, <3>1
    <3> QED BY <1>1, <1>6, <1>10, <2>2, <3>2
  <2> QED BY <2>1, <2>2
<1>11. calls'[r] = calls'[q]
  BY <1>1, <1>3 DEF Same
<1>12. Further(r, q)'
  <2>1. /\ calls'[r] = calls'[q] /\ place'[r] = n /\ Target(q)' = n /\ outcome'[r] = Decided(q)'
        /\ Alike(q, r, n)' /\ Kept(r)' = Keeping(Kept(q)', n, Own(r)'.word.ok)
    BY <1>1, <1>4, <1>5, <1>8, <1>9, <1>11
  <2>2. handles'[r] = IF n = "operation datatype free" THEN PoisonView(q)' ELSE handles'[q]
    BY <1>7 DEF Finishing
  <2> QED BY <1>10, <2>1, <2>2 DEF Further
<1>13. Target(q)' # "return"
  BY <1>1, <1>4, <1>5
<1> QED BY <1>5, <1>6, <1>12, <1>13 DEF Lead

(* Ranks about which nothing changes stay in step. *)
LEMMA PairStays ==
  ASSUME ControlInv, NEW p \in Rank, NEW q \in Rank, Unmoved(p), Unmoved(q),
         log'[p] = log[p], log'[q] = log[q], Ahead(q, p)' = Ahead(q, p),
         Busy(p) /\ Complete(p) =>
           /\ SameWords(p)
           /\ Target(p) = "return" => nextId' = nextId
           /\ Target(p) = "decode" => seen'[Root] = seen[Root]
  PROVE  PairInStep(p, q)'
<1>1. /\ LogInv /\ LogType /\ PlaceInv(p) /\ PlaceInv(q)
      /\ (Ahead(q, p) = 0 => Same(p, q)) /\ (Ahead(q, p) = 1 => Lead(q, p))
  BY RankParts DEF ControlInv, InStep
<1>2. /\ place'[p] = place[p] /\ call'[p] = call[p] /\ outcome'[p] = outcome[p] /\ result'[p] = result[p]
      /\ held'[p] = held[p] /\ handles'[p] = handles[p] /\ seen'[p] = seen[p] /\ calls'[p] = calls[p]
      /\ Unmoved(p)
  BY DEF Unmoved
<1>3. /\ place'[q] = place[q] /\ call'[q] = call[q] /\ outcome'[q] = outcome[q] /\ result'[q] = result[q]
      /\ held'[q] = held[q] /\ handles'[q] = handles[q] /\ seen'[q] = seen[q] /\ calls'[q] = calls[q]
  BY DEF Unmoved
<1>5. /\ Busy(p)' <=> Busy(p)
      /\ Busy(q)' <=> Busy(q)
      /\ Kept(p)' = Kept(p) /\ Kept(q)' = Kept(q) /\ Own(p)' = Own(p) /\ Own(q)' = Own(q)
  BY <1>2, <1>3 DEF Busy, Kept, Own
<1>6. ASSUME Busy(p), Complete(p)
      PROVE  /\ MustAbort(p)' <=> MustAbort(p)
             /\ Decided(p)' = Decided(p) /\ Returning(p)' = Returning(p) /\ Target(p)' = Target(p)
             /\ PoisonView(p)' = PoisonView(p)
             /\ Target(p) = "return" => HandlesAfter(p, Returning(p))' = HandlesAfter(p, Returning(p))
  BY <1>2, <1>6, Frame
<1>7. ASSUME Ahead(q, p) = 0 PROVE Same(p, q)'
  <2>1. Same(p, q) /\ calls'[p] = calls'[q]
    BY <1>1, <1>2, <1>3, <1>7 DEF Same
  <2>2. ASSUME Busy(p), Busy(q) PROVE Abreast(p, q)'
    <3>1. Abreast(p, q)
      BY <2>1, <2>2 DEF Same
    <3>2. Alike(p, q, place[p])
      BY <3>1 DEF Abreast
    <3>3. Alike(p, q, place[p])'
      BY <1>2, <1>3, <3>2 DEF Alike, Op
    <3> QED BY <1>2, <1>3, <1>5, <3>1, <3>3 DEF Abreast
  <2>3. ASSUME Busy(p), ~ Busy(q) PROVE Leaving(p, q)'
    <3>1. Leaving(p, q)
      BY <2>1, <2>3 DEF Same
    <3>2. Complete(p)
      <4>1. Complete(q)
        BY <1>1, <2>3 DEF PlaceInv
      <4> QED BY <1>1, <1>7, <4>1, SameTurn
    <3> QED BY <1>3, <1>6, <2>3, <3>1, <3>2 DEF Leaving
  <2>4. ~ Busy(p) /\ ~ Busy(q) => result'[p] = result'[q] /\ handles'[p] = handles'[q]
    BY <1>2, <1>3, <2>1 DEF Same
  <2> QED BY <1>5, <2>1, <2>2, <2>3, <2>4 DEF Same
<1>8. ASSUME Ahead(q, p) = 1 PROVE Lead(q, p)'
  <2>1. Lead(q, p) /\ Complete(p)
    BY <1>1, <1>8, LedIsComplete
  <2>2. Busy(q)' /\ (Busy(p)' => ~ MustAbort(p)')
    BY <1>5, <1>6, <2>1 DEF Lead
  <2>3. ASSUME Busy(p), Target(p) # "return" PROVE Further(q, p)'
    <3>1. Further(q, p)
      BY <2>1, <2>3 DEF Lead
    <3>2. /\ calls[q] = calls[p] /\ place[q] = Target(p) /\ outcome[q] = Decided(p)
          /\ handles[q] = IF Finishing(place[q]) THEN PoisonView(p) ELSE handles[p]
          /\ Alike(p, q, place[q])
          /\ Kept(q) = Keeping(Kept(p), place[q], Own(q).word.ok)
          /\ outcome[q] = "none" /\ place[q] # "report" =>
               seen[q] = IF place[q] = "decode" THEN seen[Root] ELSE seen[p]
      BY <3>1 DEF Further, Finishing
    <3>3. (Target(p) = "decode" => seen'[Root] = seen[Root]) /\ Decided(p)' = Decided(p) /\ Target(p)' = Target(p)
          /\ PoisonView(p)' = PoisonView(p)
      BY <1>6, <2>1, <2>3
    <3>4. Alike(p, q, place[q])'
      BY <1>2, <1>3, <3>2 DEF Alike, Op
    <3>5. handles'[q] = IF Finishing(place'[q]) THEN PoisonView(p)' ELSE handles'[p]
      BY <1>2, <1>3, <3>2, <3>3
    <3>6. /\ calls'[q] = calls'[p] /\ place'[q] = Target(p)' /\ outcome'[q] = Decided(p)'
          /\ Kept(q)' = Keeping(Kept(p)', place'[q], Own(q)'.word.ok)
          /\ outcome'[q] = "none" /\ place'[q] # "report" =>
               seen'[q] = IF place'[q] = "decode" THEN seen'[Root] ELSE seen'[p]
      BY <1>2, <1>3, <1>5, <3>2, <3>3
    <3> QED BY <3>4, <3>5, <3>6 DEF Further, Finishing
  <2>4. ASSUME ~ (Busy(p) /\ Target(p) # "return") PROVE Again(q, p)'
    <3>1. Again(q, p)
      BY <2>1, <2>4 DEF Lead
    <3> QED BY <1>2, <1>3, <1>5, <1>6, <2>1, <2>4, <3>1 DEF Again
  <2>5. Busy(p) => Target(p)' = Target(p)
    BY <1>6, <2>1
  <2> QED BY <1>5, <2>2, <2>3, <2>4, <2>5 DEF Lead
<1> QED BY <1>7, <1>8 DEF PairInStep

(* So do the others when a rank enters a reduction. *)
LEMMA OthersInStep ==
  ASSUME ControlInv, NEW r \in Rank, NEW n, NEW w, Enter(r, n, w), Complete(r),
         \A s \in Rank : s # r => Unmoved(s),
         NEW p \in Rank, NEW q \in Rank, p # r, q # r,
         Busy(p) /\ Complete(p) =>
           /\ Target(p) = "return" => nextId' = nextId
           /\ Target(p) = "decode" => seen'[Root] = seen[Root]
  PROVE  PairInStep(p, q)'
<1>1. LogInv /\ LogType /\ PlaceInv(p)
  BY RankParts
<1>2. log'[p] = log[p] /\ log'[q] = log[q] /\ Ahead(q, p)' = Ahead(q, p)
  BY <1>1, EnterLog, EnterAhead
<1>3. ASSUME Busy(p), Complete(p) PROVE SameWords(p)
  <2>1. Len(log[p]) >= 1
    BY <1>1, <1>3 DEF PlaceInv
  <2> QED BY <1>1, <1>3, <2>1, FrameWords
<1> QED BY <1>2, <1>3, PairStays

LEMMA AdvanceInStep ==
  ASSUME ControlInv, NEW r \in Rank, NEW n, NEW w, Advance(r, n, w)
  PROVE  InStep'
<1>1. /\ Busy(r) /\ Complete(r) /\ Target(r) = n /\ n # "return" /\ n # "idle" /\ Enter(r, n, w)
      /\ place'[r] = n
      /\ \A s \in Rank : s # r => Unmoved(s)
      /\ (n = "decode" => seen'[r] = seen[Root])
  BY Advanced
<1>2. LogInv /\ LogType /\ Root \in Rank
  BY RankParts, ContainerAssumption
<1>3. ASSUME NEW q \in Rank, q # r PROVE PairInStep(r, q)' /\ PairInStep(q, r)'
  <2>1. /\ Ahead(q, r)' = (Ahead(q, r) + 3) % 4 /\ Ahead(r, q)' = (Ahead(r, q) + 1) % 4
    BY <1>1, <1>2, <1>3, EnterAhead
  <2>2. Ahead(q, r) \in {0, 1}
    BY <1>1 DEF Complete
  <2>3. /\ Ahead(q, r) = 0 => Ahead(r, q) = 0
        /\ Ahead(q, r) = 1 => Ahead(r, q) = 3
    BY <1>2, AheadType
  <2>4. CASE Ahead(q, r) = 0
    <3>1. Ahead(q, r)' = 3 /\ Ahead(r, q)' = 1
      BY <2>1, <2>3, <2>4
    <3>2. Lead(r, q)'
      BY <1>3, <2>4, FellBehind
    <3> QED BY <3>1, <3>2 DEF PairInStep
  <2>5. CASE Ahead(q, r) = 1
    <3>1. Ahead(q, r)' = 0 /\ Ahead(r, q)' = 0
      BY <2>1, <2>3, <2>5
    <3>2. Same(r, q)' /\ Same(q, r)'
      BY <1>3, <2>5, CaughtUp
    <3> QED BY <3>1, <3>2 DEF PairInStep
  <2> QED BY <2>2, <2>4, <2>5
<1>4. PairInStep(r, r)'
  <2>1. LogInv'
    BY <1>1, <1>2, EnterClose
  <2>2. Turn(r)' \in 0..3
    BY <2>1 DEF LogInv, LogType
  <2>3. Ahead(r, r)' = 0
    BY <2>2 DEF Ahead
  <2>4. Busy(r)'
    BY <1>1 DEF Busy
  <2>5. Alike(r, r, place[r])'
    BY DEF Alike
  <2>6. Same(r, r)'
    BY <2>4, <2>5 DEF Same, Abreast
  <2> QED BY <2>3, <2>6 DEF PairInStep
<1>5. ASSUME NEW p \in Rank, NEW q \in Rank, p # r, q # r PROVE PairInStep(p, q)'
  <2>1. ASSUME Busy(p), Complete(p) PROVE Target(p) # "return" /\ (Target(p) = "decode" => seen'[Root] = seen[Root])
    <3>1. Target(p) = n
      BY <1>5, <2>1, OthersKeep
    <3>2. r # Root => seen'[Root] = seen[Root]
      BY <1>1, <1>2 DEF Unmoved
    <3> QED BY <1>1, <3>1, <3>2
  <2> QED BY <1>1, <1>5, <2>1, OthersInStep
<1> QED BY <1>3, <1>4, <1>5 DEF InStep, PairInStep

LEMMA ReportType ==
  ASSUME NEW r
  PROVE  Report(r) \in Scanning /\ About(r, "report") = Report(r)
<1>1. \A limit : ScanError(limit) \in Scanning
  BY DEF ScanError, Scanning
<1>2. Report(r) \in Scanning
  BY <1>1 DEF Report, Scanning
<1> QED BY <1>2 DEF About

(* Nothing about a rank changes that does not depend on others. *)
LEMMA PlaceStays ==
  ASSUME NEW s, PlaceInv(s), place'[s] = place[s], call'[s] = call[s], outcome'[s] = outcome[s],
         held'[s] = held[s], handles'[s] = handles[s], seen'[s] = seen[s],
         log'[s] = log[s], ~ Busy(s) => Complete(s)'
  PROVE  PlaceInv(s)'
<1>1. Op(s)' = Op(s) /\ (Busy(s)' <=> Busy(s)) /\ Own(s)' = Own(s)
  BY DEF Op, Busy, Own
<1>2. Flags(s)' = Flags(s)
  BY <1>1 DEF Flags, Handle
<1>3. CallInv(s)' <=> CallInv(s)
  BY <1>1 DEF CallInv
<1> QED BY <1>1, <1>2, <1>3 DEF PlaceInv

LEMMA AdvanceControl ==
  ASSUME ControlInv, file \in Seq(Record), NEW r \in Rank, NEW n, NEW w, Advance(r, n, w)
  PROVE  ControlInv'
<1>1. /\ Busy(r) /\ Complete(r) /\ Target(r) = n /\ n # "return" /\ Enter(r, n, w) /\ n \in AnyPlace
      /\ call' = call /\ result' = result /\ calls' = calls /\ place' = [place EXCEPT ![r] = n]
      /\ outcome'[r] = Decided(r)
      /\ \A s \in Rank : s # r => Unmoved(s) /\ log'[s] = log[s]
  BY Advanced
<1>2. LogInv /\ LogType /\ LogsMatch /\ WordsFit /\ ControlType
  BY DEF ControlInv, LogInv
<1>3. LogInv'
  BY <1>1, <1>2, EnterClose
<1>4. LogsMatch'
  <2>1. ASSUME NEW q \in Rank, Ahead(q, r) = 1 PROVE Own(q).place = n
    <3>1. Lead(q, r)
      BY <2>1 DEF ControlInv, InStep
    <3>2. Busy(q) /\ Further(q, r)
      BY <1>1, <3>1 DEF Lead
    <3>3. place[q] = n
      BY <1>1, <3>2 DEF Further
    <3> QED BY <3>2, <3>3, RankParts DEF PlaceInv
  <2> QED BY <1>1, <1>2, <2>1, EnterMatch
<1>5. WordsFit'
  <2>1. w.ok \in BOOLEAN /\ (n = "report" => w.about = About(r, n))
    BY DEF Advance
  <2>2. n = "report" => w.about \in Scanning
    BY <2>1, ReportType
  <2> QED BY <1>1, <1>2, <2>1, <2>2, EnterWords
<1>6. ControlType'
  <2>1. held' \in [Rank -> SUBSET {"communicator", "file", "datatype"}]
    BY DEF Advance, Takes, Native
  <2>2. handles' \in [Rank -> Seq(Session)]
    BY AdvancePlace
  <2>3. outcome' \in [Rank -> Outcome]
    <3>1. Decided(r) \in Outcome
      BY <1>1, ErrorType
    <3>2. outcome' = [outcome EXCEPT ![r] = IF @ = "none" THEN Error(r) ELSE @]
      BY DEF Advance, Vote
    <3>3. outcome' = [outcome EXCEPT ![r] = Decided(r)]
      BY <3>2 DEF Decided
    <3> QED BY <1>2, <3>1, <3>3 DEF ControlType
  <2>4. seen' \in [Rank -> [names : SUBSET Name, tail : Nat, size : Nat]]
    <3> DEFINE T == [names : SUBSET Name, tail : Nat, size : Nat]
    <3>1. Scanned \in T
      BY ScannedType
    <3>2. seen \in [Rank -> T] /\ Root \in Rank
      BY <1>2, ContainerAssumption DEF ControlType
    <3>3. seen' = [seen EXCEPT ![r] = IF n = "decode" THEN seen[Root]
                                      ELSE IF n = "report" /\ r = Root THEN Scanned ELSE seen[r]]
      BY DEF Advance
    <3> HIDE DEF T
    <3>4. seen' \in [Rank -> T]
      BY <3>1, <3>2, <3>3
    <3> QED BY <3>4 DEF T
  <2>5. nextId' \in Nat
    <3>1. nextId' = nextId \/ nextId' = nextId + 1
      BY DEF Advance
    <3> QED BY <1>2, <3>1 DEF ControlType
  <2>6. place' \in [Rank -> (AnyPlace \ {"return"}) \union {"idle"}]
    BY <1>1, <1>2 DEF ControlType
  <2>7. /\ call \in [Rank -> [op : Operation \union {"none"}, name : Name \union {NoName}, handle : Nat]]
        /\ result \in [Rank -> Outcome \union {"ok"}] /\ calls \in [Rank -> Nat]
    BY <1>2 DEF ControlType
  <2> QED BY <1>1, <2>1, <2>2, <2>3, <2>4, <2>5, <2>6, <2>7 DEF ControlType
<1>7. ASSUME NEW s \in Rank PROVE PlaceInv(s)'
  <2>1. CASE s = r
    BY <2>1, AdvancePlace
  <2>2. CASE s # r
    <3>1. PlaceInv(s)
      BY RankParts
    <3>2. ASSUME ~ Busy(s) PROVE Complete(s)'
      BY <1>1, <1>2, <2>2, <3>1, <3>2, Stable DEF PlaceInv
    <3> QED BY <1>1, <2>2, <3>1, <3>2, PlaceStays DEF Unmoved
  <2> QED BY <2>1, <2>2
<1>8. \A s \in Rank : IdInv(s)'
  BY AdvanceId
<1>9. InStep'
  BY AdvanceInStep
<1> QED BY <1>3, <1>4, <1>5, <1>6, <1>7, <1>8, <1>9 DEF ControlInv

----------------------------------------------------------------------------
(* Calls begin and end.                                                    *)

(* What a rank that enters changes about who is ahead of whom. *)
LEMMA EnterPairs ==
  ASSUME LogInv, NEW r \in Rank, NEW n, NEW w, Enter(r, n, w), Complete(r), NEW q \in Rank, q # r
  PROVE  /\ Ahead(q, r) \in {0, 1}
         /\ Ahead(q, r) = 0 => Ahead(q, r)' = 3 /\ Ahead(r, q)' = 1
         /\ Ahead(q, r) = 1 => Ahead(q, r)' = 0 /\ Ahead(r, q)' = 0
         /\ Ahead(r, r)' = 0
<1>0. LogType
  BY DEF LogInv
<1>1. /\ Ahead(q, r)' = (Ahead(q, r) + 3) % 4 /\ Ahead(r, q)' = (Ahead(r, q) + 1) % 4
  BY <1>0, EnterAhead
<1>2. Ahead(q, r) \in {0, 1}
  BY DEF Complete
<1>3. /\ Ahead(q, r) = 0 => Ahead(r, q) = 0
      /\ Ahead(q, r) = 1 => Ahead(r, q) = 3
  BY <1>0, AheadType
<1>4. Ahead(r, r)' = 0
  <2>1. LogInv'
    BY EnterClose
  <2>2. Turn(r)' \in 0..3
    BY <2>1 DEF LogInv, LogType
  <2> QED BY <2>2 DEF Ahead
<1> QED BY <1>1, <1>2, <1>3, <1>4

LEMMA Begins ==
  ASSUME ControlInv, NEW r \in Rank, Begin(r)
  PROVE  \E c, w :
           /\ c \in Calls(r) /\ w.ok \in BOOLEAN /\ w.about = c.op
           /\ Enter(r, "descriptor", w) /\ call' = [call EXCEPT ![r] = c] /\ call'[r] = c
           /\ ~ Busy(r) /\ Complete(r) /\ outcome[r] = "none" /\ held[r] = {} /\ seen[r] = NotScanned
           /\ place' = [place EXCEPT ![r] = "descriptor"] /\ place'[r] = "descriptor"
           /\ result' = [result EXCEPT ![r] = "none"]
           /\ calls' = [calls EXCEPT ![r] = calls[r] + 1] /\ calls'[r] = calls[r] + 1
           /\ UNCHANGED <<outcome, held, handles, view, seen, disk, nextId, system, job, told>>
           /\ log'[r][1].place = "descriptor" /\ log'[r][1].word = w /\ Len(log'[r]) >= 1
           /\ \A s \in Rank : s # r => Unmoved(s) /\ log'[s] = log[s]
<1>0. LogInv /\ LogType /\ PlaceInv(r) /\ ControlType
  BY RankParts DEF ControlInv
<1>1. /\ place[r] = "idle"
      /\ place' = [place EXCEPT ![r] = "descriptor"]
      /\ result' = [result EXCEPT ![r] = "none"]
      /\ calls' = [calls EXCEPT ![r] = calls[r] + 1]
      /\ UNCHANGED <<outcome, held, handles, view, seen, disk, nextId, system, job, told>>
  BY DEF Begin
<1>2. ~ Busy(r) /\ Complete(r) /\ outcome[r] = "none" /\ held[r] = {} /\ seen[r] = NotScanned
  BY <1>0, <1>1 DEF PlaceInv, Busy
<1>3. PICK c \in Calls(r), ok \in BOOLEAN :
        /\ call' = [call EXCEPT ![r] = c]
        /\ Enter(r, "descriptor", [ok |-> ok, about |-> c.op])
  BY DEF Begin
<1> DEFINE w == [ok |-> ok, about |-> c.op]
<1>4. w.ok \in BOOLEAN /\ w.about = c.op /\ Enter(r, "descriptor", w)
  BY <1>3
<1> HIDE DEF w
<1>5. /\ \A q \in Rank : q # r => log'[q] = log[q]
      /\ log'[r][1] = [turn |-> (Turn(r) + 1) % 4, place |-> "descriptor", word |-> w]
      /\ Len(log'[r]) = OneMore(Len(log[r]))
  BY <1>0, <1>4, EnterLog
<1>6. Len(log'[r]) >= 1
  <2>1. Len(log[r]) \in 0..3
    BY <1>0, TurnType
  <2> QED BY <1>5, <2>1 DEF OneMore
<1>7. log'[r][1].place = "descriptor" /\ log'[r][1].word = w
  BY <1>5
<1>8. place'[r] = "descriptor" /\ calls'[r] = calls[r] + 1 /\ call'[r] = c
  BY <1>0, <1>1, <1>3 DEF ControlType
<1>9. ASSUME NEW s \in Rank, s # r PROVE Unmoved(s) /\ log'[s] = log[s]
  BY <1>0, <1>1, <1>3, <1>5, <1>9 DEF Unmoved, ControlType
<1>10. call' = [call EXCEPT ![r] = c] /\ c \in Calls(r)
  BY <1>3
<1> QED BY <1>1, <1>2, <1>4, <1>6, <1>7, <1>8, <1>9, <1>10

LEMMA BeginControl ==
  ASSUME ControlInv, NEW r \in Rank, Begin(r)
  PROVE  ControlInv'
<1>0. /\ LogInv /\ LogType /\ LogsMatch /\ WordsFit /\ ControlType /\ PlaceInv(r)
      /\ Len(handles[r]) \in Nat /\ calls[r] \in Nat
  BY RankParts DEF ControlInv
<1>1. PICK c, w :
           /\ c \in Calls(r) /\ w.ok \in BOOLEAN /\ w.about = c.op
           /\ Enter(r, "descriptor", w) /\ call' = [call EXCEPT ![r] = c] /\ call'[r] = c
           /\ ~ Busy(r) /\ Complete(r) /\ outcome[r] = "none" /\ held[r] = {} /\ seen[r] = NotScanned
           /\ place' = [place EXCEPT ![r] = "descriptor"] /\ place'[r] = "descriptor"
           /\ result' = [result EXCEPT ![r] = "none"]
           /\ calls' = [calls EXCEPT ![r] = calls[r] + 1] /\ calls'[r] = calls[r] + 1
           /\ UNCHANGED <<outcome, held, handles, view, seen, disk, nextId, system, job, told>>
           /\ log'[r][1].place = "descriptor" /\ log'[r][1].word = w /\ Len(log'[r]) >= 1
           /\ \A s \in Rank : s # r => Unmoved(s) /\ log'[s] = log[s]
  BY Begins
<1>2. Busy(r)' /\ Own(r)'.place = "descriptor" /\ Own(r)'.word = w
  <2>1. Own(r)' = log'[r][1]
    BY DEF Own
  <2> QED BY <1>1, <2>1 DEF Busy
<1>3. LogInv'
  BY <1>0, <1>1, EnterClose
<1>4. ASSUME NEW q \in Rank, q # r, Ahead(q, r) = 1
      PROVE  /\ Busy(q) /\ calls[q] = calls[r] + 1 /\ place[q] = "descriptor" /\ handles[q] = handles[r]
             /\ Own(q).place = "descriptor" /\ outcome[q] = "none" /\ held[q] = {} /\ seen[q] = NotScanned
  <2>1. Lead(q, r)
    BY <1>4 DEF ControlInv, InStep
  <2>2. Busy(q) /\ calls[q] = calls[r] + 1 /\ place[q] = "descriptor" /\ handles[q] = handles[r]
    BY <1>1, <2>1 DEF Lead, Again
  <2>3. "descriptor" \notin ExitPlace
    BY DEF ExitPlace, ClosePlace
  <2>4. PlaceInv(q)
    BY RankParts
  <2> QED BY <2>2, <2>3, <2>4 DEF PlaceInv
<1>5. LogsMatch'
  <2>1. ASSUME NEW q \in Rank, Ahead(q, r) = 1 PROVE Own(q).place = "descriptor"
    <3>1. q # r
      BY <1>0, <2>1, AheadType
    <3> QED BY <1>4, <2>1, <3>1
  <2> QED BY <1>0, <1>1, <2>1, EnterMatch
<1>6. WordsFit'
  BY <1>0, <1>1, EnterWords
<1>7. c \in [op : Operation, name : Name \union {NoName}, handle : Nat]
      /\ (c.op \in SessionOp => c.handle \in 1..Len(handles[r]))
      /\ (c.op \in OpenOp => Len(handles[r]) < MaxSessions)
      /\ (c.op \in NamedOp => c.name \in Name)
  <2>1. c \in [op : Operation, name : Name \union {NoName}, handle : 0..Len(handles[r])]
        /\ (c.op \in SessionOp => c.handle # 0)
        /\ (c.op \in OpenOp => Len(handles[r]) < MaxSessions)
        /\ (c.op \in WritingOp \union ReadingOp => c.name # NoName)
    BY <1>1 DEF Calls
  <2>2. c.handle \in 0..Len(handles[r]) /\ c.name \in Name \union {NoName}
    BY <2>1
  <2> QED BY <1>0, <2>1, <2>2 DEF NamedOp
<1>8. ControlType'
  <2>1. "descriptor" \in AnyPlace \ {"return"} /\ "none" \in Outcome
    BY DEF AnyPlace, Outcome
  <2>2. c \in [op : Operation \union {"none"}, name : Name \union {NoName}, handle : Nat]
    BY <1>7
  <2>3. call' \in [Rank -> [op : Operation \union {"none"}, name : Name \union {NoName}, handle : Nat]]
    BY <1>0, <1>1, <2>2 DEF ControlType
  <2>4. place' \in [Rank -> (AnyPlace \ {"return"}) \union {"idle"}]
    BY <1>0, <1>1, <2>1 DEF ControlType
  <2>5. result' \in [Rank -> Outcome \union {"ok"}]
    BY <1>0, <1>1, <2>1 DEF ControlType
  <2>6. calls' \in [Rank -> Nat]
    BY <1>0, <1>1 DEF ControlType
  <2> QED BY <1>0, <1>1, <2>3, <2>4, <2>5, <2>6 DEF ControlType
<1>9. Op(r)' = c.op /\ c.op \in Operation
  BY <1>1, <1>7 DEF Op
<1>10. PlaceInv(r)'
  <2>1. CallInv(r)'
    BY <1>1, <1>7, <1>9 DEF CallInv
  <2>2. "descriptor" \in At(c.op)
    BY <1>9, PlacesOf DEF At
  <2>3. Len(handles'[r]) <= MaxSessions
    BY <1>0, <1>1 DEF PlaceInv
  <2>4. "descriptor" \notin NamePlace \union ClosePlace
    BY DEF NamePlace, ClosePlace
  <2> QED BY <1>1, <1>2, <1>9, <2>1, <2>2, <2>3, <2>4 DEF PlaceInv, NotScanned
<1>11. ASSUME NEW s \in Rank PROVE PlaceInv(s)'
  <2>1. CASE s = r
    BY <1>10, <2>1
  <2>2. CASE s # r
    <3>1. PlaceInv(s)
      BY RankParts
    <3>2. ASSUME ~ Busy(s) PROVE Complete(s)'
      BY <1>0, <1>1, <2>2, <3>1, <3>2, Stable DEF PlaceInv
    <3> QED BY <1>1, <2>2, <3>1, <3>2, PlaceStays DEF Unmoved
  <2> QED BY <2>1, <2>2
<1>12. ASSUME NEW s \in Rank PROVE IdInv(s)'
  <2>1. IdInv(s) /\ handles' = handles /\ nextId' = nextId
    BY <1>1, RankParts
  <2>2. CASE s = r
    <3>1. "descriptor" \notin Identified
      BY DEF Identified, AcquirePlace, ScanPlace
    <3> QED BY <1>1, <2>1, <2>2, <3>1 DEF IdInv
  <2>3. CASE s # r
    <3>1. place'[s] = place[s] /\ call'[s] = call[s] /\ outcome'[s] = outcome[s] /\ log'[s] = log[s]
      BY <1>1, <2>3 DEF Unmoved
    <3>2. Op(s)' = Op(s) /\ Own(s)' = Own(s) /\ (Busy(s)' <=> Busy(s)) /\ (Below(s)' <=> Below(s))
      BY <2>1, <3>1 DEF Op, Own, Busy, Below
    <3> QED BY <2>1, <3>1, <3>2 DEF IdInv
  <2> QED BY <2>2, <2>3
<1>13. ASSUME NEW q \in Rank, q # r, Ahead(q, r) = 1 PROVE Same(r, q)' /\ Same(q, r)'
  <2>1. /\ Busy(q) /\ calls[q] = calls[r] + 1 /\ place[q] = "descriptor" /\ handles[q] = handles[r]
        /\ outcome[q] = "none" /\ held[q] = {} /\ seen[q] = NotScanned
    BY <1>4, <1>13
  <2>2. /\ place'[q] = "descriptor" /\ outcome'[q] = "none" /\ handles'[q] = handles'[r] /\ Busy(q)'
        /\ calls'[q] = calls'[r] /\ held'[q] = {} /\ seen'[q] = NotScanned
    BY <1>1, <1>13, <2>1 DEF Unmoved, Busy
  <2>3. outcome'[r] = "none" /\ held'[r] = {} /\ seen'[r] = NotScanned
    BY <1>1
  <2>4. Alike(r, q, "descriptor")' /\ Alike(q, r, "descriptor")'
    BY DEF Alike
  <2>5. Kept(r)' = Kept(q)'
    BY <2>2, <2>3 DEF Kept
  <2>6. Abreast(r, q)' /\ Abreast(q, r)'
    BY <1>1, <2>2, <2>3, <2>4, <2>5 DEF Abreast
  <2> QED BY <1>2, <2>2, <2>6 DEF Same
<1>14. ASSUME NEW q \in Rank, q # r, Ahead(q, r) = 0 PROVE Lead(r, q)'
  <2>1. Same(r, q) /\ Same(q, r) /\ Complete(q)
    <3>1. Ahead(r, q) = 0
      BY <1>0, <1>14, AheadType
    <3>2. Complete(q)
      BY <1>0, <1>1, <1>14, SameTurn
    <3> QED BY <1>14, <3>1, <3>2 DEF ControlInv, InStep
  <2>2. calls'[q] = calls[q] /\ handles'[q] = handles[q] /\ (Busy(q)' <=> Busy(q)) /\ Unmoved(q)
        /\ handles'[r] = handles[r] /\ nextId' = nextId /\ calls[q] = calls[r]
    BY <1>1, <1>14, <2>1 DEF Unmoved, Busy, Same
  <2>3. CASE Busy(q)
    <3>1. Leaving(q, r)
      BY <1>1, <2>1, <2>3 DEF Same
    <3>2. SameWords(q)
      <4>1. Len(log[q]) >= 1
        BY <2>3, RankParts DEF PlaceInv
      <4> QED BY <1>0, <1>1, <1>14, <2>1, <4>1, FrameWords
    <3>3. /\ ~ MustAbort(q)' /\ Target(q)' = "return"
          /\ handles'[r] = HandlesAfter(q, Returning(q))'
      BY <2>2, <3>1, <3>2, Frame DEF Leaving
    <3>4. Again(r, q)'
      BY <1>1, <2>2, <2>3, <3>3 DEF Again
    <3> QED BY <1>2, <3>3, <3>4 DEF Lead
  <2>4. CASE ~ Busy(q)
    <3>1. handles[r] = handles[q]
      BY <1>1, <2>1, <2>4 DEF Same
    <3>2. Again(r, q)'
      BY <1>1, <2>2, <2>4, <3>1 DEF Again
    <3> QED BY <1>2, <2>2, <2>4, <3>2 DEF Lead
  <2> QED BY <2>3, <2>4
<1>15. ASSUME NEW q \in Rank, q # r PROVE PairInStep(r, q)' /\ PairInStep(q, r)'
  <2>1. /\ Ahead(q, r) \in {0, 1}
        /\ Ahead(q, r) = 0 => Ahead(q, r)' = 3 /\ Ahead(r, q)' = 1
        /\ Ahead(q, r) = 1 => Ahead(q, r)' = 0 /\ Ahead(r, q)' = 0
    BY <1>0, <1>1, <1>15, EnterPairs
  <2>2. CASE Ahead(q, r) = 0
    BY <1>14, <1>15, <2>1, <2>2 DEF PairInStep
  <2>3. CASE Ahead(q, r) = 1
    BY <1>13, <1>15, <2>1, <2>3 DEF PairInStep
  <2> QED BY <2>1, <2>2, <2>3
<1>16. PairInStep(r, r)'
  <2>1. Ahead(r, r)' = 0
    <3>1. Turn(r)' \in 0..3
      BY <1>3 DEF LogInv, LogType
    <3> QED BY <3>1 DEF Ahead
  <2>2. Alike(r, r, place[r])'
    BY DEF Alike
  <2>3. Same(r, r)'
    BY <1>2, <2>2 DEF Same, Abreast
  <2> QED BY <2>1, <2>3 DEF PairInStep
<1>17. ASSUME NEW p \in Rank, NEW q \in Rank, p # r, q # r PROVE PairInStep(p, q)'
  BY <1>1, <1>17, OthersInStep
<1>18. InStep'
  BY <1>15, <1>16, <1>17 DEF InStep, PairInStep
<1> QED BY <1>3, <1>5, <1>6, <1>8, <1>11, <1>12, <1>18 DEF ControlInv

LEMMA SameLog ==
  ASSUME log' = log
  PROVE  /\ \A p, q : Ahead(q, p)' = Ahead(q, p)
         /\ \A p : SameWords(p) /\ (Complete(p)' <=> Complete(p)) /\ Own(p)' = Own(p)
         /\ LogInv => LogInv'
         /\ LogsMatch => LogsMatch'
         /\ WordsFit => WordsFit'
<1>1. \A p : Turn(p)' = Turn(p)
  BY DEF Turn
<1>2. \A p, q : Ahead(q, p)' = Ahead(q, p)
  BY <1>1 DEF Ahead
<1>3. \A p, q : WordOf(q, p)' = WordOf(q, p)
  BY <1>2 DEF WordOf
<1>4. \A p : SameWords(p) /\ (Complete(p)' <=> Complete(p)) /\ Own(p)' = Own(p)
  BY <1>2, <1>3 DEF SameWords, Words, Complete, Own
<1>5. LogInv => LogInv'
  BY <1>1, <1>2 DEF LogInv, LogType, LogClose
<1>6. LogsMatch => LogsMatch'
  BY <1>2 DEF LogsMatch
<1>7. WordsFit => WordsFit'
  BY DEF WordsFit
<1> QED BY <1>2, <1>4, <1>5, <1>6, <1>7

(* The sessions of a rank after its call. *)
LEMMA AfterType ==
  ASSUME ControlInv, NEW r \in Rank, Busy(r), NEW o
  PROVE  /\ HandlesAfter(r, o) \in Seq(Session) /\ Len(HandlesAfter(r, o)) <= MaxSessions
         /\ \/ /\ Len(HandlesAfter(r, o)) = Len(handles[r])
               /\ \A i \in 1..Len(handles[r]) : HandlesAfter(r, o)[i].id = handles[r][i].id
            \/ /\ Op(r) \in OpenOp /\ o = "ok"
               /\ Len(HandlesAfter(r, o)) = Len(handles[r]) + 1
               /\ HandlesAfter(r, o)[Len(handles[r]) + 1].id = nextId
               /\ \A i \in 1..Len(handles[r]) : HandlesAfter(r, o)[i].id = handles[r][i].id
<1> DEFINE h == handles[r]
           c == call[r].handle
<1>1. h \in Seq(Session) /\ Len(h) \in Nat /\ Len(h) <= MaxSessions /\ MaxSessions \in Nat /\ nextId \in Nat
      /\ (Op(r) \in SessionOp => c \in 1..Len(h)) /\ (Op(r) \in OpenOp => Len(h) < MaxSessions)
  BY RankParts, ContainerAssumption DEF PlaceInv, CallInv
<1>2. ASSUME c \in 1..Len(h)
      PROVE  /\ [h EXCEPT ![c].closed = TRUE] \in Seq(Session) /\ Len([h EXCEPT ![c].closed = TRUE]) = Len(h)
             /\ \A i \in 1..Len(h) : [h EXCEPT ![c].closed = TRUE][i].id = h[i].id
             /\ [h EXCEPT ![c].poisoned = TRUE] \in Seq(Session) /\ Len([h EXCEPT ![c].poisoned = TRUE]) = Len(h)
             /\ \A i \in 1..Len(h) : [h EXCEPT ![c].poisoned = TRUE][i].id = h[i].id
  <2> DEFINE a == [h[c] EXCEPT !.closed = TRUE]
             b == [h[c] EXCEPT !.poisoned = TRUE]
  <2>1. a \in Session /\ b \in Session /\ a.id = h[c].id /\ b.id = h[c].id
    <3>1. h[c] \in Session
      BY <1>1, <1>2
    <3> HIDE DEF h, c
    <3> QED BY <3>1, SessionFields
  <2>2. [h EXCEPT ![c].closed = TRUE] = [h EXCEPT ![c] = a] /\ [h EXCEPT ![c].poisoned = TRUE] = [h EXCEPT ![c] = b]
    OBVIOUS
  <2> HIDE DEF a, b, h, c
  <2>3. /\ [h EXCEPT ![c] = a] \in Seq(Session) /\ Len([h EXCEPT ![c] = a]) = Len(h)
        /\ [h EXCEPT ![c] = b] \in Seq(Session) /\ Len([h EXCEPT ![c] = b]) = Len(h)
    BY <1>1, <1>2, <2>1
  <2>4. \A i \in 1..Len(h) : [h EXCEPT ![c] = a][i].id = h[i].id /\ [h EXCEPT ![c] = b][i].id = h[i].id
    BY <1>1, <1>2, <2>1
  <2> QED BY <2>2, <2>3, <2>4
<1>3. CASE Op(r) \in OpenOp /\ o = "ok"
  <2> DEFINE e == [id |-> nextId, readonly |-> Op(r) = "open_read", closed |-> FALSE, poisoned |-> FALSE]
  <2>1. HandlesAfter(r, o) = Append(h, e)
    BY <1>3, AfterCases
  <2>2. e \in Session /\ e.id = nextId
    BY <1>1 DEF Session
  <2> HIDE DEF e, h
  <2>3. Append(h, e) \in Seq(Session) /\ Len(Append(h, e)) = Len(h) + 1 /\ Append(h, e)[Len(h) + 1] = e
        /\ \A i \in 1..Len(h) : Append(h, e)[i] = h[i]
    BY <1>1, <2>2
  <2>4. Len(h) + 1 <= MaxSessions
    BY <1>1, <1>3
  <2> QED BY <1>3, <2>1, <2>2, <2>3, <2>4 DEF h
<1>4. CASE Op(r) = "close" /\ o = "ok"
  <2>1. c \in 1..Len(h)
    BY <1>1, <1>4 DEF SessionOp
  <2>2. HandlesAfter(r, o) = [h EXCEPT ![c].closed = TRUE]
    BY <1>4, AfterCases
  <2> QED BY <1>1, <1>2, <2>1, <2>2
<1>5. CASE Op(r) = "write_named" /\ o = "CommitUncertain"
  <2>1. c \in 1..Len(h)
    BY <1>1, <1>5 DEF SessionOp
  <2>2. HandlesAfter(r, o) = [h EXCEPT ![c].poisoned = TRUE]
    BY <1>5, AfterCases
  <2> QED BY <1>1, <1>2, <2>1, <2>2
<1>6. CASE ~ (Op(r) \in OpenOp /\ o = "ok") /\ ~ (Op(r) = "close" /\ o = "ok")
           /\ ~ (Op(r) = "write_named" /\ o = "CommitUncertain")
  <2>1. HandlesAfter(r, o) = h
    BY <1>6, AfterCases
  <2> QED BY <1>1, <2>1
<1> QED BY <1>3, <1>4, <1>5, <1>6

(* An open that returns its session has its identifier. *)
LEMMA OpensBelow ==
  ASSUME ControlInv, NEW r \in Rank, Busy(r), Complete(r), Target(r) = "return", Op(r) \in OpenOp,
         Returning(r) = "ok"
  PROVE  Below(r)
<1>1. Decided(r) = "none" /\ outcome[r] = "none"
  <2>1. Decided(r) \in Outcome
    BY ErrorType
  <2>2. "ok" \notin Outcome
    BY DEF Outcome
  <2> QED BY <2>1, <2>2 DEF Returning, Decided
<1>2. PlaceInv(r) /\ IdInv(r) /\ Fits(Op(r), place[r])
  BY RankParts, FitsPlace
<1>3. place[r] \notin ClosePlace
  BY <1>1, <1>2 DEF PlaceInv
<1>4. Op(r) \notin PathOp /\ Op(r) \notin InSession /\ Op(r) \notin WritingOp /\ Op(r) \notin SessionOp
      /\ Op(r) # "catalog" /\ Op(r) # "flush"
  BY DEF OpenOp, PathOp, InSession, NewOp, WritingOp, AppendOp, Collection, SessionOp
<1>5. place[r] # "options" \/ Leads(Op(r), "options", "return")
  <2>1. place[r] = "options" /\ Error(r) = "none" => Target(r) = Successor[Op(r)]["options"]
    BY <1>4 DEF Target, SessionOp
  <2>2. Op(r) \in Operation /\ place[r] \in At(Op(r))
    BY <1>2 DEF PlaceInv, CallInv
  <2>3. "options" \notin ClosePlace
    BY DEF ClosePlace
  <2>4. place[r] = "options" => Leads(Op(r), "options", Successor[Op(r)]["options"])
    BY <2>2, <2>3, PlacesOf DEF At
  <2>5. Error(r) = "none"
    BY <1>1 DEF Decided
  <2> QED BY <2>1, <2>4, <2>5
<1>6. Leads(Op(r), place[r], "return")
  BY <1>1, <1>5, Targets
<1>7. place[r] \in Identified
  <2>1. place[r] \notin {"operation datatype free", "allocation", "flush", "cleanup", "commit"}
    BY <1>2, <1>4 DEF Fits, InSession, OpenOp, ReadingOp
  <2>2. place[r] \in {"decode", "header flush"}
    BY <1>3, <1>4, <1>6, <2>1 DEF Leads, ClosePlace, DetailPlace
  <2> QED BY <2>2 DEF Identified, ScanPlace
<1> QED BY <1>1, <1>2, <1>7 DEF IdInv

LEMMA Returns ==
  ASSUME ControlInv, NEW r \in Rank, Return(r)
  PROVE  /\ Busy(r) /\ Complete(r) /\ ~ MustAbort(r) /\ Target(r) = "return"
         /\ log' = log /\ call' = call /\ calls' = calls /\ nextId' = nextId /\ UNCHANGED disk
         /\ place' = [place EXCEPT ![r] = "idle"] /\ outcome' = [outcome EXCEPT ![r] = "none"]
         /\ held' = [held EXCEPT ![r] = {}] /\ seen' = [seen EXCEPT ![r] = NotScanned]
         /\ view' = [view EXCEPT ![r][0] = "bytes"]
         /\ result' = [result EXCEPT ![r] = Returning(r)]
         /\ handles' = [handles EXCEPT ![r] = HandlesAfter(r, Returning(r))]
         /\ told' = IF Returning(r) = "ok" /\ Op(r) \in WritingOp THEN told \union {call[r].name} ELSE told
         /\ place'[r] = "idle" /\ ~ Busy(r)' /\ outcome'[r] = "none" /\ held'[r] = {} /\ seen'[r] = NotScanned
         /\ result'[r] = Returning(r) /\ handles'[r] = HandlesAfter(r, Returning(r))
         /\ \A s \in Rank : s # r => Unmoved(s)
<1>0. ControlType
  BY DEF ControlInv
<1>1. /\ Busy(r) /\ Complete(r) /\ ~ MustAbort(r) /\ Target(r) = "return"
      /\ log' = log /\ call' = call /\ calls' = calls /\ nextId' = nextId /\ UNCHANGED disk
      /\ place' = [place EXCEPT ![r] = "idle"] /\ outcome' = [outcome EXCEPT ![r] = "none"]
      /\ held' = [held EXCEPT ![r] = {}] /\ seen' = [seen EXCEPT ![r] = NotScanned]
      /\ view' = [view EXCEPT ![r][0] = "bytes"]
  BY DEF Return, Reaches, Leaves, Busy, bounds
<1> DEFINE o == IF outcome[r] # "none" THEN outcome[r]
                ELSE IF Error(r) # "none" THEN Error(r) ELSE "ok"
<1>2. o = Returning(r)
  BY DEF Returning, Decided
<1>3. /\ result' = [result EXCEPT ![r] = o]
      /\ handles' = [handles EXCEPT ![r] = HandlesAfter(r, o)]
      /\ told' = IF o = "ok" /\ Op(r) \in WritingOp THEN told \union {call[r].name} ELSE told
  BY DEF Return
<1> HIDE DEF o
<1>4. /\ result' = [result EXCEPT ![r] = Returning(r)]
      /\ handles' = [handles EXCEPT ![r] = HandlesAfter(r, Returning(r))]
      /\ told' = IF Returning(r) = "ok" /\ Op(r) \in WritingOp THEN told \union {call[r].name} ELSE told
  BY <1>2, <1>3
<1>5. /\ place'[r] = "idle" /\ ~ Busy(r)' /\ outcome'[r] = "none" /\ held'[r] = {} /\ seen'[r] = NotScanned
      /\ result'[r] = Returning(r) /\ handles'[r] = HandlesAfter(r, Returning(r))
  BY <1>0, <1>1, <1>4 DEF ControlType, Busy
<1>6. ASSUME NEW s \in Rank, s # r PROVE Unmoved(s)
  BY <1>0, <1>1, <1>4, <1>6 DEF Unmoved, ControlType
<1> QED BY <1>1, <1>4, <1>5, <1>6

LEMMA ReturnControl ==
  ASSUME ControlInv, NEW r \in Rank, Return(r)
  PROVE  ControlInv'
<1>0. /\ LogInv /\ LogType /\ LogsMatch /\ WordsFit /\ ControlType /\ PlaceInv(r) /\ IdInv(r)
      /\ Len(handles[r]) \in Nat /\ nextId \in Nat
  BY RankParts DEF ControlInv
<1>1. /\ Busy(r) /\ Complete(r) /\ ~ MustAbort(r) /\ Target(r) = "return"
      /\ log' = log /\ call' = call /\ calls' = calls /\ nextId' = nextId
      /\ place' = [place EXCEPT ![r] = "idle"] /\ outcome' = [outcome EXCEPT ![r] = "none"]
      /\ held' = [held EXCEPT ![r] = {}] /\ seen' = [seen EXCEPT ![r] = NotScanned]
      /\ result' = [result EXCEPT ![r] = Returning(r)]
      /\ handles' = [handles EXCEPT ![r] = HandlesAfter(r, Returning(r))]
      /\ place'[r] = "idle" /\ ~ Busy(r)' /\ outcome'[r] = "none" /\ held'[r] = {} /\ seen'[r] = NotScanned
      /\ result'[r] = Returning(r) /\ handles'[r] = HandlesAfter(r, Returning(r))
      /\ \A s \in Rank : s # r => Unmoved(s)
  BY Returns
<1>2. /\ \A p, q : Ahead(q, p)' = Ahead(q, p)
      /\ \A p : SameWords(p) /\ (Complete(p)' <=> Complete(p)) /\ Own(p)' = Own(p)
      /\ LogInv' /\ LogsMatch' /\ WordsFit'
  BY <1>0, <1>1, SameLog
<1>3. HandlesAfter(r, Returning(r)) \in Seq(Session) /\ Len(HandlesAfter(r, Returning(r))) <= MaxSessions
  BY <1>1, AfterType
<1>4. ControlType'
  <2>1. Returning(r) \in Outcome \union {"ok"}
    BY <1>1, ErrorType
  <2>2. "none" \in Outcome
    BY DEF Outcome
  <2>3. NotScanned \in [names : SUBSET Name, tail : Nat, size : Nat]
    BY DEF NotScanned
  <2>4. /\ handles' \in [Rank -> Seq(Session)] /\ result' \in [Rank -> Outcome \union {"ok"}]
        /\ outcome' \in [Rank -> Outcome]
    BY <1>0, <1>1, <1>3, <2>1, <2>2 DEF ControlType
  <2>5. seen' \in [Rank -> [names : SUBSET Name, tail : Nat, size : Nat]]
    BY <1>0, <1>1, <2>3 DEF ControlType
  <2>6. held' \in [Rank -> SUBSET {"communicator", "file", "datatype"}]
    BY <1>0, <1>1 DEF ControlType
  <2>7. place' \in [Rank -> (AnyPlace \ {"return"}) \union {"idle"}]
    BY <1>0, <1>1 DEF ControlType
  <2> QED BY <1>0, <1>1, <2>4, <2>5, <2>6, <2>7 DEF ControlType
<1>5. ASSUME NEW s \in Rank PROVE PlaceInv(s)'
  <2>1. CASE s = r
    BY <1>1, <1>2, <1>3, <2>1 DEF PlaceInv
  <2>2. CASE s # r
    <3>1. PlaceInv(s)
      BY RankParts
    <3>2. ~ Busy(s) => Complete(s)'
      BY <1>2, <3>1 DEF PlaceInv
    <3> QED BY <1>1, <2>2, <3>1, <3>2, PlaceStays DEF Unmoved
  <2> QED BY <2>1, <2>2
<1>6. ASSUME NEW s \in Rank PROVE IdInv(s)'
  <2>1. CASE s = r
    <3> DEFINE h == handles[r]
               g == HandlesAfter(r, Returning(r))
    <3>1. /\ \A i \in 1..Len(h) : h[i].id <= nextId
          /\ \A i, j \in 1..Len(h) : h[i].id = h[j].id => i = j
      BY <1>0 DEF IdInv
    <3>2. \/ /\ Len(g) = Len(h)
             /\ \A i \in 1..Len(h) : g[i].id = h[i].id
          \/ /\ Op(r) \in OpenOp /\ Returning(r) = "ok"
             /\ Len(g) = Len(h) + 1 /\ g[Len(h) + 1].id = nextId
             /\ \A i \in 1..Len(h) : g[i].id = h[i].id
      BY <1>1, AfterType
    <3>3. Op(r) \in OpenOp /\ Returning(r) = "ok" => \A i \in 1..Len(h) : h[i].id < nextId
      BY <1>1, OpensBelow DEF Below
    <3>4. \A i \in 1..Len(h) : h[i].id \in Nat
      <4>1. h \in Seq(Session)
        BY RankParts
      <4>2. \A i \in 1..Len(h) : h[i] \in Session
        BY <4>1
      <4> QED BY <4>2 DEF Session
    <3> HIDE DEF h, g
    <3>5. /\ \A i \in 1..Len(g) : g[i].id <= nextId
          /\ \A i, j \in 1..Len(g) : g[i].id = g[j].id => i = j
      <4>1. CASE Len(g) = Len(h) /\ \A i \in 1..Len(h) : g[i].id = h[i].id
        BY <3>1, <4>1
      <4>2. CASE /\ Op(r) \in OpenOp /\ Returning(r) = "ok"
                 /\ Len(g) = Len(h) + 1 /\ g[Len(h) + 1].id = nextId
                 /\ \A i \in 1..Len(h) : g[i].id = h[i].id
        <5>1. \A i \in 1..Len(h) : g[i].id < nextId /\ g[i].id \in Nat
          BY <3>3, <3>4, <4>2
        <5>2. Len(h) \in Nat
          BY <1>0 DEF h
        <5>3. \A i \in 1..Len(g) : i \in 1..Len(h) \/ i = Len(h) + 1
          BY <4>2, <5>2
        <5>4. \A i \in 1..Len(g) : g[i].id <= nextId
          BY <1>0, <4>2, <5>1, <5>3
        <5>5. ASSUME NEW i \in 1..Len(g), NEW j \in 1..Len(g), g[i].id = g[j].id PROVE i = j
          <6>1. CASE i \in 1..Len(h) /\ j \in 1..Len(h)
            BY <3>1, <4>2, <5>5, <6>1
          <6>2. CASE i = Len(h) + 1 /\ j \in 1..Len(h)
            BY <1>0, <4>2, <5>1, <5>5, <6>2
          <6>3. CASE i \in 1..Len(h) /\ j = Len(h) + 1
            BY <1>0, <4>2, <5>1, <5>5, <6>3
          <6> QED BY <5>3, <6>1, <6>2, <6>3
        <5> QED BY <5>4, <5>5
      <4> QED BY <3>2, <4>1, <4>2
    <3>6. handles'[r] = g
      BY <1>1 DEF g
    <3> QED BY <1>1, <2>1, <3>5, <3>6 DEF IdInv
  <2>2. CASE s # r
    <3>1. place'[s] = place[s] /\ call'[s] = call[s] /\ outcome'[s] = outcome[s] /\ handles'[s] = handles[s]
      BY <1>1, <2>2 DEF Unmoved
    <3>2. Op(s)' = Op(s) /\ Own(s)' = Own(s) /\ (Busy(s)' <=> Busy(s)) /\ (Below(s)' <=> Below(s))
      BY <1>1, <1>2, <3>1 DEF Op, Busy, Below
    <3>3. IdInv(s)
      BY RankParts
    <3> QED BY <1>1, <3>1, <3>2, <3>3 DEF IdInv
  <2> QED BY <2>1, <2>2
<1>7. ASSUME NEW q \in Rank, q # r, Ahead(q, r) = 0 PROVE Same(r, q)' /\ Same(q, r)'
  <2>1. Same(r, q) /\ calls'[q] = calls'[r] /\ (Busy(q)' <=> Busy(q)) /\ Unmoved(q)
    <3>1. Same(r, q)
      BY <1>7 DEF ControlInv, InStep
    <3> QED BY <1>1, <1>7, <3>1 DEF Same, Busy, Unmoved
  <2>2. CASE Busy(q)
    <3>1. ~ MustAbort(q) /\ Returning(q) = Returning(r) /\ Target(q) = "return"
          /\ HandlesAfter(q, Returning(q)) = HandlesAfter(r, Returning(r))
      <4>1. (MustAbort(q) <=> MustAbort(r)) /\ Returning(q) = Returning(r)
        BY <1>1, <1>7, <2>2, DecideAlike
      <4>2. Target(q) = "return" /\ HandlesAfter(q, Returning(q)) = HandlesAfter(r, Returning(r))
        BY <1>1, <1>7, <2>2, GoAlike, Zenon
      <4> QED BY <1>1, <4>1, <4>2
    <3>2. /\ ~ MustAbort(q)' /\ Target(q)' = "return" /\ Returning(q)' = Returning(q)
          /\ HandlesAfter(q, Returning(q))' = HandlesAfter(q, Returning(q))
      BY <1>1, <1>2, <2>1, <3>1, Frame
    <3>3. Leaving(q, r)'
      BY <1>1, <3>1, <3>2 DEF Leaving
    <3> QED BY <1>1, <2>1, <2>2, <3>3 DEF Same
  <2>3. CASE ~ Busy(q)
    <3>1. result[q] = Returning(r) /\ handles[q] = HandlesAfter(r, Returning(r))
      BY <1>1, <2>1, <2>3 DEF Same, Leaving
    <3>2. result'[q] = result'[r] /\ handles'[q] = handles'[r]
      BY <1>1, <2>1, <3>1 DEF Unmoved
    <3> QED BY <1>1, <2>1, <2>3, <3>2 DEF Same
  <2> QED BY <2>2, <2>3
<1>8. ASSUME NEW q \in Rank, q # r, Ahead(q, r) = 1 PROVE Lead(q, r)'
  <2>1. Lead(q, r)
    BY <1>8 DEF ControlInv, InStep
  <2>2. Busy(q) /\ calls[q] = calls[r] + 1 /\ place[q] = "descriptor"
        /\ handles[q] = HandlesAfter(r, Returning(r))
    BY <1>1, <2>1 DEF Lead, Again
  <2>3. Busy(q)' /\ calls'[q] = calls'[r] + 1 /\ place'[q] = "descriptor" /\ handles'[q] = handles'[r]
    BY <1>1, <1>8, <2>2 DEF Unmoved, Busy
  <2>4. Again(q, r)'
    BY <1>1, <2>3 DEF Again
  <2> QED BY <1>1, <2>3, <2>4 DEF Lead
<1>9. ASSUME NEW q \in Rank, q # r PROVE PairInStep(r, q)' /\ PairInStep(q, r)'
  <2>1. Ahead(q, r) \in {0, 1}
    BY <1>1 DEF Complete
  <2>2. /\ Ahead(q, r) = 0 => Ahead(r, q) = 0
        /\ Ahead(q, r) = 1 => Ahead(r, q) = 3
    BY <1>0, AheadType
  <2>3. Ahead(q, r)' = Ahead(q, r) /\ Ahead(r, q)' = Ahead(r, q)
    BY <1>2
  <2>4. CASE Ahead(q, r) = 0
    BY <1>7, <1>9, <2>2, <2>3, <2>4 DEF PairInStep
  <2>5. CASE Ahead(q, r) = 1
    <3>1. Ahead(q, r)' = 1 /\ Ahead(r, q)' = 3 /\ Lead(q, r)'
      BY <1>8, <1>9, <2>2, <2>3, <2>5
    <3> QED BY <3>1 DEF PairInStep
  <2> QED BY <2>1, <2>4, <2>5
<1>10. PairInStep(r, r)'
  <2>1. Ahead(r, r)' = 0
    BY <1>0, <1>2, AheadType
  <2>2. Same(r, r)'
    BY <1>1 DEF Same
  <2> QED BY <2>1, <2>2 DEF PairInStep
<1>11. ASSUME NEW p \in Rank, NEW q \in Rank, p # r, q # r PROVE PairInStep(p, q)'
  <2>1. ASSUME Busy(p), Complete(p) PROVE Target(p) = "return"
    <3>1. Ahead(p, r) = 0
      BY <1>0, <1>1, <2>1, BothComplete
    <3> QED BY <1>1, <2>1, <3>1, GoAlike, Zenon
  <2> QED BY <1>1, <1>2, <1>11, <2>1, PairStays
<1>12. InStep'
  BY <1>9, <1>10, <1>11 DEF InStep, PairInStep
<1> QED BY <1>2, <1>4, <1>5, <1>6, <1>12 DEF ControlInv

----------------------------------------------------------------------------
(* Jobs begin and end.                                                     *)

Stays ==
  UNCHANGED <<log, place, call, outcome, result, held, handles, seen, calls, nextId>>

LEMMA StaysControl ==
  ASSUME ControlInv, Stays
  PROVE  ControlInv'
<1>1. /\ log' = log /\ place' = place /\ call' = call /\ outcome' = outcome /\ result' = result
      /\ held' = held /\ handles' = handles /\ seen' = seen /\ calls' = calls /\ nextId' = nextId
  BY DEF Stays
<1>2. LogInv /\ LogsMatch /\ WordsFit /\ ControlType
  BY DEF ControlInv
<1>3. \A s \in Rank : Unmoved(s)
  BY <1>1 DEF Unmoved
<1>4. /\ \A p, q : Ahead(q, p)' = Ahead(q, p)
      /\ \A p : SameWords(p) /\ (Complete(p)' <=> Complete(p)) /\ Own(p)' = Own(p)
      /\ LogInv' /\ LogsMatch' /\ WordsFit'
  BY <1>1, <1>2, SameLog
<1>5. ControlType'
  BY <1>1, <1>2 DEF ControlType
<1>6. ASSUME NEW s \in Rank PROVE PlaceInv(s)'
  <2>1. PlaceInv(s)
    BY RankParts
  <2>2. ~ Busy(s) => Complete(s)'
    BY <1>4, <2>1 DEF PlaceInv
  <2> QED BY <1>1, <2>1, <2>2, PlaceStays
<1>7. ASSUME NEW s \in Rank PROVE IdInv(s)'
  <2>1. Op(s)' = Op(s) /\ Own(s)' = Own(s) /\ (Busy(s)' <=> Busy(s)) /\ (Below(s)' <=> Below(s))
    BY <1>1, <1>4 DEF Op, Busy, Below
  <2>2. IdInv(s)
    BY RankParts
  <2> QED BY <1>1, <2>1, <2>2 DEF IdInv
<1>8. ASSUME NEW p \in Rank, NEW q \in Rank PROVE PairInStep(p, q)'
  BY <1>1, <1>3, <1>4, PairStays
<1>9. InStep'
  BY <1>8 DEF InStep, PairInStep
<1> QED BY <1>4, <1>5, <1>6, <1>7, <1>9 DEF ControlInv

(* A job that begins: all ranks are idle and have the same sessions, whose *)
(* identifiers are numbers that the root has given.                        *)
AtRest ==
  /\ NoReductions
  /\ place = [r \in Rank |-> "idle"] /\ call = [r \in Rank |-> NoCall]
  /\ outcome = [r \in Rank |-> "none"] /\ result = [r \in Rank |-> "none"]
  /\ held = [r \in Rank |-> {}] /\ seen = [r \in Rank |-> NotScanned]
  /\ nextId \in Nat
  /\ \E c \in Nat : calls = [r \in Rank |-> c]
  /\ \E h \in Seq(Session) :
       /\ handles = [r \in Rank |-> h] /\ Len(h) <= MaxSessions
       /\ \A i \in 1..Len(h) : h[i].id <= nextId
       /\ \A i, j \in 1..Len(h) : h[i].id = h[j].id => i = j

LEMMA RestControl == AtRest => ControlInv
<1> SUFFICES ASSUME AtRest PROVE ControlInv
  OBVIOUS
<1>1. log = [r \in Rank |-> <<>>]
  BY DEF AtRest, NoReductions
<1>2. \A r : r \in Rank => Turn(r) = 0
  BY <1>1 DEF Turn
<1>3. LogInv /\ LogsMatch
  BY NothingEntered DEF AtRest
<1>4. \A p, q \in Rank : Ahead(q, p) = 0
  BY <1>2 DEF Ahead
<1>5. WordsFit
  BY <1>1 DEF WordsFit
<1>6. PICK c \in Nat : calls = [r \in Rank |-> c]
  BY DEF AtRest
<1>7. PICK h \in Seq(Session) :
        /\ handles = [r \in Rank |-> h] /\ Len(h) <= MaxSessions
        /\ \A i \in 1..Len(h) : h[i].id <= nextId
        /\ \A i, j \in 1..Len(h) : h[i].id = h[j].id => i = j
  BY DEF AtRest
<1>8. /\ place = [r \in Rank |-> "idle"] /\ call = [r \in Rank |-> NoCall]
      /\ outcome = [r \in Rank |-> "none"] /\ result = [r \in Rank |-> "none"]
      /\ held = [r \in Rank |-> {}] /\ seen = [r \in Rank |-> NotScanned] /\ nextId \in Nat
  BY DEF AtRest
<1>9. ControlType
  <2>1. NotScanned \in [names : SUBSET Name, tail : Nat, size : Nat]
    BY DEF NotScanned
  <2>2. NoCall \in [op : Operation \union {"none"}, name : Name \union {NoName}, handle : Nat]
    BY DEF NoCall
  <2>3. "none" \in Outcome
    BY DEF Outcome
  <2>4. /\ outcome \in [Rank -> Outcome] /\ result \in [Rank -> Outcome \union {"ok"}]
        /\ handles \in [Rank -> Seq(Session)] /\ calls \in [Rank -> Nat]
    BY <1>6, <1>7, <1>8, <2>3
  <2>5. seen \in [Rank -> [names : SUBSET Name, tail : Nat, size : Nat]]
    BY <1>8, <2>1
  <2>6. call \in [Rank -> [op : Operation \union {"none"}, name : Name \union {NoName}, handle : Nat]]
    BY <1>8, <2>2
  <2> QED BY <1>8, <2>4, <2>5, <2>6 DEF ControlType
<1>10. ASSUME NEW r \in Rank PROVE PlaceInv(r)
  <2>1. ~ Busy(r) /\ Complete(r)
    BY <1>4, <1>8 DEF Busy, Complete
  <2> QED BY <1>7, <1>8, <2>1 DEF PlaceInv
<1>11. ASSUME NEW r \in Rank PROVE IdInv(r)
  <2>1. ~ Busy(r) /\ handles[r] = h
    BY <1>7, <1>8 DEF Busy
  <2> QED BY <1>7, <2>1 DEF IdInv
<1>12. ASSUME NEW p \in Rank, NEW q \in Rank PROVE PairInStep(p, q)
  <2>1. ~ Busy(p) /\ ~ Busy(q) /\ calls[p] = calls[q] /\ result[p] = result[q] /\ handles[p] = handles[q]
    BY <1>6, <1>7, <1>8 DEF Busy
  <2> QED BY <1>4, <2>1 DEF PairInStep, Same
<1>13. InStep
  BY <1>12 DEF InStep, PairInStep
<1> QED BY <1>3, <1>5, <1>9, <1>10, <1>11, <1>13 DEF ControlInv

LEMMA NoSessions == \E h \in Seq(Session) : h = <<>> /\ Len(h) = 0
<1>1. <<>> \in Seq(Session)
  OBVIOUS
<1>2. Len(<<>>) = 0
  OBVIOUS
<1> WITNESS <<>> \in Seq(Session)
<1> QED BY <1>2

LEMMA ControlInit == Init => ControlInv
<1> SUFFICES ASSUME Init PROVE AtRest
  BY RestControl
<1>1. /\ NoReductions
      /\ place = [r \in Rank |-> "idle"] /\ call = [r \in Rank |-> NoCall]
      /\ outcome = [r \in Rank |-> "none"] /\ result = [r \in Rank |-> "none"]
      /\ held = [r \in Rank |-> {}] /\ seen = [r \in Rank |-> NotScanned]
      /\ calls = [r \in Rank |-> 0]
  BY DEF Init
<1>2. MaxSessions \in Nat
  BY ContainerAssumption
<1>3. /\ nextId \in Nat
      /\ \E h \in Seq(Session) :
           /\ handles = [r \in Rank |-> h] /\ Len(h) <= MaxSessions
           /\ \A i \in 1..Len(h) : h[i].id <= nextId
           /\ \A i, j \in 1..Len(h) : h[i].id = h[j].id => i = j
  <2>1. CASE nextId = 0 /\ handles = [r \in Rank |-> <<>>]
    <3>1. PICK h \in Seq(Session) : h = <<>> /\ Len(h) = 0
      BY NoSessions
    <3>2. 1..Len(h) = {} /\ Len(h) <= MaxSessions
      BY <1>2, <3>1
    <3> QED BY <2>1, <3>1, <3>2
  <2>2. CASE \E sessions \in Opened : nextId = Len(sessions) /\ handles = [r \in Rank |-> sessions]
    <3>1. PICK h \in Opened : nextId = Len(h) /\ handles = [r \in Rank |-> h]
      BY <2>2
    <3> DEFINE session(i) == [id |-> i, readonly |-> FALSE, closed |-> FALSE, poisoned |-> FALSE]
    <3>2. PICK n \in {0, MaxSessions} : h = [i \in 1..n |-> session(i)]
      BY <3>1 DEF Opened
    <3>3. n \in Nat /\ n <= MaxSessions
      BY <1>2
    <3>4. \A i \in 1..n : session(i) \in Session /\ session(i).id = i
      BY <3>3 DEF Session
    <3> HIDE DEF session
    <3>5. h \in Seq(Session) /\ Len(h) = n
      BY <3>2, <3>3, <3>4
    <3>6. \A i \in 1..Len(h) : h[i].id = i
      BY <3>2, <3>4, <3>5
    <3> QED BY <3>1, <3>3, <3>5, <3>6
  <2> QED BY <2>1, <2>2 DEF Init
<1> QED BY <1>1, <1>3 DEF AtRest

LEMMA CrashControl ==
  ASSUME ControlInv, Crash
  PROVE  ControlInv'
<1>1. /\ log' = [r \in Rank |-> <<>>] /\ place' = [r \in Rank |-> "idle"]
      /\ outcome' = [r \in Rank |-> "none"] /\ result' = [r \in Rank |-> "none"]
      /\ held' = [r \in Rank |-> {}] /\ handles' = [r \in Rank |-> <<>>]
      /\ seen' = [r \in Rank |-> NotScanned] /\ nextId' = 0 /\ call' = [r \in Rank |-> NoCall]
  BY DEF Crash
<1>2. PICK q \in Rank : calls' = [r \in Rank |-> calls[q]]
  BY DEF Crash
<1>3. calls[q] \in Nat
  BY DEF ControlInv, ControlType
<1>4. PICK h \in Seq(Session) : h = <<>> /\ Len(h) = 0
  BY NoSessions
<1>5. 1..Len(h) = {} /\ Len(h) <= MaxSessions
  BY <1>4, ContainerAssumption
<1>6. \E g \in Seq(Session) :
        /\ handles' = [r \in Rank |-> g] /\ Len(g) <= MaxSessions
        /\ \A i \in 1..Len(g) : g[i].id <= nextId'
        /\ \A i, j \in 1..Len(g) : g[i].id = g[j].id => i = j
  BY <1>1, <1>4, <1>5
<1>7. nextId' \in Nat /\ \E c \in Nat : calls' = [r \in Rank |-> c]
  BY <1>1, <1>2, <1>3
<1>8. AtRest'
  BY <1>1, <1>6, <1>7 DEF AtRest, NoReductions
<1>9. (AtRest => ControlInv)'
  BY RestControl, PTL
<1> QED BY <1>8, <1>9

LEMMA ControlNext ==
  ASSUME ControlInv, file \in Seq(Record), [Next]_vars
  PROVE  ControlInv'
<1>1. ASSUME NEW r \in Rank, Step(r) PROVE ControlInv'
  <2>1. CASE Abort(r)
    <3>1. Stays
      BY <2>1 DEF Abort, Stays, locals, bounds
    <3> QED BY <3>1, StaysControl
  <2>2. CASE Return(r)
    BY <2>2, ReturnControl
  <2>3. CASE Advances(r)
    BY <2>3, AdvanceControl DEF Advances
  <2> QED BY <1>1, <2>1, <2>2, <2>3, StepKinds
<1>2. ASSUME NEW r \in Rank, Drop(r) PROVE ControlInv'
  <2>1. Stays
    BY <1>2 DEF Drop, Stays, locals, Fault
  <2> QED BY <2>1, StaysControl
<1>3. CASE UNCHANGED vars
  <2>1. Stays
    BY <1>3 DEF vars, Stays, locals, bounds
  <2> QED BY <2>1, StaysControl
<1>4. ASSUME NEW r \in Rank, Begin(r) PROVE ControlInv'
  BY <1>4, BeginControl
<1>5. CASE Done
  BY <1>3, <1>5 DEF Done
<1>6. CASE Crash
  BY <1>6, CrashControl
<1> QED BY <1>1, <1>2, <1>3, <1>4, <1>5, <1>6 DEF Next

----------------------------------------------------------------------------
(* Where the others are when a rank goes on.                               *)

(* They have decided alike, or are there already. *)
LEMMA Neighbours ==
  ASSUME ControlInv, NEW r \in Rank, Busy(r), Complete(r), ~ MustAbort(r), Target(r) # "return",
         Decided(r) = "none", NEW q \in Rank
  PROVE  /\ Settled(q) /\ Op(q) = Op(r) /\ Alike(r, q, Target(r))
         /\ \/ place[q] = place[r] /\ Ahead(q, r) = 0 /\ WordOf(q, r) = Own(q).word
            \/ place[q] = Target(r) /\ Ahead(q, r) = 1
         /\ place[r] # "report" /\ Target(r) \notin {"report", "decode"} => seen[q] = seen[r]
<1>1. LogInv /\ LogType /\ Target(r) # "descriptor"
  BY RankParts, Targets
<1>2. Ahead(q, r) \in {0, 1}
  BY DEF Complete
<1>3. CASE Ahead(q, r) = 0
  <2>1. Same(r, q)
    BY <1>3 DEF ControlInv, InStep
  <2>2. Busy(q)
    <3>1. ~ Busy(q) => Leaving(r, q)
      BY <2>1 DEF Same
    <3> QED BY <3>1 DEF Leaving
  <2>3. place[q] = place[r] /\ outcome[q] = outcome[r]
    BY <2>1, <2>2 DEF Same, Abreast
  <2>4. Alike(r, q, Target(r)) /\ Op(q) = Op(r)
    BY <1>3, <2>2, GoAlike, Zenon
  <2>5. place[r] # "report" => seen[q] = seen[r]
    BY <1>3, <2>2, GoAlike, Zenon
  <2>6. WordOf(q, r) = Own(q).word
    BY <1>3 DEF WordOf, Own
  <2>7. outcome[q] = "none"
    BY <2>3 DEF Decided
  <2> QED BY <1>3, <2>2, <2>3, <2>4, <2>5, <2>6, <2>7 DEF Settled
<1>4. CASE Ahead(q, r) = 1
  <2>1. Busy(q) /\ Further(q, r)
    <3>1. Lead(q, r)
      BY <1>4 DEF ControlInv, InStep
    <3> QED BY <3>1 DEF Lead
  <2>2. /\ place[q] = Target(r) /\ outcome[q] = "none" /\ Alike(r, q, Target(r))
        /\ outcome[q] = "none" /\ place[q] # "report" =>
             seen[q] = IF place[q] = "decode" THEN seen[Root] ELSE seen[r]
    BY <2>1 DEF Further
  <2>3. Op(q) = Op(r)
    BY <1>1, <2>2 DEF Alike
  <2> QED BY <1>4, <2>1, <2>2, <2>3 DEF Settled
<1> QED BY <1>2, <1>3, <1>4

(* A rank that goes on without an error has the word of all for it. *)
LEMMA AllOk ==
  ASSUME ControlInv, NEW r \in Rank, Busy(r), Complete(r), Decided(r) = "none"
  PROVE  /\ outcome[r] = "none" /\ Error(r) = "none" /\ Settled(r)
         /\ Own(r).word.ok
         /\ \A q \in Rank : WordOf(q, r).ok
<1>1. outcome[r] = "none" /\ Error(r) = "none"
  BY DEF Decided
<1>2. \A w \in Words(r) : w.ok
  <2>1. CASE place[r] = "report"
    <3> SUFFICES ASSUME ~ \A w \in Words(r) : w.ok PROVE FALSE
      OBVIOUS
    <3>1. ~ AgreedWords(Words(r))
      BY DEF AgreedWords
    <3>2. Error(r) = Refusal(r)
      BY <3>1 DEF Error
    <3>3. Refusal(r) # "none"
      BY DEF Refusal
    <3> QED BY <1>1, <3>2, <3>3
  <2>2. CASE place[r] # "report"
    <3>1. Refusal(r) # "none"
      BY DEF Refusal
    <3>2. AgreedWords(Words(r))
      BY <1>1, <2>2, <3>1 DEF Error
    <3> QED BY <3>2 DEF AgreedWords
  <2> QED BY <2>1, <2>2
<1>3. Own(r).word \in Words(r)
  <2>1. LogInv /\ LogType
    BY RankParts
  <2>2. Ahead(r, r) = 0
    BY <2>1, AheadType
  <2> QED BY <2>1, <2>2, AheadType, OwnWord
<1>4. \A q \in Rank : WordOf(q, r) \in Words(r)
  BY DEF Words
<1> QED BY <1>1, <1>2, <1>3, <1>4 DEF Settled

(* What the file has to do with a rank does not change with others. *)
LEMMA Bystander ==
  ASSUME NEW s, Unmoved(s), log'[s] = log[s]
  PROVE  /\ place'[s] = place[s] /\ call'[s] = call[s] /\ seen'[s] = seen[s] /\ outcome'[s] = outcome[s]
         /\ Op(s)' = Op(s) /\ Own(s)' = Own(s) /\ Index(s)' = Index(s) /\ File(s)' = File(s)
         /\ Settled(s)' <=> Settled(s)
         /\ Creates(s)' <=> Creates(s)
         /\ Writer(s)' <=> Writer(s)
         /\ Has(s)' <=> Has(s)
         /\ \A p : Did(s, p)' <=> Did(s, p)
<1>1. /\ place'[s] = place[s] /\ call'[s] = call[s] /\ seen'[s] = seen[s] /\ outcome'[s] = outcome[s]
      /\ handles'[s] = handles[s]
  BY DEF Unmoved
<1>2. Op(s)' = Op(s) /\ Own(s)' = Own(s)
  BY <1>1 DEF Op, Own
<1>3. Index(s)' = Index(s)
  BY <1>1, <1>2 DEF Index
<1>4. File(s)' = File(s)
  BY <1>1, <1>2 DEF File
<1>5. Settled(s)' <=> Settled(s)
  BY <1>1 DEF Settled, Busy
<1>6. Creates(s)' <=> Creates(s)
  BY <1>2 DEF Creates
<1>7. Writer(s)' <=> Writer(s)
  BY <1>2, <1>5 DEF Writer
<1>8. \A p : Did(s, p)' <=> Did(s, p)
  BY <1>1, <1>2 DEF Did
<1>9. Has(s)' <=> Has(s)
  BY <1>1, <1>7, <1>8 DEF Has
<1> QED BY <1>1, <1>2, <1>3, <1>4, <1>5, <1>6, <1>7, <1>8, <1>9

----------------------------------------------------------------------------
(* Views.                                                                  *)

LEMMA FileNumber ==
  ASSUME ControlInv, NEW r \in Rank, Busy(r)
  PROVE  File(r) \in 0..MaxSessions
<1>1. /\ Op(r) \in PathOp \union OpenOp \union SessionOp
      /\ Op(r) \in SessionOp => call[r].handle \in 1..Len(handles[r])
      /\ Op(r) \in OpenOp => Len(handles[r]) < MaxSessions
      /\ Len(handles[r]) <= MaxSessions /\ Len(handles[r]) \in Nat /\ MaxSessions \in Nat
  BY RankParts, FitsPlace, ContainerAssumption DEF PlaceInv, CallInv
<1>2. CASE Op(r) \in PathOp
  BY <1>1, <1>2 DEF File
<1>3. CASE Op(r) \in OpenOp /\ Op(r) \notin PathOp
  BY <1>1, <1>3 DEF File
<1>4. CASE Op(r) \notin OpenOp /\ Op(r) \notin PathOp
  BY <1>1, <1>4 DEF File
<1> QED BY <1>2, <1>3, <1>4

(* A rank goes on with the view of its own file only. *)
LEMMA AdvanceFile ==
  ASSUME ControlInv, NEW r \in Rank, NEW n, NEW w, Advance(r, n, w)
  PROVE  File(r)' = File(r) /\ Op(r)' = Op(r) /\ Own(r)'.word = w /\ place'[r] = n
         /\ (Settled(r)' <=> Decided(r) = "none")
         /\ \A p : Did(r, p)' <=> p = n /\ w.ok
<1>1. /\ call' = call /\ place'[r] = n /\ n # "idle" /\ log'[r][1].word = w /\ outcome'[r] = Decided(r)
  BY Advanced
<1>2. Op(r)' = Op(r)
  BY <1>1 DEF Op
<1>3. Len(handles'[r]) = Len(handles[r])
  BY AdvancePlace
<1>4. File(r)' = File(r)
  BY <1>1, <1>2, <1>3 DEF File
<1>5. Own(r)'.word = w
  <2>1. Own(r)' = log'[r][1]
    BY DEF Own
  <2> QED BY <1>1, <2>1
<1> QED BY <1>1, <1>2, <1>4, <1>5 DEF Settled, Busy, Did

(* The places before those that need the view of bytes. *)
LEMMA BytesBefore ==
  ASSUME NEW o, NEW p, NEW n \in BytesPlace, Leads(o, p, n), Fits(o, p)
  PROVE  p \in BytesPlace \union {"open", "byte view", "marker view"}
<1>1. n \notin DetailPlace \union {"duplicate", "identifier", "name", "collection name"}
  BY DEF BytesPlace, DetailPlace
<1>2. n \notin {"options", "return", "flush", "info", "communicator handler", "open", "byte view",
                "catalog validation", "allocation", "payload view", "payload", "payload flush", "marker view",
                "staging", "view reset", "datatype free", "payload read", "marker flush", "file close",
                "communicator free", "cleanup", "operation datatype free", "commit"}
  BY DEF BytesPlace
<1>3. p # "descriptor" /\ p # "options"
  <2>1. p = "descriptor" => n \in {"collection name", "preparation", "name", "options"}
    BY DEF Leads, DetailPlace, NamePlace
  <2>2. p = "options" => n \in {"name", "preparation", "byte view", "flush", "datatype free"}
    BY DEF Leads, DetailPlace, NamePlace
  <2> QED BY <1>1, <1>2, <2>1, <2>2 DEF DetailPlace
<1>4. p \notin NamePlace \union DetailPlace
  <2>1. p \in NamePlace \union DetailPlace => n \in DetailPlace \union {"duplicate", "byte view", "identifier"}
    BY DEF Leads, DetailPlace, NamePlace
  <2> QED BY <1>1, <1>2, <2>1
<1>5. p \notin {"identifier", "info", "duplicate", "communicator handler"}
  BY <1>1, <1>2 DEF Leads, DetailPlace, NamePlace
<1>6. p \notin {"payload view", "payload", "payload flush", "payload read", "marker flush", "staging"}
  BY <1>2 DEF Leads, DetailPlace, NamePlace
<1>7. p \notin {"catalog validation", "datatype free", "file close", "communicator free", "view reset",
                "operation datatype free", "allocation", "flush", "cleanup", "commit"}
  BY <1>2 DEF Leads, DetailPlace, NamePlace
<1> QED BY <1>3, <1>4, <1>5, <1>6, <1>7 DEF Leads, BytesPlace

LEMMA AdvanceView ==
  ASSUME ControlInv, FileInv, NEW r \in Rank, NEW n, NEW w, Advance(r, n, w), Effect(r, n, w)
  PROVE  /\ view' \in [Rank -> [0..MaxSessions -> {"bytes", "payload"}]]
         /\ \A s \in Rank : ViewInv(s)'
<1> DEFINE f == File(r)
           Views == [0..MaxSessions -> {"bytes", "payload"}]
<1>1. /\ Busy(r) /\ Complete(r) /\ Target(r) = n
      /\ \A s \in Rank : s # r => Unmoved(s) /\ log'[s] = log[s]
  BY Advanced
<1>2. view \in [Rank -> Views] /\ f \in 0..MaxSessions
  BY <1>1, FileNumber DEF FileInv, FileType
<1>3. \/ view' = view /\ n # "open" /\ n \notin ViewPlace
      \/ n \in ViewPlace /\ \E v \in {"bytes", "payload"} :
           view' = [view EXCEPT ![r][f] = v] /\ (n # "payload view" /\ w.ok => v = "bytes")
      \/ n = "open" /\ view' = [view EXCEPT ![r][f] = "bytes"]
  <2>1. CASE n = "open"
    BY <2>1 DEF Effect
  <2>2. CASE n \in ViewPlace /\ n # "open"
    <3> DEFINE new == IF n = "payload view" THEN "payload" ELSE "bytes"
    <3>1. PICK v \in IF w.ok THEN {new} ELSE {new, view[r][f]} : view' = [view EXCEPT ![r][f] = v]
      BY <2>2 DEF Effect
    <3>2. view[r][f] \in {"bytes", "payload"}
      BY <1>2
    <3>3. v \in {"bytes", "payload"} /\ (n # "payload view" /\ w.ok => v = "bytes")
      BY <3>1, <3>2
    <3> QED BY <2>2, <3>1, <3>3
  <2>3. CASE n \notin ViewPlace /\ n # "open"
    BY <2>3 DEF Effect
  <2> QED BY <2>1, <2>2, <2>3
<1>4. /\ view' \in [Rank -> Views]
      /\ \A s \in Rank : s # r => view'[s] = view[s]
      /\ n \notin ViewPlace \union {"open"} => view'[r][f] = view[r][f]
      /\ n = "open" \/ (n \in {"byte view", "marker view"} /\ w.ok) => view'[r][f] = "bytes"
  <2> HIDE DEF f
  <2>1. ASSUME NEW v \in {"bytes", "payload"}, view' = [view EXCEPT ![r][f] = v]
        PROVE  /\ view' \in [Rank -> Views]
               /\ \A s \in Rank : s # r => view'[s] = view[s]
               /\ view'[r][f] = v
    <3>1. [view[r] EXCEPT ![f] = v] \in Views
      BY <1>2, <2>1
    <3>2. view' = [view EXCEPT ![r] = [view[r] EXCEPT ![f] = v]]
      BY <1>2, <2>1
    <3>3. view'[r] = [view[r] EXCEPT ![f] = v]
      BY <1>2, <3>2
    <3>4. view'[r][f] = v
      BY <1>2, <3>3
    <3> HIDE DEF Views
    <3> QED BY <1>2, <3>1, <3>2, <3>4
  <2> QED BY <1>2, <1>3, <2>1 DEF ViewPlace
<1>5. ASSUME NEW s \in Rank PROVE ViewInv(s)'
  <2>1. ViewInv(s)
    BY DEF FileInv
  <2>2. CASE s # r
    <3>1. /\ place'[s] = place[s] /\ File(s)' = File(s) /\ (Settled(s)' <=> Settled(s))
          /\ \A p : Did(s, p)' <=> Did(s, p)
      BY <1>1, <2>2, Bystander
    <3> QED BY <1>4, <2>1, <2>2, <3>1 DEF ViewInv
  <2>3. CASE s = r
    <3>1. /\ File(r)' = f /\ place'[r] = n /\ (Settled(r)' <=> Decided(r) = "none")
          /\ \A p : Did(r, p)' <=> p = n /\ w.ok
      BY AdvanceFile
    <3> SUFFICES ASSUME Decided(r) = "none",
                        n \in BytesPlace \/ (n \in {"open", "byte view", "marker view"} /\ w.ok)
                 PROVE  view'[r][f] = "bytes"
      BY <2>3, <3>1 DEF ViewInv
    <3>2. CASE n \in {"open", "byte view", "marker view"} /\ w.ok
      BY <1>4, <3>2
    <3>3. CASE n \in BytesPlace
      <4>1. Settled(r) /\ Own(r).word.ok
        BY <1>1, AllOk
      <4>2. n \notin ViewPlace \union {"open"} /\ n # "return"
        BY <3>3 DEF BytesPlace, ViewPlace
      <4>3. Leads(Op(r), place[r], n) /\ Fits(Op(r), place[r])
        BY <1>1, <4>2, Targets, FitsPlace
      <4>4. place[r] \in BytesPlace \union {"open", "byte view", "marker view"}
        BY <3>3, <4>3, BytesBefore
      <4>5. view[r][f] = "bytes"
        BY <2>1, <2>3, <4>1, <4>4 DEF ViewInv, Did
      <4> QED BY <1>4, <4>2, <4>5
    <3> QED BY <3>2, <3>3
  <2> QED BY <2>2, <2>3
<1> QED BY <1>4, <1>5

----------------------------------------------------------------------------
(* The file a writer is about.                                             *)

LEMMA PartsDiffer ==
  /\ "head" \in Part /\ "marker" \in Part /\ "head" # "marker" /\ Rank \subseteq Part
  /\ \A r \in Rank : r # "head" /\ r # "marker"
BY ContainerAssumption DEF Part

LEMMA RecordType ==
  ASSUME file \in Seq(Record), NEW i \in 1..Len(file)
  PROVE  file[i] \in Record /\ file[i].name \in Name /\ file[i].parts \in [Part -> State]
<1>1. file[i] \in Record
  OBVIOUS
<1> QED BY <1>1 DEF Record

(* A file to which something has been added. *)
LEMMA WithPart ==
  ASSUME file \in Seq(Record), NEW i \in Nat, NEW x \in Part
  PROVE  LET new == Cached(i, x)
         IN  /\ new \in Seq(Record) /\ Len(new) = Len(file)
             /\ \A j \in 1..Len(file) :
                  /\ new[j].name = file[j].name
                  /\ j # i => new[j] = file[j]
                  /\ \A y \in Part : new[j].parts[y] = IF j = i /\ y = x THEN "cached" ELSE file[j].parts[y]
<1> DEFINE new == Cached(i, x)
<1>0. Len(file) \in Nat /\ DOMAIN file = 1..Len(file)
  OBVIOUS
<1>1. CASE i \in 1..Len(file)
  <2> DEFINE rec == [file[i] EXCEPT !.parts = [file[i].parts EXCEPT ![x] = "cached"]]
  <2>1. file[i] \in Record /\ file[i].parts \in [Part -> State]
    BY <1>1, RecordType
  <2>2. new = [file EXCEPT ![i] = rec]
    BY DEF Cached
  <2>3. [file[i].parts EXCEPT ![x] = "cached"] \in [Part -> State]
    BY <2>1 DEF State
  <2>4. rec \in Record
    BY <2>1, <2>3 DEF Record
  <2>5. rec.name = file[i].name
    BY <2>1 DEF Record
  <2>6. rec.parts = [file[i].parts EXCEPT ![x] = "cached"]
    BY <2>1 DEF Record
  <2>7. \A y \in Part : rec.parts[y] = IF y = x THEN "cached" ELSE file[i].parts[y]
    BY <2>1, <2>6
  <2> HIDE DEF rec, new
  <2>8. new \in Seq(Record) /\ Len(new) = Len(file) /\ \A j \in 1..Len(file) : new[j] = IF j = i THEN rec ELSE file[j]
    BY <1>1, <2>2, <2>4
  <2> QED BY <2>5, <2>7, <2>8 DEF new
<1>2. CASE i \notin 1..Len(file)
  <2>1. new = file
    BY <1>0, <1>2 DEF Cached
  <2> QED BY <1>0, <1>2, <2>1
<1> QED BY <1>1, <1>2

LEMMA WithRecord ==
  ASSUME file \in Seq(Record), NEW state \in State, call[Root].name \in Name
  PROVE  LET new == WithHead(Len(file) + 1, state)
             n == Len(file) + 1
         IN  /\ new \in Seq(Record) /\ Len(new) = n
             /\ \A j \in 1..Len(file) : new[j] = file[j]
             /\ new[n].name = call[Root].name
             /\ new[n].parts["head"] = state
             /\ \A y \in Part : y # "head" => new[n].parts[y] = "absent"
<1> DEFINE rec == NewRecord(call[Root].name, state)
<1>0. Len(file) \in Nat
  OBVIOUS
<1>1. WithHead(Len(file) + 1, state) = Append(file, rec)
  BY <1>0 DEF WithHead
<1>2. [x \in Part |-> IF x = "head" THEN state ELSE "absent"] \in [Part -> State]
  BY DEF State
<1>3. rec \in Record /\ rec.name = call[Root].name
      /\ rec.parts = [x \in Part |-> IF x = "head" THEN state ELSE "absent"]
  BY <1>2 DEF NewRecord, Record
<1>4. rec.parts["head"] = state /\ \A y \in Part : y # "head" => rec.parts[y] = "absent"
  BY <1>3, PartsDiffer
<1> HIDE DEF rec
<1>5. /\ Append(file, rec) \in Seq(Record) /\ Len(Append(file, rec)) = Len(file) + 1
      /\ Append(file, rec)[Len(file) + 1] = rec
      /\ \A j \in 1..Len(file) : Append(file, rec)[j] = file[j]
  BY <1>0, <1>3
<1> QED BY <1>1, <1>3, <1>4, <1>5

(* Nothing has been written; more may be stored than before. *)
Firmer ==
  /\ file' \in Seq(Record) /\ Len(file') = Len(file) /\ container' \in State
  /\ \A i \in 1..Len(file) :
       /\ file'[i].name = file[i].name
       /\ \A x \in Part : /\ file'[i].parts[x] = "absent" <=> file[i].parts[x] = "absent"
                          /\ file[i].parts[x] = "stored" => file'[i].parts[x] = "stored"
       /\ Stored(file[i]) => file'[i] = file[i]
  /\ container' = "absent" <=> container = "absent"
  /\ container = "stored" => container' = "stored"

LEMMA SameIsFirmer ==
  ASSUME file \in Seq(Record), container \in State, file' = file, container' = container
  PROVE  Firmer
BY DEF Firmer

LEMMA SyncedIsFirmer ==
  ASSUME file \in Seq(Record), container \in State, NEW r \in Rank, Synced(r)
  PROVE  /\ Firmer
         /\ \A i \in 1..Len(file) : \A x \in WrittenBy(r) :
              file[i].parts[x] # "absent" => file'[i].parts[x] = "stored"
         /\ r = Root /\ container # "absent" => container' = "stored"
<1> DEFINE parts(i) == [x \in Part |-> IF x \in WrittenBy(r) /\ file[i].parts[x] = "cached"
                                       THEN "stored" ELSE file[i].parts[x]]
           rec(i) == [file[i] EXCEPT !.parts = parts(i)]
<1>0. Len(file) \in Nat /\ DOMAIN file = 1..Len(file) /\ WrittenBy(r) \subseteq Part
  BY PartsDiffer DEF WrittenBy
<1>1. file' = [i \in 1..Len(file) |-> rec(i)]
  BY <1>0 DEF Synced
<1>2. ASSUME NEW i \in 1..Len(file)
      PROVE  /\ rec(i) \in Record /\ rec(i).name = file[i].name
             /\ \A x \in Part : rec(i).parts[x] = IF x \in WrittenBy(r) /\ file[i].parts[x] = "cached"
                                                  THEN "stored" ELSE file[i].parts[x]
             /\ Stored(file[i]) => rec(i) = file[i]
  <2>1. file[i] \in Record /\ file[i].parts \in [Part -> State]
    BY RecordType
  <2>2. parts(i) \in [Part -> State]
    BY <2>1 DEF State
  <2>3. Stored(file[i]) => parts(i) = file[i].parts
    BY <2>1 DEF Stored
  <2>4. \A x \in Part : parts(i)[x] = IF x \in WrittenBy(r) /\ file[i].parts[x] = "cached"
                                      THEN "stored" ELSE file[i].parts[x]
    OBVIOUS
  <2> HIDE DEF parts
  <2>5. rec(i) \in Record /\ rec(i).name = file[i].name /\ rec(i).parts = parts(i)
    BY <2>1, <2>2 DEF Record
  <2>6. Stored(file[i]) => rec(i) = file[i]
    BY <2>1, <2>3 DEF Record
  <2> QED BY <2>4, <2>5, <2>6
<1> HIDE DEF rec, parts
<1>3. file' \in Seq(Record) /\ Len(file') = Len(file) /\ \A i \in 1..Len(file) : file'[i] = rec(i)
  BY <1>0, <1>1, <1>2
<1>4. ASSUME NEW i \in 1..Len(file)
      PROVE  /\ file'[i].name = file[i].name
             /\ \A x \in Part : /\ file'[i].parts[x] = "absent" <=> file[i].parts[x] = "absent"
                                /\ file[i].parts[x] = "stored" => file'[i].parts[x] = "stored"
             /\ Stored(file[i]) => file'[i] = file[i]
             /\ \A x \in WrittenBy(r) : file[i].parts[x] # "absent" => file'[i].parts[x] = "stored"
  <2>1. \A x \in Part : file'[i].parts[x] = IF x \in WrittenBy(r) /\ file[i].parts[x] = "cached"
                                            THEN "stored" ELSE file[i].parts[x]
    BY <1>2, <1>3
  <2>2. \A x \in Part : file[i].parts[x] \in {"absent", "cached", "stored"}
    BY RecordType DEF State
  <2>3. \A x \in WrittenBy(r) : file[i].parts[x] # "absent" => file'[i].parts[x] = "stored"
    BY <1>0, <2>1, <2>2
  <2>4. \A x \in Part : /\ file'[i].parts[x] = "absent" <=> file[i].parts[x] = "absent"
                        /\ file[i].parts[x] = "stored" => file'[i].parts[x] = "stored"
    BY <2>1, <2>2
  <2> QED BY <1>2, <1>3, <2>3, <2>4
<1>5. container' = IF r = Root /\ container = "cached" THEN "stored" ELSE container
  BY DEF Synced
<1>6. /\ container' \in State /\ (container' = "absent" <=> container = "absent")
      /\ container = "stored" => container' = "stored"
      /\ r = Root /\ container # "absent" => container' = "stored"
  BY <1>5 DEF State
<1> QED BY <1>3, <1>4, <1>6 DEF Firmer

(* What a firmer file still has. *)
LEMMA FirmerKeeps ==
  ASSUME file \in Seq(Record), Firmer
  PROVE  /\ Scanned' = Scanned /\ (file = <<>> => file' = <<>>)
         /\ \A n \in 0..Len(file) : AllStored(n) => AllStored(n)'
         /\ \A i \in 1..Len(file) : Stored(file[i]) => Stored(file'[i])
         /\ MarkerLast => MarkerLast'
         /\ NamesDiffer => NamesDiffer'
         /\ ToldStays /\ told' = told => ToldStays'
<1> DEFINE N == Len(file)
<1>0. N \in Nat /\ file' \in Seq(Record) /\ Len(file') = N
  BY DEF Firmer
<1>1. \A i \in 1..N :
        /\ file'[i].name = file[i].name
        /\ \A x \in Part : /\ file'[i].parts[x] = "absent" <=> file[i].parts[x] = "absent"
                           /\ file[i].parts[x] = "stored" => file'[i].parts[x] = "stored"
  BY DEF Firmer
<1> HIDE DEF N
<1>2. \A i \in 1..N : /\ Stored(file[i]) => Stored(file'[i])
                      /\ Listed(file[i]) <=> Listed(file'[i])
  BY <1>1, PartsDiffer DEF Stored, Listed
<1>3. \A n \in 0..N : AllStored(n) => AllStored(n)'
  <2> SUFFICES ASSUME NEW n \in 0..N, AllStored(n), NEW i \in 1..n PROVE Stored(file'[i])
    BY DEF AllStored
  <2>1. i \in 1..N
    BY <1>0
  <2> QED BY <1>2, <2>1 DEF AllStored
<1>4. Scanned' = Scanned
  <2>1. PICK k \in 0..N :
          /\ k = Prefix(Listed) /\ \A i \in 1..k : Listed(file[i])
          /\ k = N \/ ~ Listed(file[k + 1])
    BY ListedPrefix DEF N
  <2>2. (\A i \in 1..k : Listed(file'[i])) /\ (k = N \/ ~ Listed(file'[k + 1]))
    <3>1. \A i \in 1..k : i \in 1..N
      BY <1>0, <2>1
    <3>2. k # N => k + 1 \in 1..N
      BY <1>0, <2>1
    <3>3. ASSUME NEW i \in 1..k PROVE Listed(file'[i])
      <4>1. Listed(file[i]) /\ i \in 1..N
        BY <2>1, <3>1
      <4> QED BY <1>2, <4>1
    <3>4. k # N => ~ Listed(file'[k + 1])
      BY <1>2, <2>1, <3>2
    <3> QED BY <3>3, <3>4
  <2>3. (file \in Seq(Record) /\ k \in 0..Len(file) /\ (\A i \in 1..k : Listed(file[i]))
           /\ (k = Len(file) \/ ~ Listed(file[k + 1])) => Prefix(Listed) = k)'
    BY PrefixIs, PTL
  <2>4. Prefix(Listed)' = k
    BY <1>0, <2>2, <2>3
  <2>5. \A i \in 1..k : file'[i].name = file[i].name
    BY <1>0, <1>1, <2>1
  <2>6. {file'[i].name : i \in 1..k} = {file[i].name : i \in 1..k}
    BY <2>5
  <2>7. Scanned = [names |-> {file[i].name : i \in 1..k}, tail |-> k, size |-> N]
    <3>1. Prefix(Listed) = k
      BY <2>1
    <3> QED BY <3>1 DEF Scanned, Names, N
  <2>8. Scanned' = [names |-> {file'[i].name : i \in 1..k}, tail |-> k, size |-> N]
    BY <1>0, <2>4 DEF Scanned, Names
  <2> QED BY <2>6, <2>7, <2>8
<1>5. file = <<>> => file' = <<>>
  BY <1>0 DEF N
<1>6. MarkerLast => MarkerLast'
  <2> SUFFICES ASSUME MarkerLast, NEW i \in 1..N, file'[i].parts["marker"] # "absent",
                      NEW x \in Part \ {"marker"}
               PROVE  file'[i].parts[x] = "stored"
    BY <1>0 DEF MarkerLast
  <2>1. file[i].parts["marker"] # "absent"
    BY <1>1, PartsDiffer
  <2>2. file[i].parts[x] = "stored"
    BY <2>1 DEF MarkerLast, N
  <2> QED BY <1>1, <2>2
<1>7. NamesDiffer => NamesDiffer'
  BY <1>0, <1>1 DEF NamesDiffer, N
<1>8. ToldStays /\ told' = told => ToldStays'
  <2> SUFFICES ASSUME ToldStays, told' = told PROVE ToldStays'
    OBVIOUS
  <2>1. ASSUME NEW m \in told PROVE \E i \in 1..N : file'[i].name = m /\ AllStored(i)'
    <3>1. PICK i \in 1..N : file[i].name = m /\ AllStored(i)
      BY <2>1 DEF ToldStays, N
    <3>2. i \in 0..N
      BY <1>0
    <3> QED BY <1>1, <1>3, <3>1, <3>2
  <2>2. told # {} => container' = "stored"
    BY DEF ToldStays, Firmer
  <2> QED BY <1>0, <2>1, <2>2 DEF ToldStays
<1> QED BY <1>2, <1>3, <1>4, <1>5, <1>6, <1>7, <1>8 DEF N

(* What writes, and what only stores what was written. *)
LEMMA AdvanceWrites ==
  ASSUME ControlInv, FileInv, NEW r \in Rank, NEW n, NEW w, Advance(r, n, w), Effect(r, n, w)
  PROVE  /\ created' \in BOOLEAN /\ (created => created') /\ told' = told
         /\ n = "open" /\ w.ok => MayOpen(r) /\ (Creates(r) => created')
         /\ \/ /\ Firmer
               /\ n \in WritePlace /\ w.ok => r # Root /\ n # "payload"
               /\ n \in FlushPlace /\ w.ok =>
                    /\ \A i \in 1..Len(file) : \A x \in WrittenBy(r) :
                         file[i].parts[x] # "absent" => file'[i].parts[x] = "stored"
                    /\ r = Root /\ container # "absent" => container' = "stored"
            \/ n = "container" /\ r = Root /\ container' = "cached" /\ file' = file
            \/ /\ n = "head" /\ r = Root /\ container' = container
               /\ \E state \in {"absent", "cached"} :
                    file' = WithHead(Index(r), state) /\ (w.ok => state = "cached")
            \/ n = "payload" /\ container' = container /\ file' = Cached(Index(r), r)
            \/ n = "marker" /\ r = Root /\ container' = container /\ file' = Cached(Index(r), "marker")
<1>1. file \in Seq(Record) /\ container \in State /\ created \in BOOLEAN
  BY DEF FileInv, FileType
<1>2. told' = told
  BY DEF Advance, Vote
<1>3. created' \in BOOLEAN /\ (created => created') /\ (n = "open" /\ w.ok => MayOpen(r) /\ (Creates(r) => created'))
  <2>1. CASE n = "open"
    <3>1. created' \in IF ~ Creates(r) THEN {created} ELSE IF w.ok THEN {TRUE} ELSE {created, TRUE}
      BY <2>1 DEF Effect
    <3>2. w.ok => MayOpen(r)
      BY <2>1 DEF Effect
    <3> QED BY <1>1, <2>1, <3>1, <3>2
  <2>2. CASE n # "open"
    BY <1>1, <2>2 DEF Effect
  <2> QED BY <2>1, <2>2
<1>4. w.ok \in BOOLEAN
  BY DEF Advance
<1>5. CASE file' = file /\ container' = container /\ n \notin FlushPlace /\ (n \in WritePlace /\ w.ok => r # Root /\ n # "payload")
  BY <1>1, <1>2, <1>3, <1>5, SameIsFirmer
<1>6. CASE n \in FlushPlace
  <2>1. n \notin WritePlace
    BY <1>6 DEF FlushPlace, WritePlace
  <2>2. CASE w.ok
    <3>1. Synced(r)
      BY <1>6, <2>2 DEF Effect
    <3> QED BY <1>1, <1>2, <1>3, <2>1, <3>1, SyncedIsFirmer
  <2>3. CASE ~ w.ok
    <3>1. file' = file /\ container' = container
      BY <1>6, <2>3 DEF Effect, disk
    <3> QED BY <1>1, <1>2, <1>3, <2>1, <2>3, <3>1, SameIsFirmer
  <2> QED BY <2>2, <2>3
<1>7. CASE n = "container"
  <2>1. n \notin FlushPlace /\ file' = file
    BY <1>7 DEF FlushPlace, Effect
  <2>2. container' \in IF r # Root THEN {container} ELSE IF w.ok THEN {"cached"} ELSE {container, "cached"}
    BY <1>7 DEF Effect
  <2>3. (container' = container /\ (w.ok => r # Root)) \/ (r = Root /\ container' = "cached")
    BY <1>4, <2>2
  <2> QED BY <1>2, <1>3, <1>5, <1>7, <2>1, <2>3
<1>8. CASE n = "head"
  <2>1. n \notin FlushPlace /\ container' = container
    BY <1>8 DEF FlushPlace, Effect
  <2>2. file' \in IF r # Root THEN {file}
                  ELSE IF w.ok THEN {WithHead(Index(r), "cached")}
                  ELSE {file, WithHead(Index(r), "absent"), WithHead(Index(r), "cached")}
    BY <1>8 DEF Effect
  <2>3. \/ file' = file /\ (w.ok => r # Root)
        \/ r = Root /\ \E state \in {"absent", "cached"} :
                         file' = WithHead(Index(r), state) /\ (w.ok => state = "cached")
    BY <1>4, <2>2
  <2> QED BY <1>2, <1>3, <1>5, <1>8, <2>1, <2>3
<1>9. CASE n = "payload"
  <2>1. n \notin FlushPlace /\ container' = container
    BY <1>9 DEF FlushPlace, Effect
  <2>2. file' \in IF w.ok THEN {Cached(Index(r), r)} ELSE {file, Cached(Index(r), r)}
    BY <1>9 DEF Effect
  <2>3. (file' = file /\ ~ w.ok) \/ file' = Cached(Index(r), r)
    BY <1>4, <2>2
  <2> QED BY <1>2, <1>3, <1>5, <1>9, <2>1, <2>3
<1>10. CASE n = "marker"
  <2>1. n \notin FlushPlace /\ container' = container
    BY <1>10 DEF FlushPlace, Effect
  <2>2. file' \in IF r # Root THEN {file}
                  ELSE IF w.ok THEN {Cached(Index(r), "marker")} ELSE {file, Cached(Index(r), "marker")}
    BY <1>10 DEF Effect
  <2>3. (file' = file /\ (w.ok => r # Root)) \/ (r = Root /\ file' = Cached(Index(r), "marker"))
    BY <1>4, <2>2
  <2> QED BY <1>2, <1>3, <1>5, <1>10, <2>1, <2>3
<1>11. CASE n \notin WritePlace \union FlushPlace
  <2>1. file' = file /\ container' = container
    BY <1>11 DEF Effect
  <2> QED BY <1>5, <1>11, <2>1
<1> QED BY <1>6, <1>7, <1>8, <1>9, <1>10, <1>11 DEF WritePlace

----------------------------------------------------------------------------
(* What a rank knows when it goes on without an error.                     *)

LEMMA OpKinds ==
  /\ NewOp \intersect AppendOp = {} /\ "write_named" \notin NewOp \union AppendOp
  /\ WritingOp = NewOp \union AppendOp \union {"write_named"} /\ WritingOp \subseteq NamedOp
  /\ WritingOp \intersect ReadingOp = {} /\ WritingOp \intersect OpenOp = {}
  /\ "named_catalog" \notin WritingOp /\ "read_named" \notin WritingOp /\ "catalog" \notin WritingOp
  /\ "flush" \notin WritingOp /\ "close" \notin WritingOp /\ "create" \notin WritingOp
  /\ NewOp \union AppendOp \subseteq PathOp /\ "write_named" \notin PathOp
  /\ OpenOp \intersect PathOp = {} /\ OpenOp \intersect InSession = {}
  /\ PathOp \intersect InSession = {}
BY DEF NewOp, AppendOp, WritingOp, ReadingOp, OpenOp, PathOp, InSession, Collection, NamedOp

(* The places before those of a write. *)
LEMMA WriterFrom ==
  ASSUME NEW o \in WritingOp, NEW p, NEW n, Leads(o, p, n), Fits(o, p)
  PROVE  /\ n = "head" => p = IF o \in NewOp THEN "container" ELSE "datatype"
         /\ n = "header flush" => p = "head"
         /\ n = "payload view" => p = "header flush"
         /\ n = "payload" => p = "payload view"
         /\ n = "payload flush" => p = "payload"
         /\ n = "marker view" => p = "payload flush"
         /\ n = "marker" => p = "marker view"
         /\ n = "marker flush" => p = "marker"
         /\ n \in AfterCommit => p = "marker flush" \/ p \in AfterCommit
<1>1. p = "options" => n = "name"
  <2>1. p = "options" => o \in InSession
    BY OpKinds DEF Fits, InSession, NewOp, AppendOp, PathOp, SessionOp, OpenOp
  <2> QED BY <2>1 DEF Leads, NamePlace, DetailPlace
<1>2. p = "descriptor" => n \notin CommitPlace \union AfterCommit
  BY DEF Leads, NamePlace, DetailPlace, CommitPlace, AfterCommit, ClosePlace
<1>3. p \in NamePlace \union DetailPlace => n \notin CommitPlace \union AfterCommit
  <2>1. p \in NamePlace \union DetailPlace => n \in DetailPlace \union {"duplicate", "byte view", "identifier"}
    BY DEF Leads, DetailPlace, NamePlace
  <2> QED BY <2>1 DEF DetailPlace, CommitPlace, AfterCommit, ClosePlace
<1>4. p \notin {"payload read", "staging", "catalog validation", "metadata"}
  BY OpKinds DEF Fits
<1>5. /\ p = "datatype" => n = IF o \in NewOp THEN "container" ELSE "head"
      /\ p = "container" => n = "head"
      /\ p = "header flush" => n = "payload view"
      /\ p = "payload view" => n = "payload"
  BY OpKinds DEF Leads, Fits, NamePlace, DetailPlace
<1>6. ASSUME n \in CommitPlace \union AfterCommit
      PROVE  p \in {"datatype", "container"} \union CommitPlace \union AfterCommit
  <2>1. p \notin {"identifier", "info", "duplicate", "communicator handler", "open", "file handler"}
    BY <1>6, OpKinds DEF Leads, NamePlace, DetailPlace, CommitPlace, AfterCommit, ClosePlace
  <2>2. p \notin {"byte view", "size", "report", "decode", "record", "allocation", "flush", "commit"}
    BY <1>6, OpKinds DEF Leads, NamePlace, DetailPlace, CommitPlace, AfterCommit, ClosePlace
  <2>3. p # "options" /\ p # "descriptor" /\ p \notin NamePlace \union DetailPlace
    BY <1>1, <1>2, <1>3, <1>6 DEF CommitPlace, AfterCommit, ClosePlace
  <2>4. p \in AnyPlace /\ p # "return"
    BY DEF Fits, Leads, NamePlace, DetailPlace
  <2> QED BY <1>4, <2>1, <2>2, <2>3, <2>4
        DEF AnyPlace, ClosePlace, AcquirePlace, ScanPlace, CommitPlace, AfterCommit
<1>7. ASSUME n \in CommitPlace, p \in {"datatype", "container"} \union CommitPlace \union AfterCommit
      PROVE  /\ n = "head" => p = IF o \in NewOp THEN "container" ELSE "datatype"
             /\ n = "header flush" => p = "head"
             /\ n = "payload view" => p = "header flush"
             /\ n = "payload" => p = "payload view"
             /\ n = "payload flush" => p = "payload"
             /\ n = "marker view" => p = "payload flush"
             /\ n = "marker" => p = "marker view"
             /\ n = "marker flush" => p = "marker"
  <2>1. p \notin AfterCommit
    BY <1>7 DEF Leads, NamePlace, DetailPlace, CommitPlace, AfterCommit, ClosePlace
  <2>2. /\ p = "head" => n = "header flush"
        /\ p = "payload" => n = "payload flush"
        /\ p = "payload flush" => n = "marker view"
        /\ p = "marker view" => n = "marker"
        /\ p = "marker" => n = "marker flush"
        /\ p = "marker flush" => n \in {"view reset", "datatype free"}
    BY DEF Leads, NamePlace, DetailPlace
  <2>3. p = "container" => o \in NewOp
    BY OpKinds DEF Fits
  <2> QED BY <1>5, <1>7, <2>1, <2>2, <2>3 DEF CommitPlace
<1>8. ASSUME n \in AfterCommit PROVE p = "marker flush" \/ p \in AfterCommit
  <2>1. p \notin {"datatype", "container", "head", "header flush", "payload view", "payload",
                  "payload flush", "marker view", "marker"}
    BY <1>5, <1>8 DEF Leads, NamePlace, DetailPlace, AfterCommit, ClosePlace
  <2> QED BY <1>6, <1>8, <2>1 DEF CommitPlace
<1> QED BY <1>6, <1>7, <1>8 DEF CommitPlace

(* After its head, a write has been there or at its head before. *)
LEMMA AfterHeadFrom ==
  ASSUME NEW o \in WritingOp, NEW p, NEW n \in AfterHead, Leads(o, p, n), Fits(o, p)
  PROVE  /\ p = "head" \/ p \in AfterHead
         /\ n # "header flush" => p \in AfterHead /\ p # "head"
<1>1. n \in AfterCommit \/ n \in CommitPlace \ {"head"}
  BY DEF AfterHead
<1>2. {"marker flush", "header flush", "payload view", "payload", "payload flush", "marker view", "marker"}
        \subseteq AfterHead
  BY DEF AfterHead, CommitPlace
<1>3. "head" \notin AfterHead /\ AfterCommit \subseteq AfterHead
  BY DEF AfterHead, CommitPlace, AfterCommit, ClosePlace
<1>4. CASE n \in AfterCommit
  <2>1. p = "marker flush" \/ p \in AfterCommit
    BY <1>4, WriterFrom
  <2> QED BY <1>2, <1>3, <2>1
<1>5. CASE n \in CommitPlace \ {"head"}
  <2>1. n = "header flush" \/ n \in {"payload view", "payload", "payload flush", "marker view", "marker", "marker flush"}
    BY <1>5 DEF CommitPlace
  <2>2. n = "header flush" => p = "head"
    BY WriterFrom
  <2>3. n \in {"payload view", "payload", "payload flush", "marker view", "marker", "marker flush"} =>
          p \in {"header flush", "payload view", "payload", "payload flush", "marker view", "marker"}
    BY WriterFrom
  <2> QED BY <1>2, <1>3, <2>1, <2>2, <2>3
<1> QED BY <1>1, <1>4, <1>5

(* A rank that goes on without an error to place n. *)
Fine(r, n) ==
  /\ Busy(r) /\ Complete(r) /\ ~ MustAbort(r) /\ Decided(r) = "none" /\ Target(r) = n /\ n # "return"

LEMMA FineFrom ==
  ASSUME ControlInv, NEW r \in Rank, NEW n, Fine(r, n), n # "return"
  PROVE  /\ Settled(r) /\ Own(r).word.ok /\ Leads(Op(r), place[r], n) /\ Fits(Op(r), place[r])
         /\ \A p : place[r] = p => Did(r, p)
         /\ \A q \in Rank :
              /\ Settled(q) /\ Op(q) = Op(r) /\ Alike(r, q, n)
              /\ Did(q, place[r]) \/ place[q] = n
              /\ place[r] # "report" /\ n \notin {"report", "decode"} => seen[q] = seen[r]
<1>1. /\ Busy(r) /\ Complete(r) /\ ~ MustAbort(r) /\ Decided(r) = "none" /\ Target(r) = n
  BY DEF Fine
<1>2. Settled(r) /\ Own(r).word.ok /\ \A q \in Rank : WordOf(q, r).ok
  BY <1>1, AllOk
<1>3. Leads(Op(r), place[r], n) /\ Fits(Op(r), place[r])
  BY <1>1, Targets, FitsPlace
<1>4. \A p : place[r] = p => Did(r, p)
  BY <1>2 DEF Did
<1>5. ASSUME NEW q \in Rank
      PROVE  /\ Settled(q) /\ Op(q) = Op(r) /\ Alike(r, q, n)
             /\ Did(q, place[r]) \/ place[q] = n
             /\ place[r] # "report" /\ n \notin {"report", "decode"} => seen[q] = seen[r]
  BY <1>1, <1>2, Neighbours DEF Did
<1> QED BY <1>2, <1>3, <1>4, <1>5

(* The record that the root has begun is the one the others are about. *)
LEMMA HeadDone ==
  ASSUME ControlInv, FileInv, NEW r \in Rank, NEW n \in AfterHead, Fine(r, n), Op(r) \in WritingOp,
         place[r] = "head"
  PROVE  /\ Has(Root) /\ Len(file) >= 1 /\ Index(r) = Len(file) /\ file[Len(file)].name = call[r].name
<1>1. Root \in Rank
  BY ContainerAssumption
<1>2. n \notin {"report", "decode", "return", "descriptor", "options"} \union NamePlace
  BY DEF AfterHead, CommitPlace, AfterCommit, ClosePlace, NamePlace
<1>3. /\ Settled(Root) /\ Op(Root) = Op(r) /\ Alike(r, Root, n)
      /\ Did(Root, "head") \/ place[Root] = n
      /\ seen[Root] = seen[r]
  BY <1>1, <1>2, FineFrom
<1>4. Has(Root)
  BY <1>3 DEF Has, Writer
<1>5. Len(file) >= 1 /\ Index(Root) = Len(file) /\ file[Len(file)].name = call[Root].name
  BY <1>1, <1>4 DEF FileInv, WriteInv
<1>6. Index(Root) = Index(r)
  BY <1>3 DEF Index
<1>7. call[r].name = call[Root].name
  BY <1>2, <1>3, OpKinds DEF Alike
<1> QED BY <1>4, <1>5, <1>6, <1>7

LEMMA WriterReady ==
  ASSUME ControlInv, FileInv, NEW r \in Rank, NEW n \in AfterHead, Fine(r, n), Op(r) \in WritingOp
  PROVE  LET m == Len(file)
             parts == file[m].parts
         IN  /\ m >= 1 /\ Index(r) = m /\ file[m].name = call[r].name
             /\ n = "payload flush" => parts[r] # "absent"
             /\ n \in {"marker view", "marker", "marker flush"} => parts[r] = "stored"
             /\ n \in AfterCommit => container = "stored" /\ AllStored(m)
<1> DEFINE m == Len(file)
           parts == file[m].parts
<1>1. /\ Settled(r) /\ Leads(Op(r), place[r], n) /\ Fits(Op(r), place[r])
      /\ \A p : place[r] = p => Did(r, p)
  BY FineFrom DEF AfterHead, CommitPlace, AfterCommit, ClosePlace
<1>2. CASE n = "header flush"
  <2>1. place[r] = "head" /\ n \notin AfterCommit
    BY <1>1, <1>2, WriterFrom DEF AfterCommit, ClosePlace
  <2> QED BY <1>2, <2>1, HeadDone
<1>3. CASE n # "header flush"
  <2>1. place[r] \in AfterHead
    BY <1>1, <1>3, AfterHeadFrom
  <2>2. Has(r)
    BY <1>1, <2>1 DEF Has, Writer
  <2>3. /\ m >= 1 /\ Index(r) = m /\ file[m].name = call[r].name
        /\ Did(r, "payload") => parts[r] # "absent"
        /\ Did(r, "payload flush") \/ place[r] \in {"marker view", "marker", "marker flush"} =>
             parts[r] = "stored"
        /\ place[r] \in AfterCommit => container = "stored" /\ AllStored(m)
    BY <2>2 DEF FileInv, WriteInv
  <2>4. /\ n = "payload flush" => parts[r] # "absent"
        /\ n \in {"marker view", "marker", "marker flush"} => parts[r] = "stored"
    BY <1>1, <2>3, WriterFrom
  <2>5. ASSUME n \in AfterCommit, place[r] = "marker flush" PROVE container = "stored" /\ AllStored(m)
    <3>1. Root \in Rank
      BY ContainerAssumption
    <3>2. /\ Settled(Root) /\ Op(Root) = Op(r)
          /\ Did(Root, "marker flush") \/ place[Root] = n
      BY <2>5, <3>1, FineFrom DEF AfterCommit, ClosePlace
    <3>3. CASE place[Root] = n
      <4>1. Has(Root)
        BY <2>5, <3>2, <3>3 DEF Has, Writer, AfterHead
      <4> QED BY <2>5, <3>1, <3>3, <4>1 DEF FileInv, WriteInv
    <3>4. CASE Did(Root, "marker flush")
      <4>1. place[Root] = "marker flush"
        BY <3>4 DEF Did
      <4>2. Has(Root) /\ place[Root] \in AfterHead \ {"header flush"}
        BY <3>2, <4>1 DEF Has, Writer, AfterHead, CommitPlace
      <4>3. container = "stored" /\ AllStored(m - 1) /\ Stored(file[m])
        BY <3>4, <4>2 DEF FileInv, RootInv
      <4>4. AllStored(m)
        <5>1. m \in Nat
          BY DEF FileInv, FileType
        <5>2. \A i \in 1..m : i \in 1..(m - 1) \/ i = m
          BY <5>1
        <5> QED BY <4>3, <5>2 DEF AllStored
      <4> QED BY <4>3, <4>4
    <3> QED BY <3>2, <3>3, <3>4
  <2>6. n \in AfterCommit => container = "stored" /\ AllStored(m)
    BY <1>1, <2>3, <2>5, WriterFrom
  <2> QED BY <2>3, <2>4, <2>6
<1> QED BY <1>2, <1>3

(* What the root knows of the record beside its payload. *)
LEMMA RootReady ==
  ASSUME ControlInv, FileInv, NEW n \in AfterHead, Fine(Root, n), Op(Root) \in WritingOp
  PROVE  LET m == Len(file)
             parts == file[m].parts
         IN  /\ container # "absent" /\ parts["head"] # "absent"
             /\ \A i \in 1..(m - 1) : file[i].parts["marker"] # "absent"
             /\ n # "header flush" => container = "stored" /\ parts["head"] = "stored" /\ AllStored(m - 1)
             /\ n \in BeforeMarker \union {"marker"} => parts["marker"] = "absent"
             /\ n = "marker flush" => parts["marker"] # "absent"
<1> DEFINE m == Len(file)
           parts == file[m].parts
<1>0. Root \in Rank
  BY ContainerAssumption
<1>1. /\ Settled(Root) /\ Leads(Op(Root), place[Root], n) /\ Fits(Op(Root), place[Root])
      /\ \A p : place[Root] = p => Did(Root, p)
  BY <1>0, FineFrom DEF AfterHead, CommitPlace, AfterCommit, ClosePlace
<1>2. place[Root] = "head" \/ place[Root] \in AfterHead
  BY <1>1, AfterHeadFrom
<1>3. Has(Root)
  BY <1>1, <1>2 DEF Has, Writer
<1>4. /\ container # "absent"
      /\ parts["head"] # "absent"
      /\ \A i \in 1..(m - 1) : file[i].parts["marker"] # "absent"
      /\ Did(Root, "header flush") \/ place[Root] \in AfterHead \ {"header flush"} =>
           container = "stored" /\ parts["head"] = "stored" /\ AllStored(m - 1)
      /\ place[Root] \in {"head"} \union BeforeMarker => parts["marker"] = "absent"
      /\ Did(Root, "marker") => parts["marker"] # "absent"
  BY <1>3 DEF FileInv, RootInv
<1>5. n # "header flush" => container = "stored" /\ parts["head"] = "stored" /\ AllStored(m - 1)
  <2>1. n # "header flush" => place[Root] # "head"
    BY <1>1, AfterHeadFrom
  <2> QED BY <1>1, <1>2, <1>4, <2>1
<1>6. n \in BeforeMarker \union {"marker"} => parts["marker"] = "absent"
  <2>1. n \in BeforeMarker \union {"marker"} => place[Root] \in {"head"} \union BeforeMarker
    BY <1>1, WriterFrom DEF BeforeMarker
  <2> QED BY <1>4, <2>1
<1>7. n = "marker flush" => parts["marker"] # "absent"
  BY <1>1, <1>4, WriterFrom
<1> QED BY <1>4, <1>5, <1>6, <1>7

(* The places before those of a scan and of a new file. *)
LEMMA ScanFrom ==
  ASSUME NEW o \in AppendOp \union {"write_named"}, NEW p, NEW n, Leads(o, p, n), Fits(o, p)
  PROVE  /\ n = "decode" => p = "report"
         /\ n = "record" => p = "decode"
         /\ n = "datatype" => p \in {"decode", "record"}
         /\ n = "head" => p = "datatype"
<1>1. o \in WritingOp /\ o \notin NewOp /\ o \notin OpenOp
  BY OpKinds
<1>2. p \in NamePlace \union DetailPlace => n \in DetailPlace \union {"duplicate", "byte view", "identifier"}
  BY DEF Leads, DetailPlace, NamePlace
<1>3. p \in {"descriptor", "options"} => n \in DetailPlace \union NamePlace \union {"byte view", "flush", "datatype free", "options"}
  BY DEF Leads, DetailPlace, NamePlace
<1>4. ASSUME n \in {"decode", "record", "datatype"}
      PROVE  p \notin NamePlace \union DetailPlace \union {"descriptor", "options"}
  BY <1>2, <1>3, <1>4 DEF DetailPlace, NamePlace
<1>5. n = "decode" => p = "report"
  BY <1>4 DEF Leads
<1>6. n = "record" => p = "decode"
  BY <1>4 DEF Leads
<1>7. n = "datatype" => p \in {"decode", "record"}
  <2>1. p # "metadata"
    BY <1>1, OpKinds DEF Fits
  <2> QED BY <1>1, <1>4, <2>1 DEF Leads
<1>8. n = "head" => p = "datatype"
  BY <1>1, WriterFrom
<1> QED BY <1>5, <1>6, <1>7, <1>8

LEMMA NewFrom ==
  ASSUME NEW o \in NewOp \union {"create"}, NEW p, NEW n, Leads(o, p, n), Fits(o, p)
  PROVE  /\ n = "file handler" => p = "open"
         /\ n \in {"datatype", "container"} => p \in {"file handler", "datatype"}
<1>2. p \in NamePlace \union DetailPlace => n \in DetailPlace \union {"duplicate", "byte view", "identifier"}
  BY DEF Leads, DetailPlace, NamePlace
<1>3. p \in {"descriptor", "options"} => n \in DetailPlace \union NamePlace \union {"byte view", "flush", "datatype free", "options"}
  BY DEF Leads, DetailPlace, NamePlace
<1>4. ASSUME n \in {"file handler", "datatype", "container"}
      PROVE  p \notin NamePlace \union DetailPlace \union {"descriptor", "options"}
  BY <1>2, <1>3, <1>4 DEF DetailPlace, NamePlace
<1>5. n = "file handler" => p = "open"
  BY <1>4 DEF Leads
<1>6. p \notin {"decode", "record", "metadata"}
  BY OpKinds DEF Fits, ScanPlace, InSession, NewOp
<1>7. n = "datatype" => p = "file handler"
  BY <1>4, <1>6 DEF Leads
<1>8. n = "container" => p \in {"file handler", "datatype"}
  BY <1>4 DEF Leads
<1> QED BY <1>5, <1>7, <1>8

(* A new file is empty until the root writes to it. *)
LEMMA NewReady ==
  ASSUME ControlInv, FileInv, NEW n \in {"file handler", "datatype", "container"}, Fine(Root, n),
         Creates(Root)
  PROVE  created /\ file = <<>>
<1>0. Root \in Rank /\ Op(Root) \in NewOp \union {"create"}
  BY ContainerAssumption DEF Creates
<1>1. /\ Settled(Root) /\ Leads(Op(Root), place[Root], n) /\ Fits(Op(Root), place[Root])
      /\ \A p : place[Root] = p => Did(Root, p)
  BY <1>0, FineFrom
<1>2. place[Root] \in {"open", "file handler", "datatype"}
  BY <1>0, <1>1, NewFrom
<1>3. NewInv(Root)
  BY <1>0 DEF FileInv
<1>4. CASE place[Root] = "open"
  BY <1>1, <1>3, <1>4 DEF NewInv
<1>5. CASE place[Root] \in {"file handler", "datatype"}
  BY <1>1, <1>3, <1>5 DEF NewInv
<1> QED BY <1>2, <1>4, <1>5

ScanningOp == AppendOp \union {"write_named"}

(* The root writes after what it has found. *)
LEMMA ScanReady ==
  ASSUME ControlInv, FileInv, NEW n \in {"decode", "record", "datatype", "head"}, Fine(Root, n),
         Op(Root) \in ScanningOp
  PROVE  /\ seen[Root] = Scanned /\ container # "absent" /\ created
         /\ n # "decode" => seen[Root].tail = seen[Root].size /\ call[Root].name \notin seen[Root].names
<1>0. Root \in Rank /\ n # "return"
  BY ContainerAssumption
<1>1. /\ Settled(Root) /\ Leads(Op(Root), place[Root], n) /\ Fits(Op(Root), place[Root])
      /\ \A p : place[Root] = p => Did(Root, p)
      /\ Busy(Root) /\ Complete(Root) /\ Error(Root) = "none" /\ \A q \in Rank : WordOf(q, Root).ok
  BY <1>0, FineFrom, AllOk DEF Fine
<1>2. /\ n = "decode" => place[Root] = "report"
      /\ n = "record" => place[Root] = "decode"
      /\ n = "datatype" => place[Root] \in {"decode", "record"}
      /\ n = "head" => place[Root] = "datatype"
  BY <1>1, ScanFrom DEF ScanningOp
<1>3. /\ place[Root] \in {"report", "decode", "record", "datatype"} => seen[Root] = Scanned
      /\ place[Root] \in {"decode", "record", "datatype"}
           \/ (Did(Root, "report") /\ Own(Root).word.about = "none") => container # "absent" /\ created
      /\ place[Root] \in {"record", "datatype"} =>
           seen[Root].tail = seen[Root].size /\ call[Root].name \notin seen[Root].names
  BY <1>1 DEF FileInv, ScanInv, ScanningOp
<1>4. place[Root] = "report" => Own(Root).word.about = "none"
  <2>1. Ahead(Root, Root) = 0
    BY <1>0, RankParts, AheadType
  <2>2. WordOf(Root, Root) = Own(Root).word
    BY <2>1 DEF WordOf, Own
  <2>3. \A w \in Words(Root) : w.ok
    BY <1>1 DEF Words
  <2> QED BY <1>1, <2>2, <2>3 DEF Error
<1>5. place[Root] = "decode" => Rejected(Root) = "none"
  <2>1. Refusal(Root) # "none"
    BY DEF Refusal
  <2> QED BY <1>1, <2>1 DEF Error
<1>6. Rejected(Root) = "none" => seen[Root].tail = seen[Root].size /\ call[Root].name \notin seen[Root].names
  BY DEF Rejected, ScanningOp
<1>7. seen[Root] = Scanned /\ container # "absent" /\ created
  BY <1>1, <1>2, <1>3, <1>4
<1>8. n # "decode" => seen[Root].tail = seen[Root].size /\ call[Root].name \notin seen[Root].names
  BY <1>2, <1>3, <1>5, <1>6
<1> QED BY <1>7, <1>8

(* The name of a record to write is that of the call. *)
LEMMA CallName ==
  ASSUME ControlInv, NEW r \in Rank, Busy(r), Op(r) \in WritingOp
  PROVE  call[r].name \in Name
BY RankParts, OpKinds DEF PlaceInv, CallInv

(* The root begins a record behind all others, under a new name. *)
LEMMA HeadReady ==
  ASSUME ControlInv, FileInv, Fine(Root, "head")
  PROVE  /\ Op(Root) \in WritingOp /\ Index(Root) = Len(file) + 1 /\ created /\ container # "absent"
         /\ call[Root].name \in Name
         /\ \A i \in 1..Len(file) : file[i].parts["marker"] # "absent" /\ file[i].name # call[Root].name
<1>0. Root \in Rank /\ file \in Seq(Record) /\ Len(file) \in Nat
  BY ContainerAssumption DEF FileInv, FileType
<1>1. /\ Settled(Root) /\ Leads(Op(Root), place[Root], "head") /\ Fits(Op(Root), place[Root])
      /\ \A p : place[Root] = p => Did(Root, p)
  BY <1>0, FineFrom
<1>2. Fits(Op(Root), "head") /\ Busy(Root)
  BY <1>0, Targets DEF Fine
<1>3. Op(Root) \in WritingOp /\ call[Root].name \in Name
  <2>1. Op(Root) \in WritingOp
    BY <1>2 DEF Fits, CommitPlace
  <2> QED BY <1>0, <1>2, <2>1, CallName
<1>4. CASE Op(Root) \in NewOp
  <2>1. Did(Root, "container") /\ place[Root] = "container"
    BY <1>1, <1>3, <1>4, WriterFrom
  <2>2. container # "absent"
    BY <1>1, <1>4, <2>1 DEF FileInv, HeaderInv
  <2>3. Creates(Root)
    BY <1>4 DEF Creates
  <2>4. created /\ file = <<>>
    BY <1>0, <1>1, <2>1, <2>3 DEF FileInv, NewInv
  <2>5. Index(Root) = 1
    BY <1>4, OpKinds, Zenon DEF Index
  <2>6. Len(file) = 0
    BY <2>4
  <2> QED BY <1>3, <2>2, <2>4, <2>5, <2>6
<1>5. CASE Op(Root) \notin NewOp
  <2>1. Op(Root) \in ScanningOp
    BY <1>3, <1>5, OpKinds DEF ScanningOp
  <2>2. /\ seen[Root] = Scanned /\ container # "absent" /\ created
        /\ seen[Root].tail = seen[Root].size /\ call[Root].name \notin seen[Root].names
    BY <2>1, ScanReady
  <2>3. PICK k \in 0..Len(file) : k = Prefix(Listed) /\ \A i \in 1..k : Listed(file[i])
    BY <1>0, ListedPrefix
  <2>4. Scanned.names = {file[i].name : i \in 1..k} /\ Scanned.tail = k /\ Scanned.size = Len(file)
    <3>1. Prefix(Listed) = k
      BY <2>3
    <3> QED BY <3>1 DEF Scanned, Names
  <2>5. k = Len(file)
    BY <2>2, <2>4
  <2>6. \A i \in 1..Len(file) : file[i].parts["marker"] # "absent" /\ file[i].name # call[Root].name
    <3>1. \A i \in 1..k : file[i].parts["marker"] # "absent"
      BY <2>3 DEF Listed
    <3>2. \A i \in 1..k : file[i].name # call[Root].name
      BY <2>2, <2>4
    <3> QED BY <2>5, <3>1, <3>2
  <2>7. Index(Root) = Len(file) + 1
    <3>1. Op(Root) \in AppendOp => Index(Root) = seen[Root].size + 1
      BY <1>5, OpKinds, Zenon DEF Index
    <3>2. Op(Root) = "write_named" => Index(Root) = seen[Root].tail + 1
      BY OpKinds DEF Index
    <3> QED BY <2>1, <2>2, <2>4, <2>5, <3>1, <3>2 DEF ScanningOp
  <2> QED BY <1>3, <2>2, <2>6, <2>7
<1> QED BY <1>4, <1>5

----------------------------------------------------------------------------
(* A rank goes on without writing.                                         *)

(* Records that are stored are never touched. *)
StoredStay ==
  \A i \in 1..Len(file) : Stored(file[i]) => i \in 1..Len(file') /\ file'[i] = file[i]

FileParts ==
  /\ created \in BOOLEAN /\ container \in State /\ file \in Seq(Record) /\ told \subseteq Name
  /\ MarkerLast /\ NamesDiffer /\ ToldStays
  /\ file # <<>> \/ container # "absent" => created

(* What flushing adds. *)
Flushed(r) ==
  /\ \A i \in 1..Len(file) : \A x \in WrittenBy(r) :
       file[i].parts[x] # "absent" => file'[i].parts[x] = "stored"
  /\ r = Root /\ container # "absent" => container' = "stored"

Silent(r, n, w) ==
  /\ Advance(r, n, w) /\ Firmer
  /\ created' \in BOOLEAN /\ (created => created') /\ told' = told
  /\ n = "open" /\ w.ok => MayOpen(r) /\ (Creates(r) => created')
  /\ n \in WritePlace /\ w.ok => r # Root /\ n # "payload"
  /\ n \in FlushPlace /\ w.ok => Flushed(r)

LEMMA FileFacts ==
  ASSUME FileInv
  PROVE  /\ created \in BOOLEAN /\ container \in State /\ file \in Seq(Record) /\ told \subseteq Name
         /\ Len(file) \in Nat /\ MarkerLast /\ NamesDiffer /\ ToldStays
         /\ file # <<>> \/ container # "absent" => created
         /\ ScanInv /\ HeaderInv /\ RootInv
         /\ \A r \in Rank : NewInv(r) /\ WriteInv(r)
<1>1. file \in Seq(Record)
  BY DEF FileInv, FileType
<1>2. Len(file) \in Nat
  BY <1>1
<1> QED BY <1>1, <1>2 DEF FileInv, FileType

(* A rank that goes on to be settled there has no error. *)
LEMMA SettledFine ==
  ASSUME ControlInv, NEW r \in Rank, NEW n, NEW w, Advance(r, n, w), Settled(r)'
  PROVE  Fine(r, n)
<1>1. Decided(r) = "none"
  BY AdvanceFile
<1>2. Busy(r) /\ Complete(r) /\ ~ MustAbort(r) /\ Target(r) = n /\ n # "return"
  BY Advanced
<1> QED BY <1>1, <1>2 DEF Fine

LEMMA SilentParts ==
  ASSUME FileInv, NEW r, NEW n, NEW w, Silent(r, n, w)
  PROVE  FileParts' /\ StoredStay /\ Scanned' = Scanned /\ (file = <<>> => file' = <<>>)
<1>1. Firmer /\ created' \in BOOLEAN /\ (created => created') /\ told' = told
  BY DEF Silent
<1>2. /\ Scanned' = Scanned /\ (file = <<>> => file' = <<>>)
      /\ MarkerLast' /\ NamesDiffer' /\ ToldStays'
  BY <1>1, FileFacts, FirmerKeeps
<1>3. /\ file' \in Seq(Record) /\ container' \in State /\ Len(file') = Len(file)
      /\ container' = "absent" <=> container = "absent"
      /\ \A i \in 1..Len(file) : Stored(file[i]) => file'[i] = file[i]
  BY <1>1 DEF Firmer
<1>4. told' \subseteq Name /\ (file' # <<>> \/ container' # "absent" => created')
  BY <1>1, <1>2, <1>3, FileFacts
<1> QED BY <1>1, <1>2, <1>3, <1>4 DEF FileParts, StoredStay

LEMMA SilentNew ==
  ASSUME ControlInv, FileInv, NEW r \in Rank, NEW n, NEW w, Silent(r, n, w), NEW s \in Rank
  PROVE  NewInv(s)'
<1>1. /\ (created => created') /\ (file = <<>> => file' = <<>>)
      /\ n = "open" /\ w.ok => MayOpen(r) /\ (Creates(r) => created')
      /\ Advance(r, n, w)
  BY SilentParts DEF Silent
<1>2. CASE s # r
  <2>1. /\ place'[s] = place[s] /\ (Settled(s)' <=> Settled(s)) /\ (Creates(s)' <=> Creates(s))
        /\ \A p : Did(s, p)' <=> Did(s, p)
    BY <1>1, <1>2, Advanced, Bystander
  <2>2. NewInv(s)
    BY FileFacts
  <2> QED BY <1>1, <2>1, <2>2 DEF NewInv
<1>3. CASE s = r
  <2>1. /\ Op(r)' = Op(r) /\ place'[r] = n /\ \A p : Did(r, p)' <=> p = n /\ w.ok
    BY <1>1, AdvanceFile
  <2>2. Creates(r)' <=> Creates(r)
    BY <2>1 DEF Creates
  <2> SUFFICES ASSUME Settled(r)', Creates(r)
               PROVE  /\ n = "open" /\ w.ok => created' /\ file' = <<>>
                      /\ r = Root /\ n \in {"file handler", "datatype", "container"} =>
                           created' /\ file' = <<>>
    BY <1>3, <2>1, <2>2 DEF NewInv
  <2>3. Fine(r, n)
    BY <1>1, SettledFine
  <2>4. ASSUME n = "open", w.ok PROVE created' /\ file' = <<>>
    <3>1. CASE ~ created
      BY <1>1, <2>4, <3>1, FileFacts
    <3>2. CASE created
      <4>1. PICK q \in Rank : place[q] = "open" /\ Own(q).word.ok
        BY <1>1, <2>4, <3>2 DEF MayOpen
      <4>2. Settled(q) /\ Op(q) = Op(r)
        BY <2>3, <2>4, FineFrom
      <4>3. Creates(q) /\ Did(q, "open")
        BY <4>1, <4>2 DEF Creates, Did
      <4>4. file = <<>>
        BY <4>2, <4>3, FileFacts DEF NewInv
      <4> QED BY <1>1, <2>4, <4>4
    <3> QED BY <3>1, <3>2
  <2>5. ASSUME r = Root, n \in {"file handler", "datatype", "container"} PROVE created' /\ file' = <<>>
    <3>1. created /\ file = <<>>
      BY <2>3, <2>5, NewReady
    <3> QED BY <1>1, <3>1
  <2> QED BY <2>4, <2>5
<1> QED BY <1>2, <1>3

LEMMA SilentScan ==
  ASSUME ControlInv, FileInv, NEW r \in Rank, NEW n, NEW w, Silent(r, n, w)
  PROVE  ScanInv' /\ HeaderInv'
<1>0. Root \in Rank /\ ScanInv /\ HeaderInv
  BY ContainerAssumption, FileFacts
<1>1. /\ (created => created') /\ Scanned' = Scanned /\ (container' = "absent" <=> container = "absent")
      /\ Advance(r, n, w) /\ (n \in WritePlace /\ w.ok => r # Root)
  BY SilentParts DEF Silent, Firmer
<1>2. CASE r # Root
  <2>1. /\ place'[Root] = place[Root] /\ seen'[Root] = seen[Root] /\ call'[Root] = call[Root]
        /\ Op(Root)' = Op(Root) /\ Own(Root)' = Own(Root) /\ (Settled(Root)' <=> Settled(Root))
        /\ \A p : Did(Root, p)' <=> Did(Root, p)
    BY <1>0, <1>1, <1>2, Advanced, Bystander
  <2>2. ScanInv'
    BY <1>0, <1>1, <2>1 DEF ScanInv
  <2>3. HeaderInv'
    BY <1>0, <1>1, <2>1 DEF HeaderInv
  <2> QED BY <2>2, <2>3
<1>3. CASE r = Root
  <2>1. /\ Op(Root)' = Op(Root) /\ place'[Root] = n /\ Own(Root)'.word = w
        /\ \A p : Did(Root, p)' <=> p = n /\ w.ok
    BY <1>1, <1>3, AdvanceFile
  <2>2. /\ call'[Root] = call[Root]
        /\ n = "decode" => seen'[Root] = seen[Root]
        /\ n = "report" => seen'[Root] = Scanned
        /\ n # "decode" /\ n # "report" => seen'[Root] = seen[Root]
    BY <1>1, <1>3, Advanced
  <2>3. HeaderInv'
    BY <1>1, <1>3, <2>1 DEF HeaderInv, WritePlace
  <2>4. ScanInv'
    <3> SUFFICES ASSUME Settled(Root)', Op(Root) \in ScanningOp
                 PROVE  /\ n \in {"report", "decode", "record", "datatype"} => seen'[Root] = Scanned
                        /\ n \in {"decode", "record", "datatype"}
                             \/ (n = "report" /\ w.about = "none") => container # "absent" /\ created
                        /\ n \in {"record", "datatype"} =>
                             seen'[Root].tail = seen'[Root].size /\ call[Root].name \notin seen'[Root].names
      BY <1>1, <2>1, <2>2 DEF ScanInv, ScanningOp
    <3>1. Fine(Root, n)
      BY <1>0, <1>1, <1>3, SettledFine
    <3>2. CASE n \in {"decode", "record", "datatype"}
      <4>1. /\ seen[Root] = Scanned /\ container # "absent" /\ created
            /\ n # "decode" => seen[Root].tail = seen[Root].size /\ call[Root].name \notin seen[Root].names
        BY <3>1, <3>2, ScanReady
      <4> QED BY <2>2, <3>2, <4>1
    <3>3. CASE n = "report"
      <4>1. w.about = Report(Root)
        BY <1>1, <1>3, <3>3, ReportType DEF Advance
      <4>2. Report(Root) = "none" => container # "absent"
        BY DEF Report, ScanError
      <4> QED BY <2>2, <3>3, <4>1, <4>2, FileFacts
    <3>4. CASE n \notin {"report", "decode", "record", "datatype"}
      BY <3>4
    <3> QED BY <3>2, <3>3, <3>4
  <2> QED BY <2>3, <2>4
<1> QED BY <1>2, <1>3

(* What writer r has written is as firm as before. *)
LEMMA SilentWrite ==
  ASSUME ControlInv, FileInv, NEW r \in Rank, NEW n, NEW w, Silent(r, n, w), NEW s \in Rank
  PROVE  WriteInv(s)'
<1>a. PICK m \in Nat : m = Len(file)
  BY FileFacts
<1> USE <1>a
<1>0. m \in Nat /\ Len(file') = m /\ (container = "stored" => container' = "stored")
  BY FileFacts DEF Silent, Firmer
<1>1. /\ Firmer /\ Advance(r, n, w)
      /\ n \in WritePlace /\ w.ok => r # Root /\ n # "payload"
      /\ n \in FlushPlace /\ w.ok => Flushed(r)
  BY DEF Silent
<1>2. ASSUME m >= 1
      PROVE  /\ file'[m].name = file[m].name
             /\ \A x \in Part : /\ file'[m].parts[x] = "absent" <=> file[m].parts[x] = "absent"
                                /\ file[m].parts[x] = "stored" => file'[m].parts[x] = "stored"
             /\ AllStored(m) => AllStored(m)'
  <2>1. m \in 1..m /\ m \in 0..m
    BY <1>0, <1>2
  <2>2. AllStored(m) => AllStored(m)'
    BY <1>0, <1>1, <2>1, FileFacts, FirmerKeeps
  <2> QED BY <1>1, <2>1, <2>2 DEF Firmer
<1>3. s \in Part
  BY PartsDiffer
<1>4. CASE s # r
  <2>1. /\ place'[s] = place[s] /\ call'[s] = call[s] /\ Index(s)' = Index(s) /\ (Has(s)' <=> Has(s))
        /\ \A p : Did(s, p)' <=> Did(s, p)
    BY <1>1, <1>4, Advanced, Bystander
  <2> SUFFICES ASSUME Has(s) PROVE WriteInv(s)'
    BY <2>1 DEF WriteInv
  <2>2. /\ m >= 1 /\ Index(s) = m /\ file[m].name = call[s].name
        /\ Did(s, "payload") => file[m].parts[s] # "absent"
        /\ Did(s, "payload flush") \/ place[s] \in {"marker view", "marker", "marker flush"} =>
             file[m].parts[s] = "stored"
        /\ place[s] \in AfterCommit => container = "stored" /\ AllStored(m)
    BY FileFacts DEF WriteInv
  <2>3. /\ Len(file') >= 1 /\ Index(s)' = Len(file') /\ file'[Len(file')].name = call'[s].name
        /\ Did(s, "payload")' => file'[Len(file')].parts[s] # "absent"
        /\ Did(s, "payload flush")' \/ place'[s] \in {"marker view", "marker", "marker flush"} =>
             file'[Len(file')].parts[s] = "stored"
        /\ place'[s] \in AfterCommit => container' = "stored" /\ AllStored(m)'
    BY <1>0, <1>2, <1>3, <2>1, <2>2
  <2> QED BY <1>0, <2>3 DEF WriteInv
<1>5. CASE s = r
  <2>1. /\ Op(r)' = Op(r) /\ place'[r] = n /\ \A p : Did(r, p)' <=> p = n /\ w.ok
    BY <1>1, AdvanceFile
  <2> SUFFICES ASSUME Has(r)' PROVE WriteInv(r)'
    BY <1>5 DEF WriteInv
  <2>2. Settled(r)' /\ Op(r) \in WritingOp /\ n \in AfterHead
    <3>1. n = "head" /\ w.ok => r # Root
      BY <1>1 DEF WritePlace
    <3> QED BY <2>1, <3>1 DEF Has, Writer
  <2>3. Fine(r, n)
    BY <1>1, <2>2, SettledFine
  <2>4. /\ m >= 1 /\ Index(r) = m /\ file[m].name = call[r].name
        /\ n = "payload flush" => file[m].parts[r] # "absent"
        /\ n \in {"marker view", "marker", "marker flush"} => file[m].parts[r] = "stored"
        /\ n \in AfterCommit => container = "stored" /\ AllStored(m)
    BY <2>2, <2>3, WriterReady
  <2>5. Index(r)' = Index(r) /\ call'[r] = call[r]
    <3>1. n # "decode" /\ n # "report"
      BY <2>2 DEF AfterHead, CommitPlace, AfterCommit, ClosePlace
    <3>2. seen'[r] = seen[r] /\ call' = call
      BY <1>1, <3>1, Advanced
    <3> QED BY <2>1, <3>2 DEF Index
  <2>6. n = "payload flush" /\ w.ok => file'[m].parts[r] = "stored"
    <3>1. m >= 1
      BY <2>4
    <3>2. m \in 1..m
      BY <1>0, <3>1
    <3> QED BY <1>1, <2>4, <3>2 DEF FlushPlace, Flushed, WrittenBy
  <2>7. ~ (n = "payload" /\ w.ok)
    BY <1>1 DEF WritePlace
  <2>8. /\ Len(file') >= 1 /\ Index(r)' = Len(file') /\ file'[Len(file')].name = call'[r].name
        /\ Did(r, "payload")' => file'[Len(file')].parts[r] # "absent"
        /\ Did(r, "payload flush")' \/ place'[r] \in {"marker view", "marker", "marker flush"} =>
             file'[Len(file')].parts[r] = "stored"
        /\ place'[r] \in AfterCommit => container' = "stored" /\ AllStored(m)'
    BY <1>0, <1>2, <1>3, <1>5, <2>1, <2>4, <2>5, <2>6, <2>7
  <2> QED BY <1>0, <1>5, <2>8 DEF WriteInv
<1> QED BY <1>4, <1>5

(* Ranks that the root passes at the marker have stored their payload. *)
LEMMA PayloadsStored ==
  ASSUME ControlInv, FileInv, NEW n \in {"marker", "marker flush"}, Fine(Root, n), Op(Root) \in WritingOp,
         NEW q \in Rank
  PROVE  file[Len(file)].parts[q] = "stored"
<1>0. Root \in Rank /\ n # "return"
  BY ContainerAssumption
<1>1. place[Root] \in {"marker view", "marker"}
  <2>1. Leads(Op(Root), place[Root], n) /\ Fits(Op(Root), place[Root])
    BY <1>0, FineFrom
  <2> HIDE DEF Op
  <2>2. CASE n = "marker"
    BY <2>1, <2>2, WriterFrom
  <2>3. CASE n # "marker"
    BY <2>1, <2>3, WriterFrom
  <2> QED BY <2>2, <2>3
<1>2. Settled(q) /\ Op(q) = Op(Root) /\ (Did(q, place[Root]) \/ place[q] = n)
  BY <1>0, FineFrom
<1>3. place[q] \in {"marker view", "marker", "marker flush"}
  BY <1>1, <1>2 DEF Did
<1>4. Has(q)
  BY <1>2, <1>3 DEF Has, Writer, AfterHead, CommitPlace
<1> QED BY <1>3, <1>4, FileFacts DEF WriteInv

LEMMA SilentRoot ==
  ASSUME ControlInv, FileInv, NEW r \in Rank, NEW n, NEW w, Silent(r, n, w)
  PROVE  RootInv'
<1>a. PICK m \in Nat : m = Len(file)
  BY FileFacts
<1> USE <1>a
<1>0. /\ m \in Nat /\ Len(file') = m /\ (container = "stored" => container' = "stored")
      /\ container' = "absent" <=> container = "absent"
      /\ Root \in Rank
  BY FileFacts, ContainerAssumption DEF Silent, Firmer
<1>1. /\ Firmer /\ Advance(r, n, w)
      /\ n \in WritePlace /\ w.ok => r # Root /\ n # "payload"
      /\ n \in FlushPlace /\ w.ok => Flushed(r)
  BY DEF Silent
<1>2. \A i \in 1..m : \A x \in Part :
        /\ file'[i].parts[x] = "absent" <=> file[i].parts[x] = "absent"
        /\ file[i].parts[x] = "stored" => file'[i].parts[x] = "stored"
  BY <1>1 DEF Firmer
<1>3. \A k \in 0..m : AllStored(k) => AllStored(k)'
  BY <1>1, FileFacts, FirmerKeeps
<1>4. \A i \in 1..m : Stored(file[i]) => Stored(file'[i])
  BY <1>1, FileFacts, FirmerKeeps
<1>5. Has(Root) => m >= 1
  BY <1>0, FileFacts DEF WriteInv
<1>6. "head" \in Part /\ "marker" \in Part
  BY PartsDiffer
<1>7. CASE r # Root
  <2>1. /\ place'[Root] = place[Root] /\ (Has(Root)' <=> Has(Root))
        /\ \A p : Did(Root, p)' <=> Did(Root, p)
    BY <1>0, <1>1, <1>7, Advanced, Bystander
  <2> SUFFICES ASSUME Has(Root) PROVE RootInv'
    BY <2>1 DEF RootInv
  <2>2. m \in 1..m /\ m - 1 \in 0..m /\ \A i \in 1..(m - 1) : i \in 1..m
    BY <1>0, <1>5
  <2>3. /\ container # "absent"
        /\ file[m].parts["head"] # "absent"
        /\ \A i \in 1..(m - 1) : file[i].parts["marker"] # "absent"
        /\ Did(Root, "header flush") \/ place[Root] \in AfterHead \ {"header flush"} =>
             container = "stored" /\ file[m].parts["head"] = "stored" /\ AllStored(m - 1)
        /\ place[Root] \in {"head"} \union BeforeMarker => file[m].parts["marker"] = "absent"
        /\ Did(Root, "marker") => file[m].parts["marker"] # "absent"
        /\ Did(Root, "marker flush") => Stored(file[m])
    BY FileFacts DEF RootInv
  <2>4. /\ container' # "absent"
        /\ file'[m].parts["head"] # "absent"
        /\ \A i \in 1..(m - 1) : file'[i].parts["marker"] # "absent"
        /\ Did(Root, "header flush")' \/ place'[Root] \in AfterHead \ {"header flush"} =>
             container' = "stored" /\ file'[m].parts["head"] = "stored" /\ AllStored(m - 1)'
        /\ place'[Root] \in {"head"} \union BeforeMarker => file'[m].parts["marker"] = "absent"
        /\ Did(Root, "marker")' => file'[m].parts["marker"] # "absent"
        /\ Did(Root, "marker flush")' => Stored(file'[m])
    BY <1>0, <1>2, <1>3, <1>4, <1>6, <2>1, <2>2, <2>3
  <2> QED BY <1>0, <2>4 DEF RootInv
<1>8. CASE r = Root
  <2>1. /\ Op(Root)' = Op(Root) /\ place'[Root] = n /\ \A p : Did(Root, p)' <=> p = n /\ w.ok
    BY <1>1, <1>8, AdvanceFile
  <2> SUFFICES ASSUME Has(Root)' PROVE RootInv'
    BY DEF RootInv
  <2>2. Settled(Root)' /\ Op(Root) \in WritingOp /\ n \in AfterHead
    <3>1. ~ (n = "head" /\ w.ok)
      BY <1>1, <1>8 DEF WritePlace
    <3> QED BY <2>1, <3>1 DEF Has, Writer
  <2>3. Fine(Root, n)
    BY <1>0, <1>1, <1>8, <2>2, SettledFine
  <2>4. /\ container # "absent" /\ file[m].parts["head"] # "absent"
        /\ \A i \in 1..(m - 1) : file[i].parts["marker"] # "absent"
        /\ n # "header flush" =>
             container = "stored" /\ file[m].parts["head"] = "stored" /\ AllStored(m - 1)
        /\ n \in BeforeMarker \union {"marker"} => file[m].parts["marker"] = "absent"
        /\ n = "marker flush" => file[m].parts["marker"] # "absent"
    BY <2>2, <2>3, RootReady
  <2>5. m >= 1
    BY <1>0, <2>2, <2>3, WriterReady
  <2>6. m \in 1..m /\ m - 1 \in 0..m /\ \A i \in 1..(m - 1) : i \in 1..m
    BY <1>0, <2>5
  <2>7. n \in FlushPlace /\ w.ok =>
          /\ container' = "stored" /\ file'[m].parts["head"] = "stored"
          /\ \A i \in 1..m : file[i].parts["marker"] # "absent" => file'[i].parts["marker"] = "stored"
    BY <1>1, <1>8, <2>4, <2>6 DEF Flushed, WrittenBy
  <2>8. ASSUME n = "header flush", w.ok PROVE AllStored(m - 1)'
    <3> SUFFICES ASSUME NEW i \in 1..(m - 1) PROVE Stored(file'[i])
      BY DEF AllStored
    <3>1. i \in 1..m /\ file[i].parts["marker"] # "absent"
      BY <2>4, <2>6
    <3>2. file'[i].parts["marker"] = "stored"
      BY <2>7, <2>8, <3>1 DEF FlushPlace
    <3>3. \A x \in Part \ {"marker"} : file[i].parts[x] = "stored"
      BY <3>1, FileFacts DEF MarkerLast
    <3>4. \A x \in Part \ {"marker"} : file'[i].parts[x] = "stored"
      BY <1>2, <3>1, <3>3
    <3> QED BY <3>2, <3>4 DEF Stored
  <2>9. ASSUME n = "marker flush", w.ok PROVE Stored(file'[m])
    <3>1. file'[m].parts["marker"] = "stored" /\ file'[m].parts["head"] = "stored"
      BY <2>4, <2>6, <2>7, <2>9 DEF FlushPlace
    <3>2. \A q \in Rank : file[m].parts[q] = "stored"
      BY <2>2, <2>3, <2>9, PayloadsStored
    <3>3. \A q \in Rank : file'[m].parts[q] = "stored"
      BY <1>2, <2>6, <3>2, PartsDiffer
    <3> QED BY <3>1, <3>3 DEF Stored, Part
  <2>10. Did(Root, "header flush")' \/ place'[Root] \in AfterHead \ {"header flush"} =>
           container' = "stored" /\ file'[m].parts["head"] = "stored" /\ AllStored(m - 1)'
    <3>1. CASE n = "header flush"
      BY <2>1, <2>7, <2>8, <3>1 DEF FlushPlace
    <3>2. CASE n # "header flush"
      BY <1>0, <1>2, <1>3, <1>6, <2>4, <2>6, <3>2
    <3> QED BY <3>1, <3>2
  <2>11. ~ Did(Root, "marker")'
    BY <1>1, <1>8, <2>1 DEF WritePlace
  <2>12. /\ container' # "absent"
         /\ file'[m].parts["head"] # "absent"
         /\ \A i \in 1..(m - 1) : file'[i].parts["marker"] # "absent"
    BY <1>0, <1>2, <1>6, <2>4, <2>6
  <2>13. place'[Root] \in {"head"} \union BeforeMarker => file'[m].parts["marker"] = "absent"
    <3>1. n # "head"
      BY <2>2 DEF AfterHead, CommitPlace, AfterCommit, ClosePlace
    <3> QED BY <1>2, <1>6, <2>1, <2>4, <2>6, <3>1
  <2>14. Did(Root, "marker flush")' => Stored(file'[m])
    BY <2>1, <2>9
  <2> QED BY <1>0, <2>10, <2>11, <2>12, <2>13, <2>14 DEF RootInv
<1> QED BY <1>7, <1>8

(* What FileInv says beside types and views. *)
RestInv ==
  /\ FileParts /\ ScanInv /\ HeaderInv /\ RootInv
  /\ \A s \in Rank : NewInv(s) /\ WriteInv(s)

LEMMA SilentFile ==
  ASSUME ControlInv, FileInv, NEW r \in Rank, NEW n, NEW w, Silent(r, n, w)
  PROVE  RestInv' /\ StoredStay
<1>1. FileParts' /\ StoredStay
  BY SilentParts
<1>2. ScanInv' /\ HeaderInv'
  BY SilentScan
<1>3. RootInv'
  BY SilentRoot
<1>4. \A s \in Rank : NewInv(s)' /\ WriteInv(s)'
  BY SilentNew, SilentWrite
<1> QED BY <1>1, <1>2, <1>3, <1>4 DEF RestInv

----------------------------------------------------------------------------
(* A rank goes on and writes.                                              *)

(* Nothing is written with an error. *)
Writing(r, n, w) ==
  /\ Advance(r, n, w) /\ n \in WritePlace
  /\ created' \in BOOLEAN /\ (created => created') /\ told' = told

LEMMA WritingFine ==
  ASSUME ControlInv, NEW r \in Rank, NEW n, NEW w, Writing(r, n, w)
  PROVE  /\ Fine(r, n) /\ Fits(Op(r), n) /\ n # "return" /\ call' = call /\ seen'[r] = seen[r]
         /\ Op(r)' = Op(r) /\ place'[r] = n /\ Index(r)' = Index(r)
         /\ \A p : Did(r, p)' <=> p = n /\ w.ok
         /\ \A s \in Rank : s # r => Unmoved(s) /\ log'[s] = log[s]
<1>1. Advance(r, n, w) /\ n \in WritePlace
  BY DEF Writing
<1>2. /\ Busy(r) /\ Complete(r) /\ ~ MustAbort(r) /\ Target(r) = n /\ n # "return" /\ Fits(Op(r), n)
      /\ call' = call
      /\ n # "decode" /\ ~ (n = "report" /\ r = Root) => seen'[r] = seen[r]
      /\ \A s \in Rank : s # r => Unmoved(s) /\ log'[s] = log[s]
  BY <1>1, Advanced
<1>3. n \notin ExitPlace
  BY <1>1 DEF WritePlace, ExitPlace, ClosePlace
<1>4. Decided(r) = "none"
  BY <1>2, <1>3, Targets
<1>5. seen'[r] = seen[r]
  BY <1>1, <1>2 DEF WritePlace
<1>6. Op(r)' = Op(r) /\ place'[r] = n /\ \A p : Did(r, p)' <=> p = n /\ w.ok
  BY <1>1, AdvanceFile
<1>7. Index(r)' = Index(r)
  BY <1>5, <1>6 DEF Index
<1> QED BY <1>2, <1>4, <1>5, <1>6, <1>7 DEF Fine

(* The header of a container goes into an empty file. *)
LEMMA ContainerWritten ==
  ASSUME ControlInv, FileInv, NEW w, Writing(Root, "container", w), container' = "cached", file' = file
  PROVE  RestInv' /\ StoredStay
<1>0. Root \in Rank
  BY ContainerAssumption
<1>1. /\ Fine(Root, "container") /\ Fits(Op(Root), "container") /\ Op(Root)' = Op(Root)
      /\ place'[Root] = "container" /\ \A p : Did(Root, p)' <=> p = "container" /\ w.ok
      /\ \A s \in Rank : s # Root => Unmoved(s) /\ log'[s] = log[s]
  BY <1>0, WritingFine
<1>2. created' \in BOOLEAN /\ (created => created') /\ told' = told
  BY DEF Writing
<1>3. Creates(Root) /\ Op(Root) \notin ScanningOp
  <2>1. Op(Root) \in NewOp \union {"create"}
    BY <1>1 DEF Fits
  <2>2. "create" \notin ScanningOp /\ NewOp \intersect ScanningOp = {}
    BY OpKinds DEF ScanningOp, WritingOp
  <2> QED BY <2>1, <2>2 DEF Creates
<1>4. created /\ file = <<>>
  BY <1>1, <1>3, NewReady
<1>5. Len(file) = 0
  BY <1>4
<1>6. told = {}
  <2>1. \A m \in told : \E i \in 1..Len(file) : file[i].name = m
    BY FileFacts DEF ToldStays
  <2>2. 1..Len(file) = {}
    BY <1>5
  <2> QED BY <2>1, <2>2
<1>7. FileParts'
  <2>1. MarkerLast'
    BY FileFacts DEF MarkerLast
  <2>2. NamesDiffer'
    BY FileFacts DEF NamesDiffer
  <2>3. ToldStays'
    BY <1>2, <1>6 DEF ToldStays
  <2>4. "cached" \in State
    BY DEF State
  <2> QED BY <1>2, <1>4, <1>6, <2>1, <2>2, <2>3, <2>4, FileFacts DEF FileParts
<1>8. StoredStay
  BY DEF StoredStay
<1>9. ASSUME NEW s \in Rank PROVE ~ Has(s)'
  <2>1. CASE s # Root
    <3>1. Has(s)' <=> Has(s)
      BY <1>1, <2>1, Bystander
    <3>2. Has(s) => Len(file) >= 1
      BY FileFacts DEF WriteInv
    <3> QED BY <1>5, <3>1, <3>2
  <2>2. CASE s = Root
    <3>1. "container" \notin AfterHead
      BY DEF AfterHead, CommitPlace, AfterCommit, ClosePlace
    <3>2. ~ Did(Root, "head")'
      BY <1>1
    <3> QED BY <1>1, <2>2, <3>1, <3>2 DEF Has
  <2> QED BY <2>1, <2>2
<1>10. RootInv' /\ \A s \in Rank : WriteInv(s)'
  BY <1>0, <1>9 DEF RootInv, WriteInv
<1>11. \A s \in Rank : NewInv(s)'
  BY <1>2, <1>4 DEF NewInv
<1>12. ScanInv'
  BY <1>1, <1>3 DEF ScanInv, ScanningOp
<1>13. HeaderInv'
  BY DEF HeaderInv
<1> QED BY <1>7, <1>8, <1>10, <1>11, <1>12, <1>13 DEF RestInv

(* A new record changes no other. *)
LEMMA HeadWritten ==
  ASSUME ControlInv, FileInv, NEW w, Writing(Root, "head", w), container' = container,
         NEW state \in {"absent", "cached"}, file' = WithHead(Index(Root), state), w.ok => state = "cached"
  PROVE  RestInv' /\ StoredStay
<1>a. PICK m \in Nat : m = Len(file)
  BY FileFacts
<1>0. Root \in Rank
  BY ContainerAssumption
<1>1. /\ Fine(Root, "head") /\ Op(Root)' = Op(Root) /\ call' = call /\ Index(Root)' = Index(Root)
      /\ place'[Root] = "head" /\ \A p : Did(Root, p)' <=> p = "head" /\ w.ok
      /\ \A s \in Rank : s # Root => Unmoved(s) /\ log'[s] = log[s]
  BY <1>0, WritingFine
<1>2. created' \in BOOLEAN /\ (created => created') /\ told' = told
  BY DEF Writing
<1>3. /\ Op(Root) \in WritingOp /\ Index(Root) = m + 1 /\ created /\ container # "absent"
      /\ call[Root].name \in Name
      /\ \A i \in 1..m : file[i].parts["marker"] # "absent" /\ file[i].name # call[Root].name
  BY <1>a, <1>1, HeadReady
<1>4. state \in State
  BY DEF State
<1>5. /\ file' \in Seq(Record) /\ Len(file') = m + 1
      /\ \A j \in 1..m : file'[j] = file[j]
      /\ file'[m + 1].name = call[Root].name
      /\ file'[m + 1].parts["head"] = state
      /\ \A y \in Part : y # "head" => file'[m + 1].parts[y] = "absent"
  <2>1. file' = WithHead(Len(file) + 1, state)
    BY <1>a, <1>3
  <2> QED BY <1>a, <1>3, <1>4, <2>1, FileFacts, WithRecord
<1>6. /\ \A i \in 1..(m + 1) : i \in 1..m \/ i = m + 1
      /\ m + 1 >= 1 /\ (m + 1) - 1 = m /\ \A i \in 1..m : i \in 1..(m + 1)
  OBVIOUS
<1>7. FileParts'
  <2>1. MarkerLast'
    <3>1. ASSUME NEW i \in 1..(m + 1), file'[i].parts["marker"] # "absent", NEW x \in Part \ {"marker"}
          PROVE  file'[i].parts[x] = "stored"
      <4>1. i # m + 1
        BY <1>5, <3>1, PartsDiffer
      <4>2. i \in 1..m /\ file'[i] = file[i]
        BY <1>5, <1>6, <4>1
      <4> QED BY <1>a, <3>1, <4>2, FileFacts DEF MarkerLast
    <3> QED BY <1>5, <3>1 DEF MarkerLast
  <2>2. NamesDiffer'
    <3>1. ASSUME NEW i \in 1..(m + 1), NEW j \in 1..(m + 1), file'[i].name = file'[j].name PROVE i = j
      <4>1. i \in 1..m => file'[i].name = file[i].name /\ file[i].name # call[Root].name
        BY <1>3, <1>5
      <4>2. j \in 1..m => file'[j].name = file[j].name /\ file[j].name # call[Root].name
        BY <1>3, <1>5
      <4>3. i \in 1..m /\ j \in 1..m => i = j
        BY <1>a, <3>1, <4>1, <4>2, FileFacts DEF NamesDiffer
      <4> QED BY <1>5, <1>6, <3>1, <4>1, <4>2, <4>3
    <3> QED BY <1>5, <3>1 DEF NamesDiffer
  <2>3. ToldStays'
    <3>1. ASSUME NEW k \in told PROVE \E i \in 1..(m + 1) : file'[i].name = k /\ AllStored(i)'
      <4>1. PICK i \in 1..m : file[i].name = k /\ AllStored(i)
        BY <1>a, <3>1, FileFacts DEF ToldStays
      <4>2. \A j \in 1..i : j \in 1..m
        OBVIOUS
      <4>3. AllStored(i)'
        BY <1>5, <4>1, <4>2 DEF AllStored
      <4> QED BY <1>5, <1>6, <4>1, <4>3
    <3>2. told # {} => container' = "stored"
      BY FileFacts DEF ToldStays
    <3> QED BY <1>2, <1>5, <3>1, <3>2 DEF ToldStays
  <2> QED BY <1>2, <1>3, <1>5, <2>1, <2>2, <2>3, FileFacts DEF FileParts
<1>8. StoredStay
  BY <1>a, <1>5, <1>6 DEF StoredStay
<1>9. place[Root] \in {"container", "datatype"}
  <2>1. Leads(Op(Root), place[Root], "head") /\ Fits(Op(Root), place[Root])
    BY <1>0, <1>1, FineFrom
  <2> QED BY <1>3, <2>1, WriterFrom
<1>10. ASSUME NEW s \in Rank, s # Root PROVE place[s] \in {"container", "datatype", "head"}
  BY <1>0, <1>1, <1>9, FineFrom DEF Did
<1>11. /\ {"container", "datatype", "head"} \intersect AfterHead = {}
       /\ "head" \notin BeforeMarker /\ "head" \notin AfterCommit
  BY DEF AfterHead, CommitPlace, AfterCommit, ClosePlace, BeforeMarker
<1>12. ASSUME NEW s \in Rank, s # Root PROVE NewInv(s)' /\ ~ Has(s)'
  <2>1. /\ place'[s] = place[s] /\ (Has(s)' <=> Has(s)) /\ \A p : Did(s, p)' <=> Did(s, p)
    BY <1>1, <1>12, Bystander
  <2>2. ~ Did(s, "open")
    BY <1>10, <1>12 DEF Did
  <2>3. ~ Has(s)
    BY <1>10, <1>11, <1>12 DEF Has
  <2> QED BY <1>12, <2>1, <2>2, <2>3 DEF NewInv
<1>13. NewInv(Root)'
  BY <1>1 DEF NewInv
<1>b. \A p : p # "head" => ~ Did(Root, p)'
  BY <1>1
<1>14. Has(Root)' => w.ok
  BY <1>1, <1>11 DEF Has
<1>15. WriteInv(Root)'
  <2>1. ~ Did(Root, "payload")' /\ ~ Did(Root, "payload flush")'
    BY <1>b, Zenon
  <2>2. place'[Root] \notin {"marker view", "marker", "marker flush"} /\ place'[Root] \notin AfterCommit
    BY <1>1, <1>11
  <2>3. Len(file') >= 1 /\ Index(Root)' = Len(file') /\ file'[Len(file')].name = call'[Root].name
    BY <1>1, <1>3, <1>5, <1>6
  <2> QED BY <2>1, <2>2, <2>3 DEF WriteInv
<1>16. RootInv'
  <2> SUFFICES ASSUME Has(Root)' PROVE RootInv'
    BY DEF RootInv
  <2>1. ~ Did(Root, "header flush")' /\ ~ Did(Root, "marker")' /\ ~ Did(Root, "marker flush")'
    BY <1>b, Zenon
  <2>2. place'[Root] \notin AfterHead \ {"header flush"}
    BY <1>1, <1>11
  <2>3. container' # "absent" /\ file'[m + 1].parts["head"] # "absent"
    BY <1>3, <1>5, <1>14
  <2>4. file'[m + 1].parts["marker"] = "absent"
    BY <1>5, PartsDiffer
  <2>5. \A i \in 1..((m + 1) - 1) : file'[i].parts["marker"] # "absent"
    BY <1>3, <1>5, <1>6
  <2> QED BY <1>5, <2>1, <2>2, <2>3, <2>4, <2>5 DEF RootInv
<1>17. ScanInv' /\ HeaderInv'
  BY <1>1 DEF ScanInv, HeaderInv, Did
<1>18. \A s \in Rank : WriteInv(s)'
  BY <1>12, <1>15 DEF WriteInv
<1>19. \A s \in Rank : NewInv(s)'
  BY <1>12, <1>13
<1> QED BY <1>7, <1>8, <1>16, <1>17, <1>18, <1>19 DEF RestInv

(* A part of the last record, whose marker is missing, is written. *)
LEMMA LastWritten ==
  ASSUME FileInv, NEW m \in Nat, m = Len(file), m >= 1, NEW x \in Part,
         file' = Cached(m, x), container' = container, told' = told,
         created' \in BOOLEAN, created => created',
         file[m].parts["marker"] = "absent",
         x = "marker" => \A y \in Part \ {"marker"} : file[m].parts[y] = "stored"
  PROVE  /\ FileParts' /\ StoredStay /\ Len(file') = m
         /\ \A j \in 1..m : /\ file'[j].name = file[j].name
                            /\ j # m => file'[j] = file[j]
         /\ \A y \in Part : file'[m].parts[y] = IF y = x THEN "cached" ELSE file[m].parts[y]
         /\ AllStored(m - 1) => AllStored(m - 1)'
<1>1. /\ file' \in Seq(Record) /\ Len(file') = m
      /\ \A j \in 1..m :
           /\ file'[j].name = file[j].name
           /\ j # m => file'[j] = file[j]
           /\ \A y \in Part : file'[j].parts[y] = IF j = m /\ y = x THEN "cached" ELSE file[j].parts[y]
  BY FileFacts, WithPart
<1>2. m \in 1..m /\ m - 1 \in Nat
  OBVIOUS
<1>3. \A y \in Part : file'[m].parts[y] = IF y = x THEN "cached" ELSE file[m].parts[y]
  BY <1>1, <1>2
<1>4. ~ Stored(file[m])
  BY PartsDiffer DEF Stored
<1>5. StoredStay
  BY <1>1, <1>4 DEF StoredStay
<1>6. MarkerLast'
  <2>1. ASSUME NEW i \in 1..m, file'[i].parts["marker"] # "absent", NEW y \in Part \ {"marker"}
        PROVE  file'[i].parts[y] = "stored"
    <3>1. CASE i # m
      <4>1. file'[i] = file[i]
        BY <1>1, <3>1
      <4> QED BY <2>1, <4>1, FileFacts DEF MarkerLast
    <3>2. CASE i = m
      <4>1. x = "marker"
        BY <1>3, <2>1, <3>2, PartsDiffer
      <4> QED BY <1>3, <3>2, <4>1
    <3> QED BY <3>1, <3>2
  <2> QED BY <1>1, <2>1 DEF MarkerLast
<1>7. NamesDiffer'
  BY <1>1, FileFacts DEF NamesDiffer
<1>8. ASSUME NEW i \in 0..(m - 1), AllStored(i) PROVE AllStored(i)'
  <2>1. \A j \in 1..i : j \in 1..m /\ j # m
    OBVIOUS
  <2> QED BY <1>1, <1>8, <2>1 DEF AllStored
<1>9. ToldStays'
  <2>1. ASSUME NEW k \in told PROVE \E i \in 1..m : file'[i].name = k /\ AllStored(i)'
    <3>1. PICK i \in 1..m : file[i].name = k /\ AllStored(i)
      BY <2>1, FileFacts DEF ToldStays
    <3>2. i # m
      BY <1>2, <1>4, <3>1 DEF AllStored
    <3>3. i \in 0..(m - 1)
      BY <3>2
    <3> QED BY <1>1, <1>8, <3>1, <3>3
  <2>2. told # {} => container' = "stored"
    BY FileFacts DEF ToldStays
  <2> QED BY <1>1, <2>1, <2>2 DEF ToldStays
<1>10. file # <<>>
  BY <1>2
<1>11. FileParts'
  BY <1>1, <1>6, <1>7, <1>9, <1>10, FileFacts DEF FileParts
<1>12. AllStored(m - 1) => AllStored(m - 1)'
  BY <1>1, <1>8
<1> QED BY <1>1, <1>3, <1>5, <1>11, <1>12

(* The ranks beside one that writes its payload, or the root its marker. *)
CloseTo == {"payload view", "payload", "marker view", "marker"}

LEMMA CloseRest ==
  ASSUME NEW s \in Rank, place'[s] \in CloseTo
  PROVE  NewInv(s)' /\ (s = Root => ScanInv' /\ HeaderInv')
<1>1. /\ place'[s] \notin {"open", "file handler", "datatype", "container"}
      /\ place'[s] \notin {"report", "decode", "record", "datatype"}
  BY DEF CloseTo
<1>2. NewInv(s)'
  BY <1>1 DEF NewInv, Did
<1>3. s = Root => ScanInv' /\ HeaderInv'
  BY <1>1 DEF ScanInv, HeaderInv, Did
<1> QED BY <1>2, <1>3

LEMMA PayloadNeighbours ==
  ASSUME ControlInv, FileInv, NEW r \in Rank, Fine(r, "payload"), Op(r) \in WritingOp, NEW s \in Rank
  PROVE  /\ place[r] = "payload view" /\ place[s] \in {"payload view", "payload"}
         /\ place[s] \in AfterHead \ {"header flush"} /\ place[s] \in BeforeMarker
         /\ Has(s)
<1>1. Leads(Op(r), place[r], "payload") /\ Fits(Op(r), place[r])
  BY FineFrom
<1>2. place[r] = "payload view"
  BY <1>1, WriterFrom
<1>3. Settled(s) /\ Op(s) = Op(r) /\ (Did(s, place[r]) \/ place[s] = "payload")
  BY FineFrom
<1>4. place[s] \in {"payload view", "payload"}
  BY <1>2, <1>3 DEF Did
<1>5. place[s] \in AfterHead \ {"header flush"} /\ place[s] \in BeforeMarker
  BY <1>4 DEF AfterHead, CommitPlace, BeforeMarker
<1> QED BY <1>2, <1>3, <1>4, <1>5 DEF Has, Writer

LEMMA PayloadWritten ==
  ASSUME ControlInv, FileInv, NEW r \in Rank, NEW w, Writing(r, "payload", w), container' = container,
         file' = Cached(Index(r), r)
  PROVE  RestInv' /\ StoredStay
<1>a. PICK m \in Nat : m = Len(file)
  BY FileFacts
<1> DEFINE n == "payload"
<1>0. Root \in Rank /\ r \in Part /\ r # "head" /\ r # "marker" /\ "head" \in Part /\ "marker" \in Part
  BY ContainerAssumption, PartsDiffer
<1>1. /\ Fine(r, n) /\ Fits(Op(r), n) /\ Op(r)' = Op(r) /\ call' = call /\ Index(r)' = Index(r)
      /\ place'[r] = n /\ \A p : Did(r, p)' <=> p = n /\ w.ok
      /\ \A s \in Rank : s # r => Unmoved(s) /\ log'[s] = log[s]
  BY WritingFine
<1>2. created' \in BOOLEAN /\ (created => created') /\ told' = told
  BY DEF Writing
<1>3. Op(r) \in WritingOp
  BY <1>1 DEF Fits, CommitPlace
<1>4. n \in AfterHead /\ n \in BeforeMarker /\ n \notin AfterCommit
  BY DEF AfterHead, CommitPlace, BeforeMarker, AfterCommit, ClosePlace
<1>5. m >= 1 /\ Index(r) = m /\ file[m].name = call[r].name
  BY <1>a, <1>1, <1>3, <1>4, WriterReady
<1>6. ASSUME NEW s \in Rank
      PROVE  /\ place[s] \in {"payload view", "payload"} /\ Has(s)
             /\ place[s] \in AfterHead \ {"header flush"} /\ place[s] \in BeforeMarker
  BY <1>1, <1>3, PayloadNeighbours
<1>7. /\ container = "stored" /\ file[m].parts["head"] = "stored" /\ AllStored(m - 1)
      /\ \A i \in 1..(m - 1) : file[i].parts["marker"] # "absent"
      /\ file[m].parts["marker"] = "absent"
  <2>1. RootInv /\ Has(Root) /\ place[Root] \in AfterHead \ {"header flush"} /\ place[Root] \in BeforeMarker
    BY <1>0, <1>6, FileFacts
  <2> QED BY <1>a, <2>1 DEF RootInv
<1>8. /\ FileParts' /\ StoredStay /\ Len(file') = m
      /\ \A j \in 1..m : file'[j].name = file[j].name /\ (j # m => file'[j] = file[j])
      /\ \A y \in Part : file'[m].parts[y] = IF y = r THEN "cached" ELSE file[m].parts[y]
      /\ AllStored(m - 1) => AllStored(m - 1)'
  BY <1>a, <1>0, <1>2, <1>5, <1>7, LastWritten
<1>9. ASSUME NEW s \in Rank PROVE place'[s] \in {"payload view", "payload"} /\ place'[s] \in CloseTo
  <2>1. s # r => place'[s] = place[s]
    BY <1>1 DEF Unmoved
  <2> QED BY <1>1, <1>6, <2>1 DEF CloseTo
<1>10. ScanInv' /\ HeaderInv' /\ \A s \in Rank : NewInv(s)'
  BY <1>0, <1>9, CloseRest
<1>11. m \in 1..m /\ \A i \in 1..(m - 1) : i \in 1..m /\ i # m
  BY <1>5
<1>12. {"payload view", "payload"} \intersect AfterCommit = {}
  BY DEF AfterCommit, ClosePlace
<1>13. ASSUME NEW s \in Rank PROVE WriteInv(s)'
  <2>1. place'[s] \notin AfterCommit /\ place'[s] \notin {"marker view", "marker", "marker flush"}
    BY <1>9, <1>12
  <2>2. ~ Did(s, "payload flush")'
    BY <1>9 DEF Did
  <2>3. CASE s = r
    <3>1. Len(file') >= 1 /\ Index(r)' = Len(file') /\ file'[Len(file')].name = call'[r].name
      BY <1>1, <1>5, <1>8, <1>11
    <3>2. file'[m].parts[r] = "cached"
      BY <1>0, <1>8
    <3> QED BY <1>8, <2>1, <2>2, <2>3, <3>1, <3>2 DEF WriteInv
  <2>4. CASE s # r
    <3>1. call'[s] = call[s] /\ Index(s)' = Index(s) /\ \A p : Did(s, p)' <=> Did(s, p)
      BY <1>1, <2>4, Bystander
    <3>2. Index(s) = m /\ file[m].name = call[s].name /\ (Did(s, "payload") => file[m].parts[s] # "absent")
      BY <1>a, <1>6, FileFacts DEF WriteInv
    <3>3. file'[m].parts[s] = file[m].parts[s]
      BY <1>8, <2>4, PartsDiffer
    <3>4. Len(file') >= 1 /\ Index(s)' = Len(file') /\ file'[Len(file')].name = call'[s].name
      BY <1>5, <1>8, <1>11, <3>1, <3>2
    <3>5. Did(s, "payload")' => file'[m].parts[s] # "absent"
      BY <3>1, <3>2, <3>3
    <3> QED BY <1>8, <2>1, <2>2, <3>4, <3>5 DEF WriteInv
  <2> QED BY <2>3, <2>4
<1>14. RootInv'
  <2>1. ~ Did(Root, "marker")' /\ ~ Did(Root, "marker flush")'
    BY <1>0, <1>9 DEF Did
  <2>2. file'[m].parts["head"] = "stored" /\ file'[m].parts["marker"] = "absent"
    BY <1>0, <1>7, <1>8
  <2>3. \A i \in 1..(m - 1) : file'[i].parts["marker"] # "absent"
    BY <1>7, <1>8, <1>11
  <2>4. container' = "stored" /\ AllStored(m - 1)'
    BY <1>7, <1>8
  <2> QED BY <1>8, <2>1, <2>2, <2>3, <2>4 DEF RootInv
<1> QED BY <1>8, <1>10, <1>13, <1>14 DEF RestInv

(* The marker goes behind payloads that are stored. *)
LEMMA MarkerWritten ==
  ASSUME ControlInv, FileInv, NEW w, Writing(Root, "marker", w), container' = container,
         file' = Cached(Index(Root), "marker")
  PROVE  RestInv' /\ StoredStay
<1>a. PICK m \in Nat : m = Len(file)
  BY FileFacts
<1> DEFINE n == "marker"
<1>0. Root \in Rank /\ "head" \in Part /\ "marker" \in Part /\ "head" # "marker"
  BY ContainerAssumption, PartsDiffer
<1>1. /\ Fine(Root, n) /\ Fits(Op(Root), n) /\ Op(Root)' = Op(Root) /\ call' = call /\ Index(Root)' = Index(Root)
      /\ place'[Root] = n /\ \A p : Did(Root, p)' <=> p = n /\ w.ok
      /\ \A s \in Rank : s # Root => Unmoved(s) /\ log'[s] = log[s]
  BY <1>0, WritingFine
<1>2. created' \in BOOLEAN /\ (created => created') /\ told' = told
  BY DEF Writing
<1>3. Op(Root) \in WritingOp
  BY <1>1 DEF Fits, CommitPlace
<1>4. n \in AfterHead /\ n \notin BeforeMarker /\ n # "header flush"
  BY DEF AfterHead, CommitPlace, BeforeMarker
<1>5. m >= 1 /\ Index(Root) = m /\ file[m].name = call[Root].name
  BY <1>a, <1>0, <1>1, <1>3, <1>4, WriterReady
<1>6. \A s \in Rank : file[m].parts[s] = "stored"
  BY <1>a, <1>1, <1>3, PayloadsStored
<1>7. /\ container = "stored" /\ file[m].parts["head"] = "stored" /\ AllStored(m - 1)
      /\ \A i \in 1..(m - 1) : file[i].parts["marker"] # "absent"
      /\ file[m].parts["marker"] = "absent"
  BY <1>a, <1>1, <1>3, <1>4, RootReady
<1>8. /\ FileParts' /\ StoredStay /\ Len(file') = m
      /\ \A j \in 1..m : file'[j].name = file[j].name /\ (j # m => file'[j] = file[j])
      /\ \A y \in Part : file'[m].parts[y] = IF y = n THEN "cached" ELSE file[m].parts[y]
      /\ AllStored(m - 1) => AllStored(m - 1)'
  <2>1. \A y \in Part \ {"marker"} : file[m].parts[y] = "stored"
    BY <1>6, <1>7 DEF Part
  <2> QED BY <1>a, <1>0, <1>2, <1>5, <1>7, <2>1, LastWritten
<1>9. /\ place[Root] = "marker view"
      /\ \A s \in Rank : Settled(s) /\ Op(s) = Op(Root) /\ place[s] \in {"marker view", "marker"}
  <2>1. Leads(Op(Root), place[Root], n) /\ Fits(Op(Root), place[Root])
    BY <1>0, <1>1, FineFrom
  <2>2. place[Root] = "marker view"
    BY <1>3, <2>1, WriterFrom
  <2>3. \A s \in Rank : Settled(s) /\ Op(s) = Op(Root) /\ (Did(s, place[Root]) \/ place[s] = n)
    BY <1>0, <1>1, FineFrom
  <2> QED BY <2>2, <2>3 DEF Did
<1>10. ASSUME NEW s \in Rank PROVE place'[s] \in {"marker view", "marker"} /\ place'[s] \in CloseTo
  <2>1. s # Root => place'[s] = place[s]
    BY <1>1 DEF Unmoved
  <2> QED BY <1>1, <1>9, <2>1 DEF CloseTo
<1>11. ScanInv' /\ HeaderInv' /\ \A s \in Rank : NewInv(s)'
  BY <1>0, <1>10, CloseRest
<1>12. m \in 1..m /\ \A i \in 1..(m - 1) : i \in 1..m /\ i # m
  BY <1>5
<1>13. {"marker view", "marker"} \intersect AfterCommit = {} /\ {"marker view", "marker"} \subseteq AfterHead
       /\ "marker view" \in BeforeMarker
  BY DEF AfterCommit, ClosePlace, AfterHead, CommitPlace, BeforeMarker
<1>14. ASSUME NEW s \in Rank PROVE WriteInv(s)'
  <2>1. place'[s] \notin AfterCommit
    BY <1>10, <1>13
  <2>2. file'[m].parts[s] = "stored"
    BY <1>6, <1>8, PartsDiffer
  <2>3. Index(s)' = m /\ file[m].name = call'[s].name
    <3>1. CASE s = Root
      BY <1>1, <1>5, <3>1
    <3>2. CASE s # Root
      <4>1. call'[s] = call[s] /\ Index(s)' = Index(s)
        BY <1>1, <3>2, Bystander
      <4>2. Has(s)
        BY <1>3, <1>9, <1>13 DEF Has, Writer
      <4>3. Index(s) = m /\ file[m].name = call[s].name
        BY <1>a, <4>2, FileFacts DEF WriteInv
      <4> QED BY <4>1, <4>3
    <3> QED BY <3>1, <3>2
  <2>4. Len(file') >= 1 /\ Index(s)' = Len(file') /\ file'[Len(file')].name = call'[s].name
    BY <1>5, <1>8, <1>12, <2>3
  <2> QED BY <1>8, <2>1, <2>2, <2>4 DEF WriteInv
<1>15. RootInv'
  <2>1. ~ Did(Root, "marker flush")'
    BY <1>0, <1>10 DEF Did
  <2>2. file'[m].parts["head"] = "stored" /\ file'[m].parts["marker"] = "cached"
    BY <1>0, <1>7, <1>8
  <2>3. \A i \in 1..(m - 1) : file'[i].parts["marker"] # "absent"
    BY <1>7, <1>8, <1>12
  <2>4. container' = "stored" /\ AllStored(m - 1)'
    BY <1>7, <1>8
  <2>5. place'[Root] \notin {"head"} \union BeforeMarker
    BY <1>1, <1>4
  <2> QED BY <1>8, <2>1, <2>2, <2>3, <2>4, <2>5 DEF RootInv
<1> QED BY <1>8, <1>11, <1>14, <1>15 DEF RestInv

(* Every step from a place to the next. *)
LEMMA AdvanceFileInv ==
  ASSUME ControlInv, FileInv, NEW r \in Rank, NEW n, NEW w, Advance(r, n, w), Effect(r, n, w)
  PROVE  FileInv' /\ StoredStay
<1>1. /\ view' \in [Rank -> [0..MaxSessions -> {"bytes", "payload"}]]
      /\ \A s \in Rank : ViewInv(s)'
  BY AdvanceView
<1>2. RestInv' /\ StoredStay
  <2>1. /\ created' \in BOOLEAN /\ (created => created') /\ told' = told
        /\ n = "open" /\ w.ok => MayOpen(r) /\ (Creates(r) => created')
        /\ \/ /\ Firmer
              /\ n \in WritePlace /\ w.ok => r # Root /\ n # "payload"
              /\ n \in FlushPlace /\ w.ok => Flushed(r)
           \/ n = "container" /\ r = Root /\ container' = "cached" /\ file' = file
           \/ /\ n = "head" /\ r = Root /\ container' = container
              /\ \E state \in {"absent", "cached"} :
                   file' = WithHead(Index(r), state) /\ (w.ok => state = "cached")
           \/ n = "payload" /\ container' = container /\ file' = Cached(Index(r), r)
           \/ n = "marker" /\ r = Root /\ container' = container /\ file' = Cached(Index(r), "marker")
    BY AdvanceWrites DEF Flushed
  <2>2. n \in WritePlace => Writing(r, n, w)
    BY <2>1 DEF Writing
  <2>3. {"container", "head", "payload", "marker"} = WritePlace
    BY DEF WritePlace
  <2>4. CASE /\ Firmer
             /\ n \in WritePlace /\ w.ok => r # Root /\ n # "payload"
             /\ n \in FlushPlace /\ w.ok => Flushed(r)
    <3>1. Silent(r, n, w)
      BY <2>1, <2>4 DEF Silent
    <3> QED BY <3>1, SilentFile
  <2>5. CASE n = "container" /\ r = Root /\ container' = "cached" /\ file' = file
    BY <2>2, <2>3, <2>5, ContainerWritten
  <2>6. CASE /\ n = "head" /\ r = Root /\ container' = container
             /\ \E state \in {"absent", "cached"} :
                  file' = WithHead(Index(r), state) /\ (w.ok => state = "cached")
    BY <2>2, <2>3, <2>6, HeadWritten
  <2>7. CASE n = "payload" /\ container' = container /\ file' = Cached(Index(r), r)
    BY <2>2, <2>3, <2>7, PayloadWritten
  <2>8. CASE n = "marker" /\ r = Root /\ container' = container /\ file' = Cached(Index(r), "marker")
    BY <2>2, <2>3, <2>8, MarkerWritten
  <2> QED BY <2>1, <2>4, <2>5, <2>6, <2>7, <2>8
<1> QED BY <1>1, <1>2 DEF FileInv, FileType, RestInv, FileParts

----------------------------------------------------------------------------
(* Calls and jobs begin and end.                                           *)

(* Ranks between the places that have to do with the file. *)
LEMMA QuietFile ==
  ASSUME FileInv, UNCHANGED disk, told' \subseteq Name, ToldStays',
         view' \in [Rank -> [0..MaxSessions -> {"bytes", "payload"}]],
         \A s \in Rank : \/ place'[s] \in {"descriptor", "idle"}
                         \/ Unmoved(s) /\ log'[s] = log[s] /\ view'[s] = view[s]
  PROVE  FileInv' /\ StoredStay
<1>0. Root \in Rank
  BY ContainerAssumption
<1>1. created' = created /\ container' = container /\ file' = file
  BY DEF disk
<1>2. Scanned' = Scanned /\ \A n : AllStored(n)' <=> AllStored(n)
  BY <1>1 DEF Scanned, Prefix, Names, AllStored
<1>3. MarkerLast' /\ NamesDiffer'
  BY <1>1, FileFacts DEF MarkerLast, NamesDiffer
<1>4. StoredStay
  BY <1>1 DEF StoredStay
<1>5. ASSUME NEW s \in Rank, place'[s] \in {"descriptor", "idle"}
      PROVE  /\ ViewInv(s)' /\ NewInv(s)' /\ WriteInv(s)'
             /\ s = Root => ScanInv' /\ HeaderInv' /\ RootInv'
  <2>1. /\ place'[s] \notin {"report", "decode", "record", "datatype", "container", "open", "head"}
        /\ place'[s] \notin BytesPlace \union AfterHead
    BY <1>5 DEF BytesPlace, AfterHead, CommitPlace, AfterCommit, ClosePlace
  <2>2. ~ Did(s, "open")' /\ ~ Did(s, "container")' /\ ~ Did(s, "report")' /\ ~ Did(s, "head")'
    BY <2>1 DEF Did
  <2>3. ~ Did(s, "byte view")' /\ ~ Did(s, "marker view")'
    BY <1>5 DEF Did
  <2>4. ~ Has(s)'
    BY <2>1, <2>2 DEF Has
  <2>5. NewInv(s)'
    BY <1>5, <2>2 DEF NewInv
  <2>6. ViewInv(s)'
    BY <2>1, <2>2, <2>3 DEF ViewInv
  <2>7. s = Root => ScanInv' /\ HeaderInv'
    BY <2>1, <2>2 DEF ScanInv, HeaderInv
  <2> QED BY <2>4, <2>5, <2>6, <2>7 DEF WriteInv, RootInv
<1>6. ASSUME NEW s \in Rank, Unmoved(s), log'[s] = log[s], view'[s] = view[s]
      PROVE  /\ ViewInv(s)' /\ NewInv(s)' /\ WriteInv(s)'
             /\ s = Root => ScanInv' /\ HeaderInv' /\ RootInv'
  <2>1. /\ place'[s] = place[s] /\ call'[s] = call[s] /\ seen'[s] = seen[s]
        /\ Op(s)' = Op(s) /\ Own(s)' = Own(s) /\ Index(s)' = Index(s) /\ File(s)' = File(s)
        /\ Settled(s)' <=> Settled(s)
        /\ Creates(s)' <=> Creates(s)
        /\ Has(s)' <=> Has(s)
        /\ \A p : Did(s, p)' <=> Did(s, p)
    BY <1>6, Bystander
  <2>2. ViewInv(s)'
    BY <1>6, <2>1 DEF ViewInv, FileInv
  <2>3. NewInv(s)'
    BY <1>1, <2>1, FileFacts DEF NewInv
  <2>4. WriteInv(s)'
    BY <1>1, <1>2, <2>1, FileFacts DEF WriteInv
  <2>5. s = Root => ScanInv'
    BY <1>1, <1>2, <2>1, FileFacts DEF ScanInv
  <2>6. s = Root => HeaderInv'
    BY <1>1, <2>1, FileFacts DEF HeaderInv
  <2>7. s = Root => RootInv'
    BY <1>1, <1>2, <2>1, FileFacts DEF RootInv
  <2> QED BY <2>2, <2>3, <2>4, <2>5, <2>6, <2>7
<1>7. \A s \in Rank : ViewInv(s)' /\ NewInv(s)' /\ WriteInv(s)' /\ (s = Root => ScanInv' /\ HeaderInv' /\ RootInv')
  BY <1>5, <1>6
<1>8. FileType' /\ (file' # <<>> \/ container' # "absent" => created')
  BY <1>1, FileFacts DEF FileType
<1> QED BY <1>0, <1>3, <1>4, <1>7, <1>8 DEF FileInv

LEMMA BeginFile ==
  ASSUME ControlInv, FileInv, NEW r \in Rank, Begin(r)
  PROVE  FileInv' /\ StoredStay
<1>1. /\ UNCHANGED disk /\ view' = view /\ told' = told /\ place'[r] = "descriptor"
      /\ \A s \in Rank : s # r => Unmoved(s) /\ log'[s] = log[s]
  BY Begins
<1>2. ToldStays' /\ told' \subseteq Name
  BY <1>1, FileFacts DEF ToldStays, AllStored, disk
<1>3. view' \in [Rank -> [0..MaxSessions -> {"bytes", "payload"}]]
  BY <1>1 DEF FileInv, FileType
<1>4. \A s \in Rank : \/ place'[s] \in {"descriptor", "idle"}
                      \/ Unmoved(s) /\ log'[s] = log[s] /\ view'[s] = view[s]
  BY <1>1
<1> QED BY <1>1, <1>2, <1>3, <1>4, QuietFile

LEMMA StaysFile ==
  ASSUME FileInv, Stays, UNCHANGED <<view, disk, told>>
  PROVE  FileInv' /\ StoredStay
<1>1. \A s \in Rank : Unmoved(s) /\ log'[s] = log[s] /\ view'[s] = view[s]
  BY DEF Stays, Unmoved
<1>2. ToldStays' /\ told' \subseteq Name
  BY FileFacts DEF ToldStays, AllStored, disk
<1>3. view' \in [Rank -> [0..MaxSessions -> {"bytes", "payload"}]]
  BY DEF FileInv, FileType
<1> QED BY <1>1, <1>2, <1>3, QuietFile

(* A write that returns Ok returns from behind its commit. *)
LEMMA ReturnFrom ==
  ASSUME NEW o \in WritingOp, NEW p, Leads(o, p, "return"), Fits(o, p)
  PROVE  p \in AfterCommit
<1>1. o \notin OpenOp /\ o # "create" /\ o # "catalog" /\ o # "flush" /\ o # "read_named" /\ o # "named_catalog"
      /\ (o \in PathOp \/ o = "write_named")
  BY OpKinds
<1>2. p \notin NamePlace \union DetailPlace \union {"descriptor", "options"}
  BY DEF Leads, DetailPlace, NamePlace
<1>3. p \notin {"allocation", "flush", "commit", "decode"}
  BY <1>1 DEF Leads, Fits, DetailPlace, NamePlace
<1>4. p \in {"communicator free", "operation datatype free", "cleanup"}
  BY <1>1, <1>2, <1>3 DEF Leads
<1> QED BY <1>4 DEF AfterCommit, ClosePlace

LEMMA OkIsCommitted ==
  ASSUME ControlInv, FileInv, NEW r \in Rank, Busy(r), Complete(r), Target(r) = "return",
         Returning(r) = "ok",
         Op(r) \in WritingOp
  PROVE  /\ Len(file) >= 1 /\ file[Len(file)].name = call[r].name
         /\ container = "stored" /\ AllStored(Len(file))
<1>1. Decided(r) = "none" /\ outcome[r] = "none" /\ Error(r) = "none"
  <2>1. Decided(r) \in Outcome
    BY ErrorType
  <2>2. "ok" \notin Outcome
    BY DEF Outcome
  <2>3. Decided(r) = "none"
    BY <2>1, <2>2 DEF Returning
  <2> QED BY <2>3 DEF Decided
<1>2. Fits(Op(r), place[r]) /\ Op(r) \in Operation
  BY FitsPlace
<1>3. Leads(Op(r), place[r], "return")
  <2>1. CASE place[r] # "options"
    BY <1>1, <2>1, Targets
  <2>2. CASE place[r] = "options"
    <3>1. place[r] \in Places(Op(r)) \ {"return"}
      <4>1. place[r] \in At(Op(r)) /\ "options" \notin ClosePlace
        BY RankParts DEF PlaceInv, ClosePlace
      <4> QED BY <2>2, <4>1 DEF At
    <3>2. Leads(Op(r), place[r], Successor[Op(r)][place[r]])
      BY <1>2, <3>1, PlacesOf
    <3>3. Op(r) # "close"
      BY OpKinds
    <3>4. Target(r) = Successor[Op(r)][place[r]]
      BY <1>1, <2>2, <3>3 DEF Target
    <3> QED BY <3>2, <3>4
  <2> QED BY <2>1, <2>2
<1>4. place[r] \in AfterCommit
  BY <1>2, <1>3, ReturnFrom
<1>5. Has(r)
  BY <1>1, <1>4 DEF Has, Writer, Settled, AfterHead
<1> QED BY <1>4, <1>5, FileFacts DEF WriteInv

LEMMA ReturnFile ==
  ASSUME ControlInv, FileInv, NEW r \in Rank, Return(r)
  PROVE  FileInv' /\ StoredStay
<1>1. /\ Busy(r) /\ Complete(r) /\ Target(r) = "return" /\ log' = log /\ UNCHANGED disk
      /\ view' = [view EXCEPT ![r][0] = "bytes"]
      /\ told' = IF Returning(r) = "ok" /\ Op(r) \in WritingOp THEN told \union {call[r].name} ELSE told
      /\ place'[r] = "idle"
      /\ \A s \in Rank : s # r => Unmoved(s)
  BY Returns
<1>2. file' = file /\ container' = container /\ \A i : AllStored(i)' <=> AllStored(i)
  BY <1>1 DEF disk, AllStored
<1>3. ToldStays' /\ told' \subseteq Name
  <2>1. CASE told' = told
    BY <1>2, <2>1, FileFacts DEF ToldStays
  <2>2. CASE told' # told
    <3>1. told' = told \union {call[r].name} /\ Returning(r) = "ok" /\ Op(r) \in WritingOp
      BY <1>1, <2>2
    <3>2. /\ Len(file) >= 1 /\ file[Len(file)].name = call[r].name
          /\ container = "stored" /\ AllStored(Len(file))
      BY <1>1, <3>1, OkIsCommitted
    <3>3. call[r].name \in Name
      BY <1>1, <3>1, CallName
    <3>4. Len(file) \in 1..Len(file)
      BY <3>2, FileFacts
    <3>5. \A m \in told' : \E i \in 1..Len(file) : file[i].name = m /\ AllStored(i)
      BY <3>1, <3>2, <3>4, FileFacts DEF ToldStays
    <3> QED BY <1>2, <3>1, <3>2, <3>3, <3>5, FileFacts DEF ToldStays
  <2> QED BY <2>1, <2>2
<1>4. /\ view' \in [Rank -> [0..MaxSessions -> {"bytes", "payload"}]]
      /\ \A s \in Rank : s # r => view'[s] = view[s]
  <2>1. view \in [Rank -> [0..MaxSessions -> {"bytes", "payload"}]] /\ 0 \in 0..MaxSessions
    BY ContainerAssumption DEF FileInv, FileType
  <2>2. [view[r] EXCEPT ![0] = "bytes"] \in [0..MaxSessions -> {"bytes", "payload"}]
    BY <2>1
  <2>3. view' = [view EXCEPT ![r] = [view[r] EXCEPT ![0] = "bytes"]]
    BY <1>1, <2>1
  <2> QED BY <2>1, <2>2, <2>3
<1>5. \A s \in Rank : \/ place'[s] \in {"descriptor", "idle"}
                      \/ Unmoved(s) /\ log'[s] = log[s] /\ view'[s] = view[s]
  BY <1>1, <1>4
<1> QED BY <1>1, <1>3, <1>4, <1>5, QuietFile

(* What is left of the records when the system goes down. *)
LEMMA Surviving ==
  ASSUME file \in Seq(Record), NEW kept
  PROVE  LET left == Survives(kept)
         IN  /\ left \in Seq(Record) /\ Len(left) = Len(file)
             /\ \A i \in 1..Len(file) :
                  /\ left[i].name = file[i].name
                  /\ \A x \in Part : /\ left[i].parts[x] # "absent" => file[i].parts[x] # "absent"
                                     /\ file[i].parts[x] = "stored" => left[i].parts[x] = "stored"
                  /\ Stored(file[i]) => left[i] = file[i]
<1> DEFINE parts(i) == [x \in Part |-> IF file[i].parts[x] = "cached"
                                       THEN IF <<i, x>> \in kept THEN "stored" ELSE "absent"
                                       ELSE file[i].parts[x]]
           rec(i) == [file[i] EXCEPT !.parts = parts(i)]
<1>0. Len(file) \in Nat /\ DOMAIN file = 1..Len(file)
  OBVIOUS
<1>1. Survives(kept) = [i \in 1..Len(file) |-> rec(i)]
  BY <1>0 DEF Survives
<1>2. ASSUME NEW i \in 1..Len(file)
      PROVE  /\ rec(i) \in Record /\ rec(i).name = file[i].name
             /\ \A x \in Part : /\ rec(i).parts[x] # "absent" => file[i].parts[x] # "absent"
                                /\ file[i].parts[x] = "stored" => rec(i).parts[x] = "stored"
             /\ Stored(file[i]) => rec(i) = file[i]
  <2>1. file[i] \in Record /\ file[i].parts \in [Part -> State]
    BY RecordType
  <2>2. parts(i) \in [Part -> State]
    BY <2>1 DEF State
  <2>3. Stored(file[i]) => parts(i) = file[i].parts
    BY <2>1 DEF Stored
  <2>4. \A x \in Part : /\ parts(i)[x] # "absent" => file[i].parts[x] # "absent"
                        /\ file[i].parts[x] = "stored" => parts(i)[x] = "stored"
    OBVIOUS
  <2> HIDE DEF parts
  <2>5. rec(i) \in Record /\ rec(i).name = file[i].name /\ rec(i).parts = parts(i)
    BY <2>1, <2>2 DEF Record
  <2>6. Stored(file[i]) => rec(i) = file[i]
    BY <2>1, <2>3 DEF Record
  <2> QED BY <2>4, <2>5, <2>6
<1> HIDE DEF rec, parts
<1>3. /\ Survives(kept) \in Seq(Record) /\ Len(Survives(kept)) = Len(file)
      /\ \A i \in 1..Len(file) : Survives(kept)[i] = rec(i)
  BY <1>0, <1>1, <1>2
<1> QED BY <1>2, <1>3

LEMMA FrontOf ==
  ASSUME NEW S, NEW s \in Seq(S), NEW n \in Nat, Len(s) = n, n >= 1
  PROVE  /\ SubSeq(s, 1, n - 1) \in Seq(S) /\ Len(SubSeq(s, 1, n - 1)) = n - 1
         /\ \A i \in 1..(n - 1) : SubSeq(s, 1, n - 1)[i] = s[i]
<1>1. 1 \in 1..(Len(s) + 1) /\ n - 1 \in (1 - 1)..Len(s)
  OBVIOUS
<1>2. /\ SubSeq(s, 1, n - 1) \in Seq(S)
      /\ Len(SubSeq(s, 1, n - 1)) = IF 1 <= n - 1 THEN (n - 1) - 1 + 1 ELSE 0
      /\ \A i \in 1..((n - 1) - 1 + 1) : SubSeq(s, 1, n - 1)[i] = s[1 + i - 1]
  BY <1>1, SubSeqProperties
<1> QED BY <1>2

LEMMA NoneLeft ==
  ASSUME NEW S, NEW s \in Seq(S), Len(s) = 0
  PROVE  s = <<>>
OBVIOUS

(* A record of which nothing is left may be gone. *)
LEMMA Trimming ==
  ASSUME NEW records \in Seq(Record), NEW new \in Trimmed(records)
  PROVE  /\ new \in Seq(Record) /\ Len(new) <= Len(records)
         /\ \A i \in 1..Len(new) : new[i] = records[i]
         /\ \A i \in 1..Len(records) : records[i].parts["marker"] # "absent" => i \in 1..Len(new)
<1> DEFINE n == Len(records)
<1>0. n \in Nat
  OBVIOUS
<1>1. CASE new = records
  BY <1>0, <1>1
<1>2. CASE new # records
  <2>1. /\ records # <<>> /\ \A x \in Part : records[n].parts[x] = "absent"
        /\ new = SubSeq(records, 1, n - 1)
    BY <1>2 DEF Trimmed
  <2>2. n >= 1
    BY <1>0, <2>1
  <2>3. new \in Seq(Record) /\ Len(new) = n - 1 /\ \A i \in 1..(n - 1) : new[i] = records[i]
    BY <1>0, <2>1, <2>2, FrontOf
  <2>4. records[n].parts["marker"] = "absent"
    BY <2>1, PartsDiffer
  <2>5. \A i \in 1..n : i # n => i \in 1..(n - 1)
    BY <1>0
  <2> QED BY <1>0, <2>3, <2>4, <2>5
<1> QED BY <1>1, <1>2

(* All ranks rest: only the records count. *)
LEMMA RestFile ==
  ASSUME FileParts, view \in [Rank -> [0..MaxSessions -> {"bytes", "payload"}]],
         \A r \in Rank : place[r] = "idle"
  PROVE  FileInv
<1>0. Root \in Rank
  BY ContainerAssumption
<1>1. \A r \in Rank : ~ Settled(r) /\ ~ Has(r)
  BY DEF Settled, Busy, Has, Writer
<1>2. \A r \in Rank : ViewInv(r) /\ NewInv(r) /\ WriteInv(r)
  BY <1>1 DEF ViewInv, NewInv, WriteInv
<1>3. ScanInv /\ HeaderInv /\ RootInv
  BY <1>0, <1>1 DEF ScanInv, HeaderInv, RootInv
<1> QED BY <1>2, <1>3 DEF FileInv, FileType, FileParts

LEMMA NewViews ==
  [r \in Rank |-> [f \in 0..MaxSessions |-> "bytes"]] \in [Rank -> [0..MaxSessions -> {"bytes", "payload"}]]
OBVIOUS

LEMMA CrashFile ==
  ASSUME FileInv, Crash
  PROVE  FileInv' /\ StoredStay
<1>a. PICK m \in Nat : m = Len(file)
  BY FileFacts
<1>1. /\ place' = [r \in Rank |-> "idle"] /\ created' = created /\ told' = told
      /\ view' = [r \in Rank |-> [f \in 0..MaxSessions |-> "bytes"]]
      /\ container' \in IF container = "cached" THEN {"stored", "absent"} ELSE {container}
  BY DEF Crash
<1>2. PICK kept : file' \in Trimmed(Survives(kept))
  BY DEF Crash
<1> DEFINE left == Survives(kept)
<1>3. /\ left \in Seq(Record) /\ Len(left) = m
      /\ \A i \in 1..m :
           /\ left[i].name = file[i].name
           /\ \A x \in Part : /\ left[i].parts[x] # "absent" => file[i].parts[x] # "absent"
                              /\ file[i].parts[x] = "stored" => left[i].parts[x] = "stored"
           /\ Stored(file[i]) => left[i] = file[i]
  BY <1>a, FileFacts, Surviving
<1> HIDE DEF left
<1>4. /\ file' \in Seq(Record) /\ Len(file') <= m
      /\ \A i \in 1..Len(file') : file'[i] = left[i]
      /\ \A i \in 1..m : left[i].parts["marker"] # "absent" => i \in 1..Len(file')
  <2>1. file' \in Trimmed(left)
    BY <1>2 DEF left
  <2> QED BY <1>3, <2>1, Trimming
<1>b. PICK k \in Nat : k = Len(file')
  <2>1. Len(file') \in Nat
    BY <1>4
  <2> QED BY <2>1
<1>5. \A i \in 1..k : i \in 1..m /\ file'[i] = left[i]
  BY <1>4, <1>b
<1>6. ASSUME NEW i \in 1..m, Stored(file[i]) PROVE i \in 1..k /\ file'[i] = file[i]
  <2>1. left[i] = file[i]
    BY <1>3, <1>6
  <2>2. left[i].parts["marker"] # "absent"
    BY <1>6, <2>1, PartsDiffer DEF Stored
  <2>3. i \in 1..k
    BY <1>4, <1>b, <2>2
  <2> QED BY <1>5, <2>1, <2>3
<1>7. StoredStay
  BY <1>a, <1>b, <1>6 DEF StoredStay
<1>8. MarkerLast'
  <2>1. ASSUME NEW i \in 1..k, file'[i].parts["marker"] # "absent", NEW x \in Part \ {"marker"}
        PROVE  file'[i].parts[x] = "stored"
    <3>1. i \in 1..m /\ file'[i] = left[i]
      BY <1>5
    <3>2. file[i].parts["marker"] # "absent"
      BY <1>3, <2>1, <3>1, PartsDiffer
    <3>3. file[i].parts[x] = "stored"
      BY <1>a, <3>1, <3>2, FileFacts DEF MarkerLast
    <3> QED BY <1>3, <3>1, <3>3
  <2> QED BY <1>b, <2>1 DEF MarkerLast
<1>9. NamesDiffer'
  <2>1. ASSUME NEW i \in 1..k, NEW j \in 1..k, file'[i].name = file'[j].name PROVE i = j
    <3>1. i \in 1..m /\ j \in 1..m /\ file[i].name = file[j].name
      BY <1>3, <1>5, <2>1
    <3> QED BY <1>a, <3>1, FileFacts DEF NamesDiffer
  <2> QED BY <1>b, <2>1 DEF NamesDiffer
<1>10. ToldStays'
  <2>1. ASSUME NEW n \in told PROVE \E i \in 1..k : file'[i].name = n /\ AllStored(i)'
    <3>1. PICK i \in 1..m : file[i].name = n /\ AllStored(i)
      BY <1>a, <2>1, FileFacts DEF ToldStays
    <3>2. \A j \in 1..i : j \in 1..m /\ Stored(file[j])
      BY <3>1 DEF AllStored
    <3>3. \A j \in 1..i : Stored(file'[j])
      BY <1>6, <3>2
    <3>4. i \in 1..i
      OBVIOUS
    <3>5. i \in 1..k /\ file'[i] = file[i]
      BY <1>6, <3>2, <3>4
    <3> QED BY <3>1, <3>3, <3>5 DEF AllStored
  <2>2. told # {} => container' = "stored"
    <3>1. told # {} => container = "stored"
      BY FileFacts DEF ToldStays
    <3> QED BY <1>1, <3>1
  <2> QED BY <1>b, <1>1, <2>1, <2>2 DEF ToldStays
<1>11. container' \in State /\ (container' # "absent" => container # "absent")
  BY <1>1, FileFacts DEF State
<1>12. file' # <<>> => file # <<>>
  <2>1. file = <<>> => m = 0
    BY <1>a
  <2>2. m = 0 => k = 0
    BY <1>b, <1>4
  <2>3. k = 0 => file' = <<>>
    BY <1>b, <1>4, NoneLeft
  <2> QED BY <2>1, <2>2, <2>3
<1>13. FileParts'
  BY <1>1, <1>4, <1>8, <1>9, <1>10, <1>11, <1>12, FileFacts DEF FileParts
<1>14. view' \in [Rank -> [0..MaxSessions -> {"bytes", "payload"}]]
  BY <1>1, NewViews
<1>15. \A r \in Rank : place'[r] = "idle"
  BY <1>1
<1>16. (FileParts /\ view \in [Rank -> [0..MaxSessions -> {"bytes", "payload"}]]
          /\ (\A r \in Rank : place[r] = "idle") => FileInv)'
  BY RestFile, PTL
<1> QED BY <1>7, <1>13, <1>14, <1>15, <1>16

LEMMA InitFile == Init => FileInv
<1> SUFFICES ASSUME Init PROVE FileInv
  OBVIOUS
<1>1. /\ place = [r \in Rank |-> "idle"]
      /\ view = [r \in Rank |-> [f \in 0..MaxSessions |-> "bytes"]]
      /\ told = Names(Len(file))
      /\ \/ created = FALSE /\ container = "absent" /\ file = <<>>
         \/ created = TRUE /\ container = "stored" /\ file \in Earlier
  BY DEF Init
<1>2. created \in BOOLEAN /\ container \in State
  BY <1>1 DEF State
<1>3. CASE file = <<>>
  <2>1. file \in Seq(Record) /\ Len(file) = 0 /\ 1..Len(file) = {}
    BY <1>3
  <2>2. told = {}
    BY <1>1, <2>1 DEF Names
  <2>3. MarkerLast /\ NamesDiffer /\ ToldStays
    BY <2>1, <2>2 DEF MarkerLast, NamesDiffer, ToldStays
  <2> QED BY <1>1, <1>2, <1>3, <2>1, <2>2, <2>3, NewViews, RestFile DEF FileParts
<1>4. CASE file # <<>>
  <2>1. PICK n \in Name : file = <<[name |-> n, parts |-> [x \in Part |-> "stored"]]>>
    BY <1>1, <1>4 DEF Earlier
  <2> DEFINE rec == [name |-> n, parts |-> [x \in Part |-> "stored"]]
  <2>2. rec \in Record /\ rec.name = n /\ Stored(rec)
    <3>1. [x \in Part |-> "stored"] \in [Part -> State]
      BY DEF State
    <3> QED BY <3>1 DEF Record, Stored
  <2>3. file = <<rec>>
    BY <2>1
  <2> HIDE DEF rec
  <2>4. file \in Seq(Record) /\ Len(file) = 1 /\ file[1] = rec
    BY <2>2, <2>3
  <2>5. 1..Len(file) = {1}
    BY <2>4
  <2>6. told = {n}
    BY <1>1, <2>2, <2>4, <2>5 DEF Names
  <2>7. AllStored(1) /\ container = "stored" /\ created
    <3>1. 1..1 = {1}
      OBVIOUS
    <3> QED BY <1>1, <1>4, <2>2, <2>4, <3>1 DEF AllStored
  <2>8. MarkerLast
    BY <2>2, <2>4, <2>5 DEF MarkerLast, Stored
  <2>9. NamesDiffer
    BY <2>5 DEF NamesDiffer
  <2>10. ToldStays
    BY <2>2, <2>4, <2>5, <2>6, <2>7 DEF ToldStays
  <2> QED BY <1>1, <1>2, <2>4, <2>6, <2>7, <2>8, <2>9, <2>10, NewViews, RestFile DEF FileParts
<1> QED BY <1>3, <1>4

LEMMA FileNext ==
  ASSUME ControlInv, FileInv, [Next]_vars
  PROVE  FileInv' /\ StoredStay
<1>1. ASSUME NEW r \in Rank, Step(r) PROVE FileInv' /\ StoredStay
  <2>1. CASE Abort(r)
    <3>1. Stays /\ UNCHANGED <<view, disk, told>>
      BY <2>1 DEF Abort, Stays, locals, bounds
    <3> QED BY <3>1, StaysFile
  <2>2. CASE Return(r)
    BY <2>2, ReturnFile
  <2>3. CASE Advances(r)
    BY <2>3, AdvanceFileInv DEF Advances
  <2> QED BY <1>1, <2>1, <2>2, <2>3, StepKinds, FileFacts
<1>2. ASSUME NEW r \in Rank, Drop(r) PROVE FileInv' /\ StoredStay
  <2>1. Stays /\ UNCHANGED <<view, disk, told>>
    BY <1>2 DEF Drop, Stays, locals, Fault
  <2> QED BY <2>1, StaysFile
<1>3. CASE UNCHANGED vars
  <2>1. Stays /\ UNCHANGED <<view, disk, told>>
    BY <1>3 DEF vars, Stays, locals, bounds
  <2> QED BY <2>1, StaysFile
<1>4. ASSUME NEW r \in Rank, Begin(r) PROVE FileInv' /\ StoredStay
  BY <1>4, BeginFile
<1>5. CASE Done
  BY <1>3, <1>5 DEF Done
<1>6. CASE Crash
  BY <1>6, CrashFile
<1> QED BY <1>1, <1>2, <1>3, <1>4, <1>5, <1>6 DEF Next

----------------------------------------------------------------------------
(* Theorems.                                                               *)

(* The places of the ranks, the records and what they know of them always  *)
(* fit: the invariant that the results below follow from.                  *)
THEOREM ContainerInductive == Spec => []ContainerInv
<1>1. Init => ContainerInv
  BY ControlInit, InitFile DEF ContainerInv
<1>2. ContainerInv /\ [Next]_vars => ContainerInv'
  <2> SUFFICES ASSUME ContainerInv, [Next]_vars PROVE ContainerInv'
    OBVIOUS
  <2>1. ControlInv /\ FileInv
    BY DEF ContainerInv
  <2>2. ControlInv'
    BY <2>1, ControlNext, FileFacts
  <2>3. FileInv'
    BY <2>1, FileNext
  <2> QED BY <2>2, <2>3 DEF ContainerInv
<1> QED BY <1>1, <1>2, PTL DEF Spec

(* Ranks that have returned from the same call (every named operation ends *)
(* in agreements) return Ok together and hold the same sessions.           *)
THEOREM AgreementOfRanks == Spec => []RanksAgree
<1>1. ContainerInv => RanksAgree
  <2> SUFFICES ASSUME ControlInv, NEW p \in Rank, NEW q \in Rank,
                      place[p] = "idle", place[q] = "idle", calls[p] = calls[q]
               PROVE  handles[p] = handles[q] /\ result[p] = result[q]
    BY DEF ContainerInv, RanksAgree
  <2>1. ~ Busy(p) /\ ~ Busy(q) /\ Complete(p)
    BY RankParts DEF PlaceInv, Busy
  <2>2. Ahead(q, p) \in {0, 1}
    BY <2>1 DEF Complete
  <2>3. Ahead(q, p) # 1
    <3>1. Ahead(q, p) = 1 => Lead(q, p)
      BY DEF ControlInv, InStep
    <3> QED BY <2>1, <3>1 DEF Lead
  <2>4. Same(p, q)
    BY <2>2, <2>3 DEF ControlInv, InStep
  <2> QED BY <2>1, <2>4 DEF Same
<1> QED BY <1>1, ContainerInductive, PTL

(* Headers, markers and scans use offsets in bytes (named_mpi.rs): their   *)
(* rank then sees its file through the view of bytes.                      *)
THEOREM OffsetsOfBytes == Spec => []OffsetsAreBytes
<1>1. ContainerInv => OffsetsAreBytes
  <2> SUFFICES ASSUME ControlInv, FileInv, NEW r \in Rank,
                      place[r] \in {"container", "head", "marker", "report"}
               PROVE  view[r][File(r)] = "bytes"
    BY DEF ContainerInv, OffsetsAreBytes
  <2>1. Busy(r)
    BY DEF Busy
  <2>2. place[r] \in BytesPlace
    BY DEF BytesPlace
  <2>3. place[r] \notin ExitPlace
    BY DEF ExitPlace, ClosePlace
  <2>4. outcome[r] = "none"
    BY <2>1, <2>3, RankParts DEF PlaceInv
  <2> QED BY <2>1, <2>2, <2>4 DEF FileInv, ViewInv, Settled
<1> QED BY <1>1, ContainerInductive, PTL

(* Every record that a scan lists is whole and under a name of its own,    *)
(* and every name whose write returned Ok is among them, whatever crashed, *)
(* aborted or failed in between.                                           *)
THEOREM TruthOfScans == Spec => []ScansTellTheTruth
<1>1. ContainerInv => ScansTellTheTruth
  <2> SUFFICES ASSUME FileInv PROVE ScansTellTheTruth
    BY DEF ContainerInv
  <2>a. PICK m \in Nat : m = Len(file)
    BY FileFacts
  <2>1. ListedRecordsAreWhole
    <3>1. PICK k \in 0..m : k = Prefix(Listed) /\ \A i \in 1..k : Listed(file[i])
      BY <2>a, FileFacts, ListedPrefix
    <3>2. \A i \in 1..k : i \in 1..m
      OBVIOUS
    <3>3. ASSUME NEW i \in 1..k PROVE Whole(file[i])
      <4>1. file[i].parts["marker"] # "absent" /\ i \in 1..m
        BY <3>1, <3>2 DEF Listed
      <4>2. \A x \in Part \ {"marker"} : file[i].parts[x] = "stored"
        BY <2>a, <4>1, FileFacts DEF MarkerLast
      <4> QED BY <4>1, <4>2 DEF Whole
    <3>4. \A i, j \in 1..k : file[i].name = file[j].name => i = j
      BY <2>a, <3>2, FileFacts DEF NamesDiffer
    <3> QED BY <3>1, <3>3, <3>4 DEF ListedRecordsAreWhole
  <2>2. OkIsListed
    <3>1. PICK b \in 0..m : b = Prefix(Stored)
      BY <2>a, FileFacts, StoredPrefix
    <3>2. ASSUME NEW n \in told PROVE n \in Names(b)
      <4>1. PICK i \in 1..m : file[i].name = n /\ AllStored(i)
        BY <2>a, <3>2, FileFacts DEF ToldStays
      <4>2. i \in 0..Len(file)
        BY <2>a
      <4>3. i <= b
        BY <3>1, <4>1, <4>2, FileFacts, PrefixIs DEF AllStored
      <4>4. i \in 1..b
        BY <4>3
      <4> QED BY <4>1, <4>4 DEF Names
    <3>3. told # {} => container = "stored"
      BY FileFacts DEF ToldStays
    <3> QED BY <3>1, <3>2, <3>3 DEF OkIsListed
  <2> QED BY <2>1, <2>2 DEF ScansTellTheTruth
<1> QED BY <1>1, ContainerInductive, PTL

(* No step modifies the committed prefix (append_mpi_named appends         *)
(* "without modifying the committed prefix"), not even a crash.            *)
THEOREM CommittedPrefix == Spec => CommittedStays
<1>1. ASSUME ContainerInv, ContainerInv', [Next]_vars
      PROVE  [\A i \in 1..Prefix(Stored) : i \in DOMAIN file' /\ file'[i] = file[i]]_vars
  <2>1. ControlInv /\ FileInv /\ FileInv'
    BY <1>1 DEF ContainerInv
  <2>2. StoredStay
    BY <1>1, <2>1, FileNext
  <2>3. PICK m \in Nat : m = Len(file)
    BY <2>1, FileFacts
  <2>4. PICK b \in 0..m : b = Prefix(Stored) /\ \A i \in 1..b : Stored(file[i])
    BY <2>1, <2>3, FileFacts, StoredPrefix
  <2>5. file' \in Seq(Record)
    BY <2>1 DEF FileInv, FileType
  <2>6. DOMAIN file' = 1..Len(file')
    BY <2>5
  <2>7. \A i \in 1..b : i \in DOMAIN file' /\ file'[i] = file[i]
    <3>1. \A i \in 1..b : i \in 1..m
      OBVIOUS
    <3> QED BY <2>2, <2>3, <2>4, <2>6, <3>1 DEF StoredStay
  <2> QED BY <2>4, <2>7
<1> QED BY <1>1, ContainerInductive, PTL DEF Spec, CommittedStays
================================================================================
