--------------------------- MODULE StartupProofs ----------------------------
(***************************************************************************)
(* Proofs about Startup, for any configuration files, any contents of LM    *)
(* Studio's directory and any number of pulls.                              *)
(***************************************************************************)
EXTENDS Startup, Numbers, FiniteSetTheorems, TLAPS

-----------------------------------------------------------------------------
(***************************************************************************)
(* Proofs about Builds, for any number of pulls, releases, archives and     *)
(* files: the types, and PassesWhole.  PassesWhole speaks of directories    *)
(* that nobody fills; what carries it there is StartedInv, about the ones   *)
(* that are being filled: a file that some pull has started on is whole, or *)
(* the pull that truncated it last is still writing it.                     *)
(***************************************************************************)

\* The files that pull p has not started on: those left of the archive that it
\* extracts, and those of the archives to come.
Ahead(p) ==
  left[p] \cup
  UNION {Contents[Needed[k]] :
           k \in {j \in 1 .. Len(Needed) :
                    IF stage[p] = "extract" THEN j > asset[p] ELSE j >= asset[p]}}

\* What a pull has before it begins, and between two archives.
StageInv ==
  \A p \in Pull :
    /\ stage[p] \in {"idle", "stat"} => asset[p] = 1
    /\ stage[p] = "extract" => asset[p] <= Len(Needed)
    /\ stage[p] # "extract" => left[p] = {} /\ open[p] = {}
    /\ stage[p] # "idle" => tag[p] \in Tag
    /\ \A f, g \in open[p] : f = g

\* A file that has a writer is open in it.
WriterInv ==
  \A t \in Tag, f \in File :
    writer[t][f] # NoTag =>
      tag[writer[t][f]] = t /\ stage[writer[t][f]] = "extract" /\ f \in open[writer[t][f]]

StartedInv ==
  \A t \in Tag \ cut, p \in Pull, f \in File :
    Fills(p, t) /\ f \notin Ahead(p) => file[t][f] = "whole" \/ writer[t][f] # NoTag

BuildsInv == BuildsTypeOK /\ StageInv /\ WriterInv /\ StartedInv /\ PassesWhole

-----------------------------------------------------------------------------
LEMMA BuildsInitHolds == BuildsInit => BuildsInv
<1> SUFFICES ASSUME BuildsInit PROVE BuildsInv
  OBVIOUS
<1>1. Len(Needed) \in Nat
  BY AssetAssumption
<1>2. BuildsTypeOK
  BY <1>1 DEF BuildsInit, BuildsTypeOK
<1>3. StageInv /\ WriterInv /\ StartedInv
  BY DEF BuildsInit, StageInv, WriterInv, StartedInv, Fills
<1>4. PassesWhole
  BY AssetAssumption DEF BuildsInit, PassesWhole, Complete
<1> QED BY <1>2, <1>3, <1>4 DEF BuildsInv

\* Every step of a pull preserves the types and StageInv.
LEMMA PullTypes ==
  ASSUME BuildsInv, NEW p \in Pull, PullStep(p)
  PROVE  BuildsTypeOK' /\ StageInv'
<1> USE DEF BuildsInv
<1>0. Len(Needed) \in Nat
  BY AssetAssumption
<1>1. ASSUME NEW t \in Tag, Fetch(p, t) PROVE BuildsTypeOK' /\ StageInv'
  BY <1>1 DEF Fetch, BuildsTypeOK, StageInv
<1>2. ASSUME Ends(p), UNCHANGED <<file, writer, cut>> PROVE BuildsTypeOK' /\ StageInv'
  BY <1>0, <1>2 DEF Ends, BuildsTypeOK, StageInv
<1>3. ASSUME Prepare(p) PROVE BuildsTypeOK' /\ StageInv'
  BY <1>3 DEF Prepare, BuildsTypeOK, StageInv
<1>4. ASSUME Download(p) PROVE BuildsTypeOK' /\ StageInv'
  <2>1. Contents[Needed[asset[p]]] \subseteq File
    BY <1>0, <1>4 DEF Download, BuildsTypeOK, File
  <2> QED BY <1>4, <2>1 DEF Download, BuildsTypeOK, StageInv
<1>5. ASSUME NEW f \in File, Create(p, f) PROVE BuildsTypeOK' /\ StageInv'
  <2>1. tag[p] \in Tag
    BY <1>5 DEF Create, StageInv
  <2> QED BY <1>5, <2>1 DEF Create, Write, BuildsTypeOK, StageInv
<1>6. ASSUME Grow(p) PROVE BuildsTypeOK' /\ StageInv'
  <2>1. tag[p] \in Tag
    BY <1>6 DEF Grow, StageInv
  <2>2. file' \in [Tag -> [File -> {"none", "empty", "part", "whole"}]]
    BY <1>6, <2>1 DEF Grow, Write, BuildsTypeOK
  <2> QED BY <1>6, <2>2 DEF Grow, pullVars, BuildsTypeOK, StageInv
<1>7. ASSUME Close(p) PROVE BuildsTypeOK' /\ StageInv'
  <2>1. tag[p] \in Tag
    BY <1>7 DEF Close, StageInv
  <2>2. /\ file' \in [Tag -> [File -> {"none", "empty", "part", "whole"}]]
        /\ writer' \in [Tag -> [File -> Pull \cup {NoTag}]]
    <3>1. PICK f \in open[p] :
            /\ Write(tag[p], f, "whole") \/ UNCHANGED file
            /\ writer' = [writer EXCEPT ![tag[p]][f] = IF @ = p THEN NoTag ELSE @]
      BY <1>7 DEF Close
    <3>2. f \in File
      BY DEF BuildsTypeOK
    <3>3. writer[tag[p]][f] \in Pull \cup {NoTag}
      BY <2>1, <3>2 DEF BuildsTypeOK
    <3>4. writer' \in [Tag -> [File -> Pull \cup {NoTag}]]
      BY <2>1, <3>1, <3>2, <3>3 DEF BuildsTypeOK
    <3>5. file' \in [Tag -> [File -> {"none", "empty", "part", "whole"}]]
      <4>1. CASE Write(tag[p], f, "whole")
        BY <2>1, <3>2, <4>1 DEF Write, BuildsTypeOK
      <4>2. CASE UNCHANGED file
        BY <4>2 DEF BuildsTypeOK
      <4> QED BY <3>1, <4>1, <4>2
    <3> QED BY <3>4, <3>5
  <2> QED BY <1>7, <2>2 DEF Close, BuildsTypeOK, StageInv
<1>8. ASSUME NextAsset(p) PROVE BuildsTypeOK' /\ StageInv'
  <2>1. asset[p] \in 1 .. Len(Needed)
    BY <1>0, <1>8 DEF NextAsset, StageInv, BuildsTypeOK
  <2> QED BY <1>0, <1>8, <2>1 DEF NextAsset, BuildsTypeOK, StageInv
<1>9. ASSUME CutShort(p) PROVE BuildsTypeOK' /\ StageInv'
  <2>1. cut' \subseteq Tag /\ writer' \in [Tag -> [File -> Pull \cup {NoTag}]]
    BY <1>9 DEF CutShort, BuildsTypeOK
  <2> QED BY <1>0, <1>9, <2>1 DEF CutShort, Ends, BuildsTypeOK, StageInv
<1> QED
  BY <1>1, <1>2, <1>3, <1>4, <1>5, <1>6, <1>7, <1>8, <1>9
     DEF PullStep, Reuse, Finish

\* A step by which pull p neither opens nor closes a file, and nothing is said of
\* the directories that it fills but what is ahead of it.
LEMMA AheadKept ==
  ASSUME BuildsInv, NEW p \in Pull, UNCHANGED <<file, writer, cut>>, BuildsTypeOK', StageInv',
         \A q \in Pull \ {p} : /\ stage'[q] = stage[q] /\ tag'[q] = tag[q] /\ asset'[q] = asset[q]
                               /\ left'[q] = left[q] /\ open'[q] = open[q],
         open[p] = {},
         \A t \in Tag : Fills(p, t)' =>
           (File \subseteq Ahead(p)') \/ (Fills(p, t) /\ Ahead(p) \subseteq Ahead(p)')
  PROVE  WriterInv' /\ StartedInv'
<1> USE DEF BuildsInv
<1>1. \A q \in Pull \ {p} : Ahead(q)' = Ahead(q)
  BY DEF Ahead
<1>2. WriterInv'
  <2> SUFFICES ASSUME NEW t \in Tag, NEW f \in File, writer[t][f] # NoTag
               PROVE  /\ tag'[writer[t][f]] = t /\ stage'[writer[t][f]] = "extract"
                      /\ f \in open'[writer[t][f]]
    BY DEF WriterInv
  <2>1. writer[t][f] \in Pull
    BY DEF BuildsTypeOK
  <2>2. writer[t][f] # p
    BY DEF WriterInv
  <2> QED BY <2>1, <2>2 DEF WriterInv
<1>3. StartedInv'
  <2> SUFFICES ASSUME NEW t \in Tag \ cut, NEW q \in Pull, NEW f \in File,
                      Fills(q, t)', f \notin Ahead(q)'
               PROVE  file[t][f] = "whole" \/ writer[t][f] # NoTag
    BY DEF StartedInv
  <2>1. CASE q = p
    BY <2>1 DEF StartedInv
  <2>2. CASE q # p
    BY <1>1, <2>2 DEF StartedInv, Fills
  <2> QED BY <2>1, <2>2
<1> QED BY <1>2, <1>3

\* Every step of a pull preserves what is said about the files it has started.
LEMMA PullStarted ==
  ASSUME BuildsInv, NEW p \in Pull, PullStep(p), BuildsTypeOK', StageInv'
  PROVE  WriterInv' /\ StartedInv'
<1> USE DEF BuildsInv
<1>0. Len(Needed) \in Nat /\ \A q \in Pull : asset[q] \in Nat
  BY AssetAssumption DEF BuildsTypeOK
<1>1. ASSUME NEW t \in Tag, Fetch(p, t) PROVE WriterInv' /\ StartedInv'
  <2>1. open[p] = {} /\ \A u \in Tag : ~Fills(p, u)'
    BY <1>1 DEF Fetch, StageInv, Fills, BuildsTypeOK
  <2> QED BY <1>1, <2>1, AheadKept DEF Fetch, BuildsTypeOK
<1>2. ASSUME Ends(p), open[p] = {}, UNCHANGED <<file, writer, cut>> PROVE WriterInv' /\ StartedInv'
  <2>1. \A u \in Tag : ~Fills(p, u)'
    BY <1>2 DEF Ends, Fills, BuildsTypeOK
  <2> QED BY <1>2, <2>1, AheadKept DEF Ends, BuildsTypeOK
<1>3. ASSUME Prepare(p) PROVE WriterInv' /\ StartedInv'
  <2>1. open[p] = {} /\ asset'[p] = 1 /\ stage'[p] = "download"
    BY <1>3 DEF Prepare, StageInv, BuildsTypeOK
  <2>2. File \subseteq Ahead(p)'
    BY <2>1, AssetAssumption DEF Ahead, File
  <2> QED BY <1>3, <2>1, <2>2, AheadKept DEF Prepare, BuildsTypeOK
<1>4. ASSUME Download(p) PROVE WriterInv' /\ StartedInv'
  <2>1. /\ open[p] = {} /\ left[p] = {} /\ stage[p] = "download" /\ stage'[p] = "extract"
        /\ asset'[p] = asset[p] /\ asset[p] \in 1 .. Len(Needed)
        /\ left'[p] = Contents[Needed[asset[p]]]
    <3>1. asset[p] \in 1 .. Len(Needed)
      BY <1>0, <1>4 DEF Download, BuildsTypeOK
    <3>2. left[p] = {} /\ open[p] = {}
      BY <1>4 DEF Download, StageInv
    <3> QED BY <1>4, <3>1, <3>2 DEF Download, BuildsTypeOK
  <2>2. Ahead(p) \subseteq Ahead(p)'
    <3> SUFFICES ASSUME NEW f \in Ahead(p) PROVE f \in Ahead(p)'
      OBVIOUS
    <3>1. PICK k \in 1 .. Len(Needed) : k >= asset[p] /\ f \in Contents[Needed[k]]
      BY <2>1 DEF Ahead
    <3>2. k = asset[p] \/ k > asset[p]
      BY <1>0, <3>1
    <3> QED BY <2>1, <3>1, <3>2 DEF Ahead
  <2>3. \A t \in Tag : Fills(p, t)' => Fills(p, t)
    BY <1>4, <2>1 DEF Download, Fills
  <2> QED BY <1>4, <2>1, <2>2, <2>3, AheadKept DEF Download, BuildsTypeOK
<1>5. ASSUME NextAsset(p) PROVE WriterInv' /\ StartedInv'
  <2>1. /\ open[p] = {} /\ left[p] = {} /\ stage[p] = "extract" /\ stage'[p] = "download"
        /\ asset'[p] = asset[p] + 1 /\ left'[p] = {}
    BY <1>0, <1>5 DEF NextAsset, StageInv, BuildsTypeOK
  <2>2. Ahead(p) \subseteq Ahead(p)'
    <3> SUFFICES ASSUME NEW f \in Ahead(p) PROVE f \in Ahead(p)'
      OBVIOUS
    <3>1. PICK k \in 1 .. Len(Needed) : k > asset[p] /\ f \in Contents[Needed[k]]
      BY <2>1 DEF Ahead
    <3>2. k >= asset[p] + 1
      BY <1>0, <3>1
    <3> QED BY <2>1, <3>1, <3>2 DEF Ahead
  <2>3. \A t \in Tag : Fills(p, t)' => Fills(p, t)
    BY <1>5, <2>1 DEF NextAsset, Fills
  <2> QED BY <1>5, <2>1, <2>2, <2>3, AheadKept DEF NextAsset, BuildsTypeOK
<1>6. ASSUME NEW g \in File, Create(p, g) PROVE WriterInv' /\ StartedInv'
  <2>1. /\ tag[p] \in Tag /\ stage[p] = "extract" /\ open[p] = {}
        /\ UNCHANGED <<stage, tag, asset, cut>>
        /\ file' = [file EXCEPT ![tag[p]][g] = "empty"]
        /\ writer' = [writer EXCEPT ![tag[p]][g] = p]
        /\ left' = [left EXCEPT ![p] = @ \ {g}]
        /\ open' = [open EXCEPT ![p] = {g}]
    BY <1>6 DEF Create, Write, StageInv
  <2>2. WriterInv'
    <3> SUFFICES ASSUME NEW t \in Tag, NEW f \in File, writer'[t][f] # NoTag
                 PROVE  /\ tag[writer'[t][f]] = t /\ stage[writer'[t][f]] = "extract"
                        /\ f \in open'[writer'[t][f]]
      BY <2>1 DEF WriterInv
    <3>1. CASE t = tag[p] /\ f = g
      BY <2>1, <3>1 DEF BuildsTypeOK
    <3>2. CASE ~(t = tag[p] /\ f = g)
      <4>1. writer'[t][f] = writer[t][f] /\ writer[t][f] \in Pull
        BY <2>1, <3>2, TagAssumption DEF BuildsTypeOK
      <4>2. writer[t][f] # p
        BY <2>1, <4>1, <3>2, TagAssumption DEF WriterInv
      <4> QED BY <2>1, <4>1, <4>2, TagAssumption DEF WriterInv, BuildsTypeOK
    <3> QED BY <3>1, <3>2
  <2>3. StartedInv'
    <3> SUFFICES ASSUME NEW t \in Tag \ cut, NEW q \in Pull, NEW f \in File,
                        Fills(q, t)', f \notin Ahead(q)'
                 PROVE  file'[t][f] = "whole" \/ writer'[t][f] # NoTag
      BY <2>1 DEF StartedInv
    <3>1. CASE t = tag[p] /\ f = g
      BY <2>1, <3>1, TagAssumption DEF BuildsTypeOK
    <3>2. CASE ~(t = tag[p] /\ f = g)
      <4>1. file'[t][f] = file[t][f] /\ writer'[t][f] = writer[t][f]
        BY <2>1, <3>2 DEF BuildsTypeOK
      <4>2. Fills(q, t)
        BY <2>1 DEF Fills
      <4>3. f \notin Ahead(q)
        <5>1. CASE q = p
          <6>1. f # g
            BY <2>1, <3>2, <4>2, <5>1 DEF Fills
          <6>2. left'[p] = left[p] \ {g}
            BY <2>1 DEF BuildsTypeOK
          <6> QED BY <2>1, <5>1, <6>1, <6>2 DEF Ahead
        <5>2. CASE q # p
          <6>1. left'[q] = left[q]
            BY <2>1, <5>2 DEF BuildsTypeOK
          <6> QED BY <2>1, <6>1 DEF Ahead
        <5> QED BY <5>1, <5>2
      <4> QED BY <4>1, <4>2, <4>3 DEF StartedInv
    <3> QED BY <3>1, <3>2
  <2> QED BY <2>2, <2>3
<1>7. ASSUME Grow(p) PROVE WriterInv' /\ StartedInv'
  <2>1. PICK g \in open[p] : file[tag[p]][g] = "empty" /\ file' = [file EXCEPT ![tag[p]][g] = "part"]
    BY <1>7 DEF Grow, Write
  <2>2. tag[p] \in Tag /\ g \in File /\ UNCHANGED <<writer, stage, tag, asset, left, open, cut>>
    BY <1>7 DEF Grow, pullVars, StageInv, BuildsTypeOK
  <2>3. WriterInv'
    BY <2>2 DEF WriterInv
  <2>4. \A t \in Tag, f \in File : file[t][f] = "whole" => file'[t][f] = "whole"
    BY <2>1, <2>2 DEF BuildsTypeOK
  <2>5. \A q \in Pull : Ahead(q)' = Ahead(q)
    BY <2>2 DEF Ahead
  <2>6. StartedInv'
    BY <2>2, <2>4, <2>5 DEF StartedInv, Fills
  <2> QED BY <2>3, <2>6
<1>8. ASSUME Close(p) PROVE WriterInv' /\ StartedInv'
  <2>1. PICK g \in open[p] :
          /\ \/ file' = [file EXCEPT ![tag[p]][g] = "whole"]
             \/ writer[tag[p]][g] # p /\ UNCHANGED file
          /\ writer' = [writer EXCEPT ![tag[p]][g] = IF @ = p THEN NoTag ELSE @]
    BY <1>8 DEF Close, Write
  <2>2. /\ tag[p] \in Tag /\ g \in File /\ UNCHANGED <<stage, tag, asset, left, cut>>
        /\ open' = [open EXCEPT ![p] = {}]
    BY <1>8 DEF Close, StageInv, BuildsTypeOK
  <2>3. \A q \in Pull : Ahead(q)' = Ahead(q)
    BY <2>2 DEF Ahead
  <2>4. \A t \in Tag, f \in File :
          /\ file[t][f] = "whole" => file'[t][f] = "whole"
          /\ writer[t][f] # NoTag =>
               \/ file'[t][f] = "whole" /\ writer'[t][f] = NoTag
               \/ writer'[t][f] = writer[t][f] /\ ~(writer[t][f] = p /\ t = tag[p] /\ f = g)
          /\ writer[t][f] = NoTag => writer'[t][f] = NoTag
    <3> SUFFICES ASSUME NEW t \in Tag, NEW f \in File
                 PROVE  /\ file[t][f] = "whole" => file'[t][f] = "whole"
                        /\ writer[t][f] # NoTag =>
                             \/ file'[t][f] = "whole" /\ writer'[t][f] = NoTag
                             \/ /\ writer'[t][f] = writer[t][f]
                                /\ ~(writer[t][f] = p /\ t = tag[p] /\ f = g)
                        /\ writer[t][f] = NoTag => writer'[t][f] = NoTag
      OBVIOUS
    <3>1. CASE t = tag[p] /\ f = g
      <4>1. writer'[t][f] = IF writer[t][f] = p THEN NoTag ELSE writer[t][f]
        BY <2>1, <2>2, <3>1 DEF BuildsTypeOK
      <4>2. file'[t][f] = "whole" \/ (writer[t][f] # p /\ file'[t][f] = file[t][f])
        BY <2>1, <2>2, <3>1 DEF BuildsTypeOK
      <4> QED BY <4>1, <4>2
    <3>2. CASE ~(t = tag[p] /\ f = g)
      <4>1. writer'[t][f] = writer[t][f]
        BY <2>1, <2>2, <3>2 DEF BuildsTypeOK
      <4>2. file'[t][f] = file[t][f]
        <5>1. CASE file' = [file EXCEPT ![tag[p]][g] = "whole"]
          BY <2>2, <3>2, <5>1 DEF BuildsTypeOK
        <5>2. CASE UNCHANGED file
          BY <5>2
        <5> QED BY <2>1, <5>1, <5>2
      <4> QED BY <3>2, <4>1, <4>2
    <3> QED BY <3>1, <3>2
  <2>5. WriterInv'
    <3> SUFFICES ASSUME NEW t \in Tag, NEW f \in File, writer'[t][f] # NoTag
                 PROVE  /\ tag[writer'[t][f]] = t /\ stage[writer'[t][f]] = "extract"
                        /\ f \in open'[writer'[t][f]]
      BY <2>2 DEF WriterInv
    <3>1. /\ writer'[t][f] = writer[t][f] /\ writer[t][f] \in Pull
          /\ ~(writer[t][f] = p /\ t = tag[p] /\ f = g)
      BY <2>4 DEF BuildsTypeOK
    <3>2. /\ tag[writer[t][f]] = t /\ stage[writer[t][f]] = "extract"
          /\ f \in open[writer[t][f]]
      BY <3>1, TagAssumption DEF WriterInv
    <3>3. writer[t][f] # p
      <4>1. open[p] = {g}
        BY <2>1 DEF StageInv
      <4> QED BY <3>1, <3>2, <4>1
    <3> QED BY <2>2, <3>1, <3>2, <3>3 DEF BuildsTypeOK
  <2>6. StartedInv'
    BY <2>2, <2>3, <2>4 DEF StartedInv, Fills
  <2> QED BY <2>5, <2>6
<1>9. ASSUME CutShort(p) PROVE WriterInv' /\ StartedInv'
  <2>1. /\ UNCHANGED file /\ stage'[p] = "idle" /\ cut \subseteq cut'
        /\ \A q \in Pull \ {p} : /\ stage'[q] = stage[q] /\ tag'[q] = tag[q]
                                 /\ asset'[q] = asset[q] /\ left'[q] = left[q]
                                 /\ open'[q] = open[q]
        /\ \A t \in Tag, f \in File :
             writer'[t][f] = IF writer[t][f] = p THEN NoTag ELSE writer[t][f]
    BY <1>9 DEF CutShort, Ends, BuildsTypeOK
  <2>2. WriterInv'
    <3> SUFFICES ASSUME NEW t \in Tag, NEW f \in File, writer'[t][f] # NoTag
                 PROVE  /\ tag'[writer'[t][f]] = t /\ stage'[writer'[t][f]] = "extract"
                        /\ f \in open'[writer'[t][f]]
      BY DEF WriterInv
    <3>1. writer'[t][f] = writer[t][f] /\ writer[t][f] \in Pull \ {p}
      BY <2>1 DEF BuildsTypeOK
    <3> QED BY <2>1, <3>1, TagAssumption DEF WriterInv
  <2>3. StartedInv'
    <3> SUFFICES ASSUME NEW t \in Tag \ cut', NEW q \in Pull, NEW f \in File,
                        Fills(q, t)', f \notin Ahead(q)'
                 PROVE  file'[t][f] = "whole" \/ writer'[t][f] # NoTag
      BY DEF StartedInv
    <3>1. q # p /\ Fills(q, t)
      BY <2>1 DEF Fills
    <3>2. f \notin Ahead(q)
      BY <2>1, <3>1 DEF Ahead
    <3>3. ~Fills(p, t)
      BY <1>9, <3>1 DEF CutShort, LeavesUnfinished
    <3>4. writer[t][f] # p
      BY <3>3, TagAssumption DEF WriterInv, Fills
    <3> QED BY <2>1, <3>1, <3>2, <3>4 DEF StartedInv
  <2> QED BY <2>2, <2>3
<1>10. ASSUME Reuse(p) \/ Finish(p) PROVE WriterInv' /\ StartedInv'
  <2>1. open[p] = {} /\ Ends(p) /\ UNCHANGED <<file, writer, cut>>
    BY <1>10 DEF Reuse, Finish, StageInv
  <2> QED BY <1>2, <2>1
<1> QED
  BY <1>1, <1>3, <1>4, <1>5, <1>6, <1>7, <1>8, <1>9, <1>10 DEF PullStep

\* Only a pull that fills a directory writes there, and PullGGML fills none that
\* has a server with content.
LEMMA OnlyFillersWrite ==
  ASSUME BuildsInv, NEW p \in Pull, PullStep(p), NEW t \in Tag
  PROVE  /\ ~Fills(p, t) => file'[t] = file[t]
         /\ Complete(t) /\ ~Filled(t) => ~Filled(t)'
<1> USE DEF BuildsInv
<1>1. ~Fills(p, t) => file'[t] = file[t]
  <2> SUFFICES ASSUME ~Fills(p, t) PROVE file'[t] = file[t]
    OBVIOUS
  <2>1. CASE UNCHANGED file
    BY <2>1
  <2>2. ASSUME NEW f, NEW s, stage[p] = "extract", Write(tag[p], f, s) PROVE file'[t] = file[t]
    <3>1. tag[p] # t
      BY <2>2 DEF Fills
    <3> QED BY <2>2, <3>1 DEF Write, BuildsTypeOK
  <2> QED
    BY <2>1, <2>2 DEF PullStep, Fetch, Reuse, Prepare, Download, Create, Grow, Close,
       NextAsset, CutShort, Finish
<1>2. ASSUME Complete(t), ~Filled(t) PROVE ~Filled(t)'
  <2>1. \A q \in Pull \ {p} : stage'[q] = stage[q] /\ tag'[q] = tag[q]
    BY DEF PullStep, Fetch, Reuse, Prepare, Download, Create, Grow, Close, NextAsset,
       CutShort, Finish, Ends, pullVars, BuildsTypeOK
  <2>2. ~Fills(p, t)'
    BY <1>2 DEF PullStep, Fetch, Reuse, Prepare, Download, Create, Grow, Close, NextAsset,
       CutShort, Finish, Ends, pullVars, Fills, Filled, BuildsTypeOK
  <2> QED BY <1>2, <2>1, <2>2 DEF Filled, Fills
<1> QED BY <1>1, <1>2

\* The last pull to leave a directory leaves it whole, unless it is cut short.
LEMMA PullPasses ==
  ASSUME BuildsInv, NEW p \in Pull, PullStep(p), BuildsTypeOK', StageInv'
  PROVE  PassesWhole'
<1> USE DEF BuildsInv
<1> SUFFICES ASSUME NEW t \in Tag, Complete(t)', ~Filled(t)', t \notin cut'
             PROVE  Whole(t)'
  BY DEF PassesWhole
<1>1. t \notin cut
  BY DEF PullStep, Fetch, Reuse, Prepare, Download, Create, Grow, Close, NextAsset,
     CutShort, Finish
<1>2. CASE ~Fills(p, t)
  <2>1. file'[t] = file[t]
    BY <1>2, OnlyFillersWrite
  <2>2. \A q \in Pull \ {p} : stage'[q] = stage[q] /\ tag'[q] = tag[q]
    BY DEF PullStep, Fetch, Reuse, Prepare, Download, Create, Grow, Close, NextAsset,
       CutShort, Finish, Ends, pullVars, BuildsTypeOK
  <2>3. ~Filled(t)
    BY <1>2, <2>2 DEF Filled, Fills
  <2> QED BY <1>1, <2>1, <2>3 DEF PassesWhole, Complete, Whole
<1>3. CASE Fills(p, t)
  <2>1. ~Fills(p, t)'
    BY DEF Filled
  <2>2. CASE CutShort(p)
    <3>1. ~LeavesUnfinished(p, t)
      BY <1>3, <2>2 DEF CutShort
    <3> QED BY <2>2, <3>1 DEF CutShort, LeavesUnfinished, Complete
  <2>3. CASE Finish(p)
    <3>1. open[p] = {} /\ Ahead(p) = {}
      BY <2>3, AssetAssumption DEF Finish, StageInv, Ahead, BuildsTypeOK
    <3>2. ASSUME NEW f \in File PROVE file[t][f] = "whole"
      <4>1. file[t][f] = "whole" \/ writer[t][f] # NoTag
        BY <1>1, <1>3, <3>1 DEF StartedInv
      <4>2. ASSUME writer[t][f] # NoTag PROVE FALSE
        <5>1. PICK q \in Pull : tag[q] = t /\ stage[q] = "extract" /\ f \in open[q]
          BY <4>2 DEF WriterInv, BuildsTypeOK
        <5>2. q # p
          BY <3>1, <5>1
        <5>3. Fills(q, t)'
          BY <2>3, <5>1, <5>2 DEF Finish, Ends, Fills, BuildsTypeOK
        <5> QED BY <5>3 DEF Filled
      <4> QED BY <4>1, <4>2
    <3> QED BY <2>3, <3>2 DEF Finish, Whole
  <2>4. ASSUME ~CutShort(p), ~Finish(p) PROVE FALSE
    BY <1>3, <2>1, <2>4 DEF PullStep, Fetch, Reuse, Prepare, Download, Create, Grow, Close,
       NextAsset, pullVars, Fills, BuildsTypeOK
  <2> QED BY <2>2, <2>3, <2>4
<1> QED BY <1>2, <1>3

\* The invariant of the managed builds, for the modules that compose them.
LEMMA BuildsStep == BuildsInv /\ [BuildsNext]_buildVars => BuildsInv'
<1> SUFFICES ASSUME BuildsInv, [BuildsNext]_buildVars PROVE BuildsInv'
  OBVIOUS
<1>1. CASE UNCHANGED buildVars
  <2>1. \A p \in Pull : Ahead(p)' = Ahead(p)
    BY <1>1 DEF buildVars, pullVars, Ahead
  <2>2. BuildsTypeOK' /\ StageInv' /\ WriterInv'
    BY <1>1 DEF buildVars, pullVars, BuildsInv, BuildsTypeOK, StageInv, WriterInv
  <2>3. StartedInv'
    BY <1>1, <2>1 DEF buildVars, pullVars, BuildsInv, StartedInv, Fills
  <2>4. PassesWhole'
    BY <1>1 DEF buildVars, pullVars, BuildsInv, PassesWhole, Complete, Filled, Fills, Whole
  <2> QED BY <2>2, <2>3, <2>4 DEF BuildsInv
<1>2. ASSUME NEW p \in Pull, PullStep(p) PROVE BuildsInv'
  BY <1>2, PullTypes, PullStarted, PullPasses DEF BuildsInv
<1> QED BY <1>1, <1>2 DEF BuildsNext

-----------------------------------------------------------------------------

(***************************************************************************)
(* The inductive invariant: BuildsInv; a build that was sound when it was   *)
(* chosen is whole and nobody fills it, which the reuse test of PullGGML    *)
(* then preserves; with static slots the table follows the configuration    *)
(* slot by slot; in a profile names and automatic ports stay apart.         *)
(***************************************************************************)
Picked(b) == b \in Backend /\ b.kind = "studio" => b.dir \in Latest(b.among, VariantOf(b.dir))

Good(b) ==
  /\ b \in Backend /\ b.kind = "ggml" /\ b.sound => Whole(b.tag) /\ ~Filled(b.tag)
  /\ Picked(b)

Chosen == {rigwide} \cup {placed[j].backend : j \in 1 .. Len(placed)}

GoodInv == \A b \in Chosen : Good(b)

PhaseInv ==
  /\ phase # "off" => cfgFile \in ConfigFile /\ validate(cfg)
  /\ phase \in {"off", "load"} => placed = <<>>
  /\ phase \notin {"off", "load"} => rigwide \in Backend
  /\ phase # "boot" => toLoad = <<>>
  /\ phase \in {"boot", "serve", "stop"} /\ cfgFile.slots # <<>> => toLoad = <<>>
  /\ \A j \in 1 .. Len(placed) : ~placed[j].external => placed[j].backend \in Backend

\* Static slots: instance j is made of slot j.
Follows(j) ==
  /\ placed[j].name = cfgFile.slots[j].name
  /\ placed[j].asked = cfgFile.slots[j].port
  /\ ~placed[j].external => placed[j].port = cfg.slots[j].port

StaticInv ==
  (phase \in {"new", "bound"} \/ (phase \in {"boot", "serve", "stop"} /\ cfgFile.slots # <<>>)) =>
    /\ Len(placed) <= Len(cfgFile.slots)
    /\ \A j \in 1 .. Len(placed) : Follows(j)

\* A profile: an automatic port is none that an earlier slot has.
ProfileInv ==
  phase \in {"boot", "serve", "stop"} /\ cfgFile.slots = <<>> =>
    \A j, k \in 1 .. Len(placed) :
      /\ j # k => placed[j].name # placed[k].name
      /\ j < k /\ ~placed[k].external /\ placed[k].asked = 0 => placed[j].port # placed[k].port

StartupInv ==
  TypeOK /\ BuildsInv /\ GoodInv /\ PhaseInv /\ StaticInv /\ ProfileInv /\ OrphansExplained

-----------------------------------------------------------------------------
\* What a specification resolves to is a backend, and a good one.
LEMMA Resolved ==
  ASSUME BuildsInv, NEW spec \in Specification, NEW ds \in Scan, NEW b \in resolveBackend(spec, ds)
  PROVE  b \in Backend /\ Good(b)
<1>1. CASE spec \in [kind : {"ggml"}, ref : Tag \cup {LatestRef}]
  <2>1. PICK t \in ResolveGGML(spec.ref) : b = ManagedBuild(t)
    BY <1>1 DEF resolveBackend
  <2>2. t \in Tag /\ Complete(t)
    BY DEF ResolveGGML, Managed
  <2>3. Sound(t) \in BOOLEAN
    BY DEF Sound
  <2>4. b \in Backend /\ b.tag = t /\ b.sound = Sound(t)
    BY <2>1, <2>2, <2>3 DEF ManagedBuild, Backend
  <2>5. Sound(t) => Whole(t) /\ ~Filled(t)
    BY <2>2 DEF Sound, BuildsInv, PassesWhole
  <2> QED BY <2>1, <2>4, <2>5 DEF Good, Picked, ManagedBuild
<1>2. CASE spec \in [kind : {"dir"}, hasServer : BOOLEAN]
  <2>1. b = CustomDir
    BY <1>2 DEF resolveBackend
  <2> QED BY <2>1 DEF Good, Picked, Backend, CustomDir
<1>3. CASE spec \in [kind : {"variant"}, variant : {"cuda12", "cuda", "rocm", "vulkan", "cpu"}]
  <2>1. PICK d \in Latest(ds, spec.variant) : b = StudioBuild(d, ds)
    BY <1>3 DEF resolveBackend
  <2>2. d \in ds
    BY DEF Latest
  <2>3. b \in Backend
    BY <2>1, <2>2 DEF Backend
  <2>4. b.kind = "studio" /\ b.dir = d /\ b.among = ds
    BY <2>1 DEF StudioBuild
  <2>5. VariantOf(d) = spec.variant
    BY DEF Latest
  <2>6. Picked(b)
    BY <2>4, <2>5 DEF Picked
  <2> QED BY <2>3, <2>4, <2>6 DEF Good
<1> QED BY <1>1, <1>2, <1>3 DEF Specification

\* The instances that a slot can become.
LEMMA InstancesMade ==
  ASSUME BuildsInv, rigwide \in Backend, Good(rigwide),
         NEW s \in SlotRecord, NEW p \in Nat, NEW ds \in Scan, NEW in \in Instances(s, p, ds)
  PROVE  /\ in \in InstanceRecord /\ Good(in.backend)
         /\ in.name = s.name /\ in.asked = s.port
         /\ ~in.external => in.port = p /\ in.backend \in Backend
<1>0. External(s) \in BOOLEAN /\ s.name \in STRING /\ s.port \in Nat
  BY DEF External, SlotRecord
<1>1. CASE External(s)
  <2>1. in = Instance(s, UrlPort, Nothing)
    BY <1>1 DEF Instances
  <2>2. in.external = TRUE /\ in.backend = Nothing /\ in.name = s.name /\ in.asked = s.port
    BY <1>1, <2>1 DEF Instance
  <2>3. in \in InstanceRecord
    BY <1>0, <2>1, HostAssumption DEF Instance, InstanceRecord
  <2>4. Good(in.backend)
    BY <2>2, NothingAssumption DEF Good, Picked
  <2> QED BY <2>2, <2>3, <2>4
<1>2. CASE ~External(s)
  <2>1. PICK b \in backendFor(s, ds) : in = Instance(s, p, b)
    BY <1>2 DEF Instances
  <2>2. b \in Backend /\ Good(b)
    BY <2>1, Resolved DEF backendFor, SlotRecord
  <2>3. in \in InstanceRecord
    BY <1>0, <2>1, <2>2 DEF Instance, InstanceRecord
  <2>4. in.name = s.name /\ in.asked = s.port /\ in.port = p /\ in.backend = b
    BY <2>1 DEF Instance
  <2> QED BY <2>2, <2>3, <2>4
<1> QED BY <1>1, <1>2

\* The number of slots without a port of their own counts up at each of them.
LEMMA PortlessCounts ==
  ASSUME NEW slots \in Seq(SlotRecord), NEW j \in 1 .. Len(slots), NEW k \in 1 .. Len(slots),
         j < k, slots[j].port = 0
  PROVE  Portless(slots, j - 1) + 1 <= Portless(slots, k - 1)
<1> DEFINE A == {i \in 1 .. j - 1 : slots[i].port = 0}
           B == {i \in 1 .. k - 1 : slots[i].port = 0}
<1>0. 1 \in Int /\ j - 1 \in Int /\ k - 1 \in Int
  OBVIOUS
<1>1. IsFiniteSet(1 .. k - 1) /\ IsFiniteSet(1 .. j - 1)
  <2> DEFINE x == j - 1
             y == k - 1
  <2> HIDE DEF x, y
  <2>1. IsFiniteSet(1 .. x) /\ IsFiniteSet(1 .. y)
    <3>1. x \in Int /\ y \in Int
      BY <1>0 DEF x, y
    <3> QED BY <1>0, <3>1, FS_Interval
  <2> QED BY <2>1 DEF x, y
<1>2. IsFiniteSet(A) /\ IsFiniteSet(B)
  BY <1>1, FS_Subset
<1>3. A \cup {j} \subseteq B /\ j \notin A
  OBVIOUS
<1>4. Cardinality(A \cup {j}) = Cardinality(A) + 1 /\ IsFiniteSet(A \cup {j})
  BY <1>2, <1>3, FS_AddElement
<1>5. Cardinality(A \cup {j}) <= Cardinality(B)
  BY <1>2, <1>3, FS_Subset
<1> QED BY <1>4, <1>5 DEF Portless

LEMMA PortlessNat ==
  ASSUME NEW slots, NEW k \in Nat
  PROVE  Portless(slots, k) \in Nat
<1> DEFINE A == {i \in 1 .. k : slots[i].port = 0}
<1>1. IsFiniteSet(1 .. k)
  BY FS_Interval
<1>2. IsFiniteSet(A)
  BY <1>1, FS_Subset
<1>3. Cardinality(A) \in Nat
  BY <1>2, FS_CardinalityType
<1> QED BY <1>3 DEF Portless

\* applyDefaults: a backend and a base port, and slots that differ in the port
\* only; two automatic ports differ.
LEMMA Defaults ==
  ASSUME NEW c \in ConfigFile
  PROVE  LET d == applyDefaults(c) IN
         /\ d.backend \in Specification /\ d.basePort \in Nat /\ d.profile = c.profile
         /\ Len(d.slots) = Len(c.slots)
         /\ \A j \in 1 .. Len(c.slots) : d.slots[j].port \in Nat /\ d.slots[j].name = c.slots[j].name
         /\ \A j, k \in 1 .. Len(c.slots) :
              j < k /\ c.slots[j].port = 0 /\ c.slots[k].port = 0 => d.slots[j].port # d.slots[k].port
<1> DEFINE d == applyDefaults(c)
           base == IF c.basePort = 0 THEN DefaultBasePort ELSE c.basePort
           n == Len(c.slots)
<1>1. /\ c.backend \in Specification \cup {NoSpec} /\ c.basePort \in Nat
      /\ c.slots \in Seq(SlotRecord) /\ n \in Nat
  BY ConfigAssumption
<1>2. base \in Nat
  BY <1>1 DEF DefaultBasePort
<1>3. DefaultBackend \in Specification
  BY DEF DefaultBackend, Specification
<1>4. d.backend \in Specification /\ d.basePort = base /\ d.profile = c.profile
  BY <1>1, <1>3 DEF applyDefaults
<1>5. d.slots = [j \in 1 .. n |->
                   IF c.slots[j].port # 0 THEN c.slots[j]
                   ELSE [c.slots[j] EXCEPT !.port = base + Portless(c.slots, j - 1)]]
  BY DEF applyDefaults
<1>6. Len(d.slots) = n
  BY <1>1, <1>5
<1>7. ASSUME NEW j \in 1 .. n
      PROVE  /\ d.slots[j].port \in Nat /\ d.slots[j].name = c.slots[j].name
             /\ c.slots[j].port = 0 => d.slots[j].port = base + Portless(c.slots, j - 1)
  <2>1. c.slots[j] \in SlotRecord
    BY <1>1
  <2>2. Portless(c.slots, j - 1) \in Nat
    BY <1>1, PortlessNat
  <2> QED BY <1>2, <1>5, <2>1, <2>2 DEF SlotRecord
<1>8. ASSUME NEW j \in 1 .. n, NEW k \in 1 .. n, j < k, c.slots[j].port = 0, c.slots[k].port = 0
      PROVE  d.slots[j].port # d.slots[k].port
  <2>1. Portless(c.slots, j - 1) + 1 <= Portless(c.slots, k - 1)
    BY <1>1, <1>8, PortlessCounts
  <2>2. Portless(c.slots, j - 1) \in Nat /\ Portless(c.slots, k - 1) \in Nat
    BY <1>1, PortlessNat
  <2> QED BY <1>2, <1>7, <1>8, <2>1, <2>2
<1> QED BY <1>2, <1>4, <1>6, <1>7, <1>8

\* nextPortLocked finds a port that no instance has.
LEMMA NextPortFree ==
  ASSUME TypeOK, cfgFile \in ConfigFile
  PROVE  NextPort \in Nat /\ \A j \in 1 .. Len(placed) : placed[j].port # NextPort
<1> DEFINE n == Len(placed)
           a == cfg.basePort
           g == [j \in 1 .. n |-> placed[j].port]
<1>1. n \in Nat /\ a \in Nat /\ g \in [1 .. n -> Nat] /\ DOMAIN placed = 1 .. n
  <2>1. n \in Nat /\ DOMAIN placed = 1 .. n /\ \A j \in 1 .. n : placed[j].port \in Nat
    <3>1. placed \in Seq(InstanceRecord)
      BY DEF TypeOK
    <3>2. \A j \in 1 .. n : placed[j] \in InstanceRecord
      BY <3>1
    <3> QED BY <3>1, <3>2 DEF InstanceRecord
  <2>2. a \in Nat
    BY Defaults DEF cfg
  <2> QED BY <2>1, <2>2
<1>2. PICK p \in a .. a + n : FirstFree(p, a, n, g)
  <2> HIDE DEF n, a, g
  <2> QED BY <1>1, FirstFreePort
<1>3. /\ \A j \in DOMAIN placed : placed[j].port # p
      /\ \A q \in a .. p - 1 : \E j \in DOMAIN placed : placed[j].port = q
  BY <1>1, <1>2 DEF FirstFree
<1>4. NextPort \in a .. a + n /\ \A j \in DOMAIN placed : placed[j].port # NextPort
  BY <1>2, <1>3 DEF NextPort
<1> QED BY <1>1, <1>4

\* A build that is whole and that nobody fills stays so: PullGGML reuses it.
LEMMA WholeKept ==
  ASSUME BuildsInv, [BuildsNext]_buildVars, NEW t \in Tag, Whole(t), ~Filled(t)
  PROVE  Whole(t)' /\ ~Filled(t)'
<1>1. CASE UNCHANGED buildVars
  BY <1>1 DEF buildVars, pullVars, Whole, Filled, Fills
<1>2. ASSUME NEW p \in Pull, PullStep(p) PROVE Whole(t)' /\ ~Filled(t)'
  <2>1. Complete(t) /\ ~Fills(p, t)
    BY AssetAssumption DEF Whole, Complete, Filled
  <2>2. file'[t] = file[t] /\ ~Filled(t)'
    BY <1>2, <2>1, OnlyFillersWrite
  <2> QED BY <2>2 DEF Whole
<1> QED BY <1>1, <1>2 DEF BuildsNext

LEMMA StartupInit == Init => StartupInv
<1> SUFFICES ASSUME Init PROVE StartupInv
  OBVIOUS
<1>1. BuildsInv
  BY BuildsInitHolds DEF Init
<1>2. Len(placed) = 0 /\ placed = <<>> /\ toLoad = <<>>
  BY DEF Init, Off
<1>3. TypeOK
  <2>1. placed \in Seq(InstanceRecord) /\ toLoad \in Seq(SlotRecord)
    BY <1>2
  <2>2. /\ handler \in BOOLEAN /\ orphaned \in BOOLEAN
        /\ abrupt \in BOOLEAN /\ overtaken \in BOOLEAN
    BY DEF Init, Off
  <2>3. stopped \in 0 .. Len(placed)
    <3>1. stopped = 0
      BY DEF Init, Off
    <3> QED BY <1>2, <3>1
  <2> QED BY <1>1, <2>1, <2>2, <2>3 DEF Init, Off, TypeOK, BuildsInv
<1>4. GoodInv
  BY <1>2, NothingAssumption DEF Init, Off, GoodInv, Chosen, Good, Picked
<1>5. PhaseInv
  BY <1>2 DEF Init, Off, PhaseInv
<1>6. StaticInv /\ ProfileInv /\ OrphansExplained
  BY DEF Init, Off, StaticInv, ProfileInv, OrphansExplained
<1> QED BY <1>1, <1>3, <1>4, <1>5, <1>6 DEF StartupInv

\* A backend that is good stays good.
LEMMA GoodKept ==
  ASSUME BuildsInv, [BuildsNext]_buildVars, NEW b, Good(b)
  PROVE  Good(b)'
<1>0. Picked(b)'
  BY DEF Good, Picked
<1> SUFFICES ASSUME b \in Backend, b.kind = "ggml", b.sound PROVE Whole(b.tag)' /\ ~Filled(b.tag)'
  BY <1>0 DEF Good
<1>1. b.tag \in Tag
  BY DEF Backend, CustomDir, StudioBuild
<1>2. Whole(b.tag) /\ ~Filled(b.tag)
  BY DEF Good
<1> DEFINE t == b.tag
<1> HIDE DEF t
<1>3. Whole(t)' /\ ~Filled(t)'
  BY <1>1, <1>2, WholeKept DEF t
<1> QED BY <1>3 DEF t

\* A step of cmdServe leaves the builds alone.
LEMMA ServeOnly ==
  ASSUME StartupInv, UNCHANGED buildVars
  PROVE  BuildsInv' /\ BuildsTypeOK' /\ \A b : Good(b) => Good(b)'
<1>1. BuildsInv'
  BY BuildsStep DEF StartupInv
<1>2. ASSUME NEW b, Good(b) PROVE Good(b)'
  BY <1>2, GoodKept DEF StartupInv
<1> QED BY <1>1, <1>2 DEF BuildsInv

\* When the process has ended there is nothing to say about it.
LEMMA Ended ==
  ASSUME StartupInv, UNCHANGED buildVars, Exits,
         orphaned' \in BOOLEAN, abrupt' \in BOOLEAN, overtaken' \in BOOLEAN,
         orphaned' => abrupt' \/ overtaken'
  PROVE  StartupInv'
<1>1. BuildsInv' /\ BuildsTypeOK'
  BY ServeOnly
<1>2. Len(placed') = 0 /\ placed' \in Seq(InstanceRecord) /\ toLoad' \in Seq(SlotRecord)
  BY DEF Exits
<1>3. TypeOK'
  <2>1. stopped' \in 0 .. Len(placed')
    <3>1. stopped' = 0
      BY DEF Exits
    <3> QED BY <1>2, <3>1
  <2> QED BY <1>1, <1>2, <2>1 DEF Exits, TypeOK
<1>4. GoodInv'
  BY <1>2, NothingAssumption DEF Exits, GoodInv, Chosen, Good, Picked
<1>5. PhaseInv'
  BY <1>2 DEF Exits, PhaseInv
<1>6. StaticInv' /\ ProfileInv' /\ OrphansExplained'
  BY DEF Exits, StaticInv, ProfileInv, OrphansExplained
<1> QED BY <1>1, <1>3, <1>4, <1>5, <1>6 DEF StartupInv

\* One more instance, with a good backend.
LEMMA Appended ==
  ASSUME StartupInv, UNCHANGED <<buildVars, rigwide>>, NEW in \in InstanceRecord,
         Good(in.backend), ~in.external => in.backend \in Backend, placed' = Append(placed, in)
  PROVE  /\ BuildsInv' /\ BuildsTypeOK' /\ GoodInv' /\ Len(placed) \in Nat
         /\ placed' \in Seq(InstanceRecord) /\ Len(placed') = Len(placed) + 1
         /\ placed'[Len(placed) + 1] = in
         /\ \A j \in 1 .. Len(placed) : placed'[j] = placed[j]
         /\ \A j \in 1 .. Len(placed') : j \in 1 .. Len(placed) \/ j = Len(placed) + 1
<1> USE DEF StartupInv
<1>1. placed \in Seq(InstanceRecord) /\ Len(placed) \in Nat
  BY DEF TypeOK
<1>2. /\ placed' \in Seq(InstanceRecord) /\ Len(placed') = Len(placed) + 1
      /\ placed'[Len(placed) + 1] = in
      /\ \A j \in 1 .. Len(placed) : placed'[j] = placed[j]
  BY <1>1
<1>3. \A j \in 1 .. Len(placed') : j \in 1 .. Len(placed) \/ j = Len(placed) + 1
  BY <1>1, <1>2
<1>4. BuildsInv' /\ BuildsTypeOK' /\ \A b : Good(b) => Good(b)'
  BY ServeOnly
<1>5. Chosen' \subseteq Chosen \cup {in.backend}
  BY <1>2, <1>3 DEF Chosen
<1>6. \A b \in Chosen' : Good(b)
  BY <1>5 DEF GoodInv
<1>7. GoodInv'
  BY <1>4, <1>6 DEF GoodInv
<1> QED BY <1>1, <1>2, <1>3, <1>4, <1>7

\* rig.New puts instance Len(placed) + 1 behind the others.
LEMMA NewSlotStep ==
  ASSUME StartupInv, NEW ds \in Scan, NewSlot(ds)
  PROVE  StartupInv'
<1> USE DEF StartupInv
<1> DEFINE n == Len(placed)
           s == cfgFile.slots[n + 1]
           p == cfg.slots[n + 1].port
<1>1. /\ phase = "new" /\ n < Len(cfg.slots) /\ UNCHANGED <<buildVars, pastVars>>
      /\ cfgFile \in ConfigFile /\ rigwide \in Backend /\ Good(rigwide) /\ n \in Nat
      /\ placed \in Seq(InstanceRecord)
  BY DEF NewSlot, PhaseInv, GoodInv, Chosen, TypeOK
<1>2. Len(cfg.slots) = Len(cfgFile.slots) /\ Len(cfgFile.slots) \in Nat /\ cfgFile.slots \in Seq(SlotRecord)
  BY <1>1, Defaults, ConfigAssumption DEF cfg
<1>3. n + 1 \in 1 .. Len(cfgFile.slots)
  BY <1>1, <1>2
<1>4. s \in SlotRecord /\ p \in Nat
  BY <1>1, <1>2, <1>3, Defaults DEF cfg
<1>5. CASE Exits
  BY <1>1, <1>5, Ended DEF TypeOK, OrphansExplained, pastVars
<1>6. ASSUME NEW in \in Instances(s, p, ds), placed' = Append(placed, in),
             UNCHANGED <<phase, cfgFile, rigwide, toLoad, handler, stopped>>
      PROVE  StartupInv'
  <2>1. /\ in \in InstanceRecord /\ Good(in.backend) /\ in.name = s.name /\ in.asked = s.port
        /\ ~in.external => in.port = p /\ in.backend \in Backend
    <3> HIDE DEF s, p
    <3> QED BY <1>1, <1>4, InstancesMade
  <2>2. /\ BuildsInv' /\ BuildsTypeOK' /\ GoodInv'
        /\ placed' \in Seq(InstanceRecord) /\ Len(placed') = n + 1 /\ placed'[n + 1] = in
        /\ \A j \in 1 .. n : placed'[j] = placed[j]
        /\ \A j \in 1 .. Len(placed') : j \in 1 .. n \/ j = n + 1
    BY <1>1, <1>6, <2>1, Appended
  <2>3. TypeOK'
    BY <1>1, <1>6, <2>2 DEF TypeOK, pastVars
  <2>4. PhaseInv'
    BY <1>1, <1>6, <2>1, <2>2 DEF PhaseInv, cfg
  <2>5. StaticInv'
    <3>1. Len(placed') <= Len(cfgFile'.slots)
      BY <1>3, <1>6, <2>2
    <3>2. \A j \in 1 .. Len(placed') : Follows(j)'
      BY <1>1, <1>6, <2>1, <2>2 DEF StaticInv, Follows, cfg
    <3> QED BY <3>1, <3>2 DEF StaticInv
  <2>6. ProfileInv' /\ OrphansExplained'
    BY <1>1, <1>6 DEF ProfileInv, OrphansExplained, pastVars
  <2> QED BY <2>2, <2>3, <2>4, <2>5, <2>6
<1> QED BY <1>5, <1>6 DEF NewSlot

\* ApplyProfile's rig.Load gives a slot a name and a port that no other has.
LEMMA LoadSlotStep ==
  ASSUME StartupInv, NEW ds \in Scan, LoadSlot(ds)
  PROVE  StartupInv'
<1> USE DEF StartupInv
<1> DEFINE n == Len(placed)
           s == Head(toLoad)
           p == IF s.port = 0 THEN NextPort ELSE s.port
<1>1. /\ phase = "boot" /\ toLoad # <<>> /\ toLoad' = Tail(toLoad)
      /\ UNCHANGED <<buildVars, phase, cfgFile, rigwide, handler, stopped, pastVars>>
      /\ cfgFile \in ConfigFile /\ cfgFile.slots = <<>>
      /\ rigwide \in Backend /\ Good(rigwide) /\ n \in Nat
      /\ placed \in Seq(InstanceRecord)
  BY DEF LoadSlot, PhaseInv, GoodInv, Chosen, TypeOK
<1>2. s \in SlotRecord /\ s.port \in Nat /\ toLoad' \in Seq(SlotRecord)
  <2>1. s \in SlotRecord /\ toLoad' \in Seq(SlotRecord)
    BY <1>1 DEF TypeOK
  <2> QED BY <2>1 DEF SlotRecord
<1>3. NextPort \in Nat /\ \A j \in 1 .. n : placed[j].port # NextPort
  BY <1>1, NextPortFree
<1>4. p \in Nat
  BY <1>2, <1>3
<1>5. CASE UNCHANGED placed
  <2>1. BuildsInv' /\ BuildsTypeOK' /\ \A b : Good(b) => Good(b)'
    BY <1>1, ServeOnly
  <2>2. TypeOK'
    BY <1>1, <1>2, <1>5, <2>1 DEF TypeOK, pastVars
  <2>3. Chosen' = Chosen
    BY <1>1, <1>5 DEF Chosen
  <2>4. GoodInv'
    BY <2>1, <2>3 DEF GoodInv
  <2>5. PhaseInv' /\ StaticInv' /\ ProfileInv' /\ OrphansExplained'
    BY <1>1, <1>5 DEF PhaseInv, StaticInv, ProfileInv, OrphansExplained, cfg, pastVars
  <2> QED BY <2>1, <2>2, <2>4, <2>5
<1>6. ASSUME NEW in \in Instances(s, p, ds), ~Taken(s.name), placed' = Append(placed, in)
      PROVE  StartupInv'
  <2>1. /\ in \in InstanceRecord /\ Good(in.backend) /\ in.name = s.name /\ in.asked = s.port
        /\ ~in.external => in.port = p /\ in.backend \in Backend
    <3> HIDE DEF s, p
    <3> QED BY <1>1, <1>2, <1>4, InstancesMade
  <2>2. /\ BuildsInv' /\ BuildsTypeOK' /\ GoodInv'
        /\ placed' \in Seq(InstanceRecord) /\ Len(placed') = n + 1 /\ placed'[n + 1] = in
        /\ \A j \in 1 .. n : placed'[j] = placed[j]
        /\ \A j \in 1 .. Len(placed') : j \in 1 .. n \/ j = n + 1
    BY <1>1, <1>6, <2>1, Appended
  <2>3. TypeOK'
    BY <1>1, <1>2, <2>2 DEF TypeOK, pastVars
  <2>4. PhaseInv'
    BY <1>1, <2>1, <2>2 DEF PhaseInv, cfg
  <2>5. StaticInv' /\ OrphansExplained'
    BY <1>1 DEF StaticInv, OrphansExplained, pastVars
  <2>6. \A j \in 1 .. n : placed[j].name # in.name
    BY <1>1, <1>6, <2>1 DEF Taken
  <2>7. ~in.external /\ in.asked = 0 => \A j \in 1 .. n : placed[j].port # in.port
    BY <1>3, <2>1
  <2>8. ProfileInv'
    <3>1. SUFFICES ASSUME NEW j \in 1 .. Len(placed'), NEW k \in 1 .. Len(placed')
                   PROVE  /\ j # k => placed'[j].name # placed'[k].name
                          /\ j < k /\ ~placed'[k].external /\ placed'[k].asked = 0
                               => placed'[j].port # placed'[k].port
      BY DEF ProfileInv
    <3>2. CASE j \in 1 .. n /\ k \in 1 .. n
      BY <1>1, <2>2, <3>2 DEF ProfileInv
    <3>3. CASE j \in 1 .. n /\ k = n + 1
      BY <2>2, <2>6, <2>7, <3>3
    <3>4. CASE j = n + 1 /\ k \in 1 .. n
      BY <1>1, <2>2, <2>6, <3>4
    <3>5. CASE j = n + 1 /\ k = n + 1
      BY <1>1, <3>5
    <3> QED BY <2>2, <3>2, <3>3, <3>4, <3>5
  <2> QED BY <2>2, <2>3, <2>4, <2>5, <2>8
<1> QED BY <1>5, <1>6 DEF LoadSlot

\* The steps of cmdServe that place no slot.
LEMMA OtherSteps ==
  ASSUME StartupInv, UNCHANGED buildVars
  PROVE  /\ \A c \in ConfigFile : Load(c) => StartupInv'
         /\ \A ds \in Scan : NewBackend(ds) => StartupInv'
         /\ Listen \/ Start \/ Serve \/ Notify => StartupInv'
<1> USE DEF StartupInv
<1>1. BuildsInv' /\ BuildsTypeOK' /\ \A b : Good(b) => Good(b)'
  BY ServeOnly
<1>2. UNCHANGED <<rigwide, placed>> => GoodInv'
  <2> SUFFICES ASSUME UNCHANGED <<rigwide, placed>> PROVE GoodInv'
    OBVIOUS
  <2>1. Chosen' = Chosen
    BY DEF Chosen
  <2> QED BY <1>1, <2>1 DEF GoodInv
<1>3. ASSUME NEW c \in ConfigFile, Load(c) PROVE StartupInv'
  <2>1. placed' = <<>> /\ Len(placed') = 0 /\ toLoad' = <<>>
    BY <1>3 DEF Load, PhaseInv
  <2>2. TypeOK' /\ OrphansExplained'
    BY <1>1, <1>3 DEF Load, TypeOK, OrphansExplained
  <2>3. PhaseInv' /\ StaticInv' /\ ProfileInv'
    BY <1>3, <2>1 DEF Load, PhaseInv, StaticInv, ProfileInv, cfg
  <2> QED BY <1>1, <1>2, <1>3, <2>2, <2>3 DEF Load
<1>4. ASSUME NEW ds \in Scan, NewBackend(ds) PROVE StartupInv'
  <2>1. cfgFile \in ConfigFile /\ placed = <<>> /\ Len(placed) = 0 /\ phase = "load"
    BY <1>4 DEF NewBackend, PhaseInv
  <2>2. cfg.backend \in Specification /\ Len(cfgFile.slots) \in Nat
    BY <2>1, Defaults, ConfigAssumption DEF cfg
  <2>3. CASE Exits
    BY <1>4, <2>3, Ended DEF NewBackend, TypeOK, OrphansExplained, pastVars
  <2>4. CASE /\ rigwide' \in resolveBackend(cfg.backend, ds) /\ phase' = "new"
             /\ UNCHANGED <<cfgFile, placed, toLoad, handler, stopped>>
    <3> DEFINE spec == cfg.backend
    <3>1. PICK b \in resolveBackend(spec, ds) : b = rigwide'
      BY <2>4
    <3>2. b \in Backend /\ Good(b)
      <4> HIDE DEF spec
      <4>1. spec \in Specification
        BY <2>2 DEF spec
      <4> QED BY <3>1, <4>1, Resolved
    <3>3. Chosen' = {b}
      BY <2>1, <2>4, <3>1 DEF Chosen
    <3>4. GoodInv'
      BY <1>1, <3>2, <3>3 DEF GoodInv
    <3>5. TypeOK' /\ OrphansExplained'
      BY <1>1, <1>4, <2>4, <3>1, <3>2 DEF NewBackend, TypeOK, OrphansExplained, pastVars
    <3>6. PhaseInv'
      BY <2>1, <2>4, <3>1, <3>2 DEF PhaseInv, cfg
    <3>7. StaticInv' /\ ProfileInv'
      BY <2>1, <2>2, <2>4 DEF StaticInv, ProfileInv
    <3> QED BY <1>1, <3>4, <3>5, <3>6, <3>7
  <2> QED BY <1>4, <2>3, <2>4 DEF NewBackend
<1>5. ASSUME Listen PROVE StartupInv'
  <2>1. CASE Exits
    BY <1>5, <2>1, Ended DEF Listen, TypeOK, OrphansExplained, pastVars
  <2>2. CASE phase' = "bound" /\ UNCHANGED <<cfgFile, rigwide, placed, toLoad, handler, stopped>>
    <3>1. phase = "new" /\ UNCHANGED pastVars
      BY <1>5 DEF Listen
    <3>2. TypeOK' /\ OrphansExplained'
      BY <1>1, <2>2, <3>1 DEF TypeOK, OrphansExplained, pastVars
    <3>3. PhaseInv' /\ StaticInv' /\ ProfileInv'
      BY <2>2, <3>1 DEF PhaseInv, StaticInv, ProfileInv, Follows, cfg
    <3> QED BY <1>1, <1>2, <2>2, <3>2, <3>3
  <2> QED BY <1>5, <2>1, <2>2 DEF Listen
<1>6. ASSUME Start PROVE StartupInv'
  <2>1. /\ phase = "bound" /\ phase' = "boot" /\ toLoad' = IF cfg.slots = <<>> THEN cfg.profile ELSE <<>>
        /\ UNCHANGED <<cfgFile, rigwide, placed, handler, stopped, pastVars>>
        /\ cfgFile \in ConfigFile
    BY <1>6 DEF Start, PhaseInv
  <2>2. /\ Len(cfg.slots) = Len(cfgFile.slots) /\ cfgFile.slots \in Seq(SlotRecord)
        /\ cfg.profile \in Seq(SlotRecord) /\ placed \in Seq(InstanceRecord)
    BY <2>1, Defaults, ConfigAssumption DEF cfg, TypeOK
  <2>3. cfgFile.slots # <<>> => cfg.slots # <<>>
    BY <2>2
  <2>4. TypeOK' /\ OrphansExplained'
    BY <1>1, <2>1, <2>2 DEF TypeOK, OrphansExplained, pastVars
  <2>5. PhaseInv' /\ StaticInv'
    BY <2>1, <2>3 DEF PhaseInv, StaticInv, Follows, cfg
  <2>6. ProfileInv'
    BY <2>1, <2>2 DEF ProfileInv, StaticInv
  <2> QED BY <1>1, <1>2, <2>1, <2>4, <2>5, <2>6
<1>7. ASSUME Serve \/ Notify PROVE StartupInv'
  <2>1. /\ phase \in {"boot", "serve", "stop"} /\ phase' = "serve" /\ toLoad = <<>>
        /\ UNCHANGED <<cfgFile, rigwide, placed, toLoad, stopped, pastVars>> /\ handler' \in BOOLEAN
    BY <1>7 DEF Serve, Notify, PhaseInv, TypeOK
  <2>2. TypeOK' /\ OrphansExplained'
    BY <1>1, <2>1 DEF TypeOK, OrphansExplained, pastVars
  <2>3. PhaseInv' /\ StaticInv' /\ ProfileInv'
    BY <2>1 DEF PhaseInv, StaticInv, ProfileInv, Follows, cfg
  <2> QED BY <1>1, <1>2, <2>1, <2>2, <2>3
<1> QED BY <1>3, <1>4, <1>5, <1>6, <1>7

\* The end of the process, and StopAll before it.
LEMMA EndSteps ==
  ASSUME StartupInv, UNCHANGED buildVars,
         Signal \/ ServeFails \/ StopNext \/ RequestLate \/ LaunchLate \/ Shutdown
  PROVE  StartupInv'
<1> USE DEF StartupInv
<1>1. BuildsInv' /\ BuildsTypeOK' /\ \A b : Good(b) => Good(b)'
  BY ServeOnly
<1>2. CASE DiesAbruptly
  <2>1. Exits /\ orphaned' \in BOOLEAN /\ abrupt' = TRUE /\ overtaken' \in BOOLEAN
    BY <1>2 DEF DiesAbruptly, ProcessEnds, TypeOK
  <2> QED BY <2>1, Ended
<1>3. CASE Shutdown
  <2>1. Unstopped = {}
    <3>1. placed \in Seq(InstanceRecord) /\ stopped = Len(placed)
      BY <1>3 DEF Shutdown, TypeOK
    <3>2. \A j \in DOMAIN placed : ~(j > stopped)
      BY <3>1
    <3> QED BY <3>2 DEF Unstopped, Launched
  <2>2. /\ Exits /\ UNCHANGED <<abrupt, overtaken>>
        /\ orphaned' = orphaned \/ (overtaken /\ orphaned' = TRUE)
    BY <1>3, <2>1 DEF Shutdown, ProcessEnds
  <2>3. orphaned' \in BOOLEAN /\ abrupt' \in BOOLEAN /\ overtaken' \in BOOLEAN
    BY <2>2 DEF TypeOK
  <2>4. orphaned' => abrupt' \/ overtaken'
    BY <2>2 DEF OrphansExplained
  <2> QED BY <2>2, <2>3, <2>4, Ended
<1>4. CASE \/ /\ handler /\ phase = "serve" /\ phase' = "stop"
              /\ UNCHANGED <<cfgFile, rigwide, placed, toLoad, handler, stopped, pastVars>>
           \/ StopNext \/ RequestLate \/ LaunchLate
  <2>1. /\ phase \in {"serve", "stop"} /\ phase' = "stop"
        /\ UNCHANGED <<cfgFile, rigwide, placed, toLoad, handler, orphaned, abrupt>>
    BY <1>4 DEF StopNext, RequestLate, LaunchLate, Overtakes, serveVars, pastVars
  <2>2. stopped' \in 0 .. Len(placed')
    <3>1. placed \in Seq(InstanceRecord) /\ stopped \in 0 .. Len(placed)
      BY DEF TypeOK
    <3>2. stopped' = stopped \/ (stopped < Len(placed) /\ stopped' = stopped + 1)
      BY <1>4 DEF StopNext, RequestLate, LaunchLate, Overtakes, serveVars
    <3> QED BY <2>1, <3>1, <3>2
  <2>3. overtaken' = overtaken \/ overtaken' = TRUE
    BY <1>4 DEF StopNext, RequestLate, LaunchLate, Overtakes, pastVars
  <2>4. TypeOK' /\ OrphansExplained'
    BY <1>1, <2>1, <2>2, <2>3 DEF TypeOK, OrphansExplained
  <2>5. PhaseInv' /\ StaticInv' /\ ProfileInv'
    BY <2>1 DEF PhaseInv, StaticInv, ProfileInv, Follows, cfg
  <2>6. Chosen' = Chosen
    BY <2>1 DEF Chosen
  <2>7. GoodInv'
    BY <1>1, <2>6 DEF GoodInv
  <2> QED BY <1>1, <2>4, <2>5, <2>7
<1> QED BY <1>2, <1>3, <1>4 DEF Signal, ServeFails

\* A step of a pull leaves cmdServe alone.
LEMMA PullsOnly ==
  ASSUME StartupInv, [BuildsNext]_buildVars, UNCHANGED <<serveVars, pastVars>>
  PROVE  StartupInv'
<1> USE DEF StartupInv
<1>1. BuildsInv'
  BY BuildsStep
<1>2. TypeOK' /\ OrphansExplained'
  BY <1>1 DEF TypeOK, OrphansExplained, serveVars, BuildsInv, pastVars
<1>3. PhaseInv' /\ StaticInv' /\ ProfileInv'
  BY DEF PhaseInv, StaticInv, ProfileInv, Follows, cfg, serveVars
<1>4. Chosen' = Chosen
  BY DEF Chosen, serveVars
<1>5. \A b \in Chosen : Good(b)'
  <2> SUFFICES ASSUME NEW b \in Chosen PROVE Good(b)'
    OBVIOUS
  <2> QED BY GoodKept DEF GoodInv
<1>6. GoodInv'
  BY <1>4, <1>5 DEF GoodInv
<1> QED BY <1>1, <1>2, <1>3, <1>6

LEMMA StartupStep == StartupInv /\ [Next]_vars => StartupInv'
<1> SUFFICES ASSUME StartupInv, [Next]_vars PROVE StartupInv'
  OBVIOUS
<1>1. ASSUME ServeStep PROVE StartupInv'
  <2>1. UNCHANGED buildVars
    BY <1>1 DEF ServeStep, Load, NewBackend, NewSlot, LoadSlot, Listen, Start, Serve, Notify,
       Signal, ServeFails, DiesAbruptly, StopNext, RequestLate, LaunchLate, Overtakes, Shutdown
  <2> QED BY <1>1, <2>1, OtherSteps, EndSteps, NewSlotStep, LoadSlotStep DEF ServeStep
<1>2. ASSUME PullsStep PROVE StartupInv'
  BY <1>2, PullsOnly DEF PullsStep
<1>3. ASSUME UNCHANGED vars PROVE StartupInv'
  BY <1>3, PullsOnly DEF vars
<1> QED BY <1>1, <1>2, <1>3 DEF Next

LEMMA StartupInvariant == Spec => []StartupInv
BY StartupInit, StartupStep, PTL DEF Spec

-----------------------------------------------------------------------------
\* Every variable of cmdServe and of the pulls keeps its type.
THEOREM StartupTyped == Spec => []TypeOK
<1>1. StartupInv => TypeOK
  BY DEF StartupInv
<1> QED BY <1>1, StartupInvariant, PTL

\* PullGGML: a directory that passes for a build is one, however many pulls
\* work in it and wherever they are cut short, but for the cuts named in cut.
THEOREM BuildsWhole == Spec => []PassesWhole
<1>1. StartupInv => PassesWhole
  BY DEF StartupInv, BuildsInv
<1> QED BY <1>1, StartupInvariant, PTL

\* A slot that was placed on a sound managed build keeps it whole.
THEOREM SlotsServeWhole == Spec => []ServesWhole
<1>1. ASSUME StartupInv PROVE ServesWhole
  <2> USE DEF StartupInv
  <2> SUFFICES ASSUME NEW j \in Launched, placed[j].backend.kind = "ggml", placed[j].backend.sound
               PROVE  Whole(placed[j].backend.tag)
    BY DEF ServesWhole
  <2>1. j \in 1 .. Len(placed) /\ ~placed[j].external
    BY <1>1 DEF Launched, TypeOK
  <2>2. placed[j].backend \in Backend /\ placed[j].backend \in Chosen
    BY <1>1, <2>1 DEF PhaseInv, Chosen
  <2> QED BY <1>1, <2>2 DEF GoodInv, Good
<1> QED BY <1>1, StartupInvariant, PTL

\* Two slots of a rig never share a name.
THEOREM NamesDistinct == Spec => []NamesApart
<1>1. ASSUME StartupInv PROVE NamesApart
  <2> USE <1>1 DEF StartupInv
  <2> SUFFICES ASSUME NEW j \in 1 .. Len(placed), NEW k \in 1 .. Len(placed), j < k
               PROVE  placed[j].name # placed[k].name
    <3>1. DOMAIN placed = 1 .. Len(placed) /\ Len(placed) \in Nat
      BY DEF TypeOK
    <3> QED BY <3>1 DEF NamesApart
  <2>1. phase \notin {"off", "load"}
    <3>1. placed # <<>>
      BY DEF TypeOK
    <3> QED BY <3>1 DEF PhaseInv
  <2>2. CASE phase \in {"boot", "serve", "stop"} /\ cfgFile.slots = <<>>
    BY <2>2 DEF ProfileInv
  <2>3. CASE ~(phase \in {"boot", "serve", "stop"} /\ cfgFile.slots = <<>>)
    <3>1. cfgFile \in ConfigFile /\ validate(cfg)
      BY <2>1 DEF PhaseInv
    <3>2. /\ Len(placed) <= Len(cfgFile.slots) /\ Len(cfgFile.slots) \in Nat /\ Len(placed) \in Nat
          /\ placed[j].name = cfgFile.slots[j].name /\ placed[k].name = cfgFile.slots[k].name
      BY <2>1, <2>3, <3>1, ConfigAssumption DEF StaticInv, Follows, TypeOK
    <3>3. j \in 1 .. Len(cfgFile.slots) /\ k \in 1 .. Len(cfgFile.slots)
      BY <3>2
    <3>4. /\ Len(cfg.slots) = Len(cfgFile.slots)
          /\ cfg.slots[j].name = cfgFile.slots[j].name /\ cfg.slots[k].name = cfgFile.slots[k].name
      BY <3>1, <3>3, Defaults DEF cfg
    <3>5. cfg.slots[j].name # cfg.slots[k].name
      BY <3>1, <3>3, <3>4 DEF validate
    <3> QED BY <3>2, <3>4, <3>5
  <2> QED BY <2>2, <2>3
<1> QED BY <1>1, StartupInvariant, PTL

\* Two launched slots get one port only where the configuration names it.
THEOREM PortsKept == Spec => []PortsApart
<1>1. ASSUME StartupInv PROVE PortsApart
  <2> USE <1>1 DEF StartupInv
  <2> SUFFICES ASSUME NEW j \in Launched, NEW k \in Launched, j < k, placed[k].asked = 0,
                      ~(placed[j].asked # 0 /\ cfgFile.slots # <<>>)
               PROVE  placed[j].port # placed[k].port
    BY DEF PortsApart
  <2>1. /\ j \in 1 .. Len(placed) /\ k \in 1 .. Len(placed) /\ Len(placed) \in Nat
        /\ ~placed[j].external /\ ~placed[k].external /\ phase \in {"boot", "serve", "stop"}
    BY DEF Launched, TypeOK
  <2>2. CASE cfgFile.slots = <<>>
    BY <2>1, <2>2 DEF ProfileInv
  <2>3. CASE cfgFile.slots # <<>>
    <3>1. cfgFile \in ConfigFile
      BY <2>1 DEF PhaseInv
    <3>2. /\ Len(placed) <= Len(cfgFile.slots) /\ Len(cfgFile.slots) \in Nat
          /\ Follows(j) /\ Follows(k)
      BY <2>1, <2>3, <3>1, ConfigAssumption DEF StaticInv
    <3>3. j \in 1 .. Len(cfgFile.slots) /\ k \in 1 .. Len(cfgFile.slots)
      BY <2>1, <3>2
    <3>4. cfgFile.slots[j].port = 0 /\ cfgFile.slots[k].port = 0
      BY <2>3, <3>2 DEF Follows
    <3>5. cfg.slots[j].port # cfg.slots[k].port
      BY <3>1, <3>3, <3>4, Defaults DEF cfg
    <3> QED BY <2>1, <3>2, <3>5 DEF Follows
  <2> QED BY <2>2, <2>3
<1> QED BY <1>1, StartupInvariant, PTL

\* Only an unhandled signal, an error of Serve, and a request or a launch that
\* comes behind the loop of StopAll leave a llama-server behind.
THEOREM NoSilentOrphan == Spec => []OrphansExplained
<1>1. StartupInv => OrphansExplained
  BY DEF StartupInv
<1> QED BY <1>1, StartupInvariant, PTL
(***************************************************************************)
(* cmpVersion orders dotted versions as numbers, and Discover's sort puts   *)
(* the newest first.                                                       *)
(***************************************************************************)
LEMMA DottedParts ==
  ASSUME NEW v \in Seq(Nat), Dotted(v)
  PROVE  /\ Len(v) \in Nat /\ Len(v) <= 3
         /\ \A k \in 1 .. 3 : Part(v, k) \in TwoDigits
         /\ \A k \in 1 .. 3 : k > Len(v) => Part(v, k) = 0
<1>1. Len(v) \in Nat /\ Len(v) <= 3
  BY DEF Dotted
<1>2. ASSUME NEW k \in 1 .. 3 PROVE Part(v, k) \in TwoDigits
  <2>1. CASE k <= Len(v)
    <3>1. k \in 1 .. Len(v)
      BY <1>1, <2>1
    <3>2. Part(v, k) = v[k] /\ v[k] \in TwoDigits
      BY <2>1, <3>1 DEF Dotted, Part
    <3> QED BY <3>2
  <2>2. CASE ~(k <= Len(v))
    <3>1. Part(v, k) = 0
      BY <2>2 DEF Part
    <3> QED BY <3>1 DEF TwoDigits
  <2> QED BY <2>1, <2>2
<1>3. ASSUME NEW k \in 1 .. 3, k > Len(v) PROVE Part(v, k) = 0
  BY <1>1, <1>3 DEF Part
<1> QED BY <1>1, <1>2, <1>3

\* The first of three parts that differs decides.
Exceeds(a, b) == \/ a[1] > b[1]
                 \/ a[1] = b[1] /\ a[2] > b[2]
                 \/ a[1] = b[1] /\ a[2] = b[2] /\ a[3] > b[3]

LEMMA NumberDecides ==
  ASSUME NEW a \in [1 .. 3 -> TwoDigits], NEW b \in [1 .. 3 -> TwoDigits]
  PROVE  /\ Number(a[1], a[2], a[3]) \in Nat /\ Number(b[1], b[2], b[3]) \in Nat
         /\ Number(a[1], a[2], a[3]) > Number(b[1], b[2], b[3]) <=> Exceeds(a, b)
<1>1. ASSUME NEW a1 \in TwoDigits, NEW a2 \in TwoDigits, NEW a3 \in TwoDigits,
             NEW b1 \in TwoDigits, NEW b2 \in TwoDigits, NEW b3 \in TwoDigits
      PROVE  /\ Number(a1, a2, a3) \in Nat /\ Number(b1, b2, b3) \in Nat
             /\ Number(a1, a2, a3) > Number(b1, b2, b3)
                  <=> \/ a1 > b1
                      \/ a1 = b1 /\ a2 > b2
                      \/ a1 = b1 /\ a2 = b2 /\ a3 > b3
  BY SMT DEF Number, TwoDigits
<1> DEFINE a1 == a[1]  a2 == a[2]  a3 == a[3]
           b1 == b[1]  b2 == b[2]  b3 == b[3]
<1>2. /\ a1 \in TwoDigits /\ a2 \in TwoDigits /\ a3 \in TwoDigits
      /\ b1 \in TwoDigits /\ b2 \in TwoDigits /\ b3 \in TwoDigits
  OBVIOUS
<1>3. Exceeds(a, b) <=> \/ a1 > b1
                        \/ a1 = b1 /\ a2 > b2
                        \/ a1 = b1 /\ a2 = b2 /\ a3 > b3
  BY DEF Exceeds
<1>4. SUFFICES /\ Number(a1, a2, a3) \in Nat /\ Number(b1, b2, b3) \in Nat
               /\ Number(a1, a2, a3) > Number(b1, b2, b3) <=> Exceeds(a, b)
  OBVIOUS
<1> HIDE DEF a1, a2, a3, b1, b2, b3
<1>5. /\ Number(a1, a2, a3) \in Nat /\ Number(b1, b2, b3) \in Nat
      /\ Number(a1, a2, a3) > Number(b1, b2, b3)
           <=> \/ a1 > b1
               \/ a1 = b1 /\ a2 > b2
               \/ a1 = b1 /\ a2 = b2 /\ a3 > b3
  BY <1>1, <1>2
<1> QED BY <1>3, <1>5

LEMMA NewerIsGreater ==
  ASSUME NEW v \in Seq(Nat), NEW w \in Seq(Nat), Dotted(v), Dotted(w)
  PROVE  /\ Rank(v) \in Nat /\ Rank(w) \in Nat
         /\ Newer(v, w) <=> Rank(v) > Rank(w)
<1> DEFINE a == [k \in 1 .. 3 |-> Part(v, k)]
           b == [k \in 1 .. 3 |-> Part(w, k)]
<1>1. a \in [1 .. 3 -> TwoDigits] /\ b \in [1 .. 3 -> TwoDigits]
  BY DottedParts
<1>2. Rank(v) = Number(a[1], a[2], a[3]) /\ Rank(w) = Number(b[1], b[2], b[3])
  BY DEF Rank
<1>3. Len(v) \in Nat /\ Len(v) <= 3 /\ \A k \in 1 .. 3 : k > Len(v) => a[k] = 0
  BY DottedParts
<1>4. Newer(v, w) <=> \E k \in 1 .. 3 : k <= Len(v) /\ a[k] > b[k] /\ \A j \in 1 .. k - 1 : a[j] = b[j]
  <2>1. \A k : k \in 1 .. Len(v) <=> k \in 1 .. 3 /\ k <= Len(v)
    BY <1>3
  <2>2. ASSUME NEW k \in 1 .. 3
        PROVE  /\ Part(v, k) > Part(w, k) <=> a[k] > b[k]
               /\ (\A j \in 1 .. k - 1 : Part(v, j) = Part(w, j)) <=> \A j \in 1 .. k - 1 : a[j] = b[j]
    <3>1. 1 .. k - 1 \subseteq 1 .. 3
      OBVIOUS
    <3> QED BY <3>1
  <2> HIDE DEF a, b
  <2> QED BY <2>1, <2>2 DEF Newer
<1> HIDE DEF a, b
<1>7. Rank(v) \in Nat /\ Rank(w) \in Nat /\ (Rank(v) > Rank(w) <=> Exceeds(a, b))
  BY <1>1, <1>2, NumberDecides
<1>8. ASSUME NEW k \in 1 .. 3, a[k] > b[k] PROVE k <= Len(v)
  <2>1. a[k] \in TwoDigits /\ b[k] \in TwoDigits
    BY <1>1
  <2>2. \A x, y \in TwoDigits : x > y => x # 0
    BY DEF TwoDigits
  <2>3. a[k] # 0
    BY <1>8, <2>1, <2>2
  <2> QED BY <1>3, <2>3
<1>9. Newer(v, w) => Rank(v) > Rank(w)
  <2> SUFFICES ASSUME NEW k \in 1 .. 3, a[k] > b[k], \A j \in 1 .. k - 1 : a[j] = b[j]
               PROVE  Rank(v) > Rank(w)
    BY <1>4
  <2>1. k = 1 \/ k = 2 \/ k = 3
    OBVIOUS
  <2> QED BY <1>7, <2>1 DEF Exceeds
<1>10. Rank(v) > Rank(w) => Newer(v, w)
  <2> SUFFICES ASSUME Rank(v) > Rank(w)
               PROVE  \E k \in 1 .. 3 : a[k] > b[k] /\ \A j \in 1 .. k - 1 : a[j] = b[j]
    BY <1>4, <1>8
  <2> QED BY <1>7 DEF Exceeds
<1> QED BY <1>7, <1>9, <1>10

\* A slot on one of LM Studio's builds has the newest of its variant that runs,
\* by the numbers in the directories' names, whatever parts the versions leave
\* out and whatever else is in the directory.
THEOREM NewestChosen == Spec => []ChoosesNewest
<1>1. ASSUME StartupInv PROVE ChoosesNewest
  <2> USE <1>1 DEF StartupInv
  <2> SUFFICES ASSUME NEW j \in DOMAIN placed, placed[j].backend # Nothing,
                      placed[j].backend.kind = "studio"
               PROVE  LET b == placed[j].backend IN
                      /\ Runnable(b.dir)
                      /\ \A d \in b.among : /\ VariantOf(d) = VariantOf(b.dir) /\ Runnable(d)
                                            /\ Dotted(d.version) /\ Dotted(b.dir.version)
                                            => Rank(d.version) <= Rank(b.dir.version)
    BY DEF ChoosesNewest
  <2> DEFINE b == placed[j].backend
  <2>1. j \in 1 .. Len(placed) /\ placed[j] \in InstanceRecord
    BY DEF TypeOK
  <2>2. b \in Backend /\ b \in Chosen
    BY <2>1 DEF InstanceRecord, Chosen
  <2>3. PICK ds \in Scan : \E d \in ds : b = StudioBuild(d, ds)
    BY <2>2 DEF Backend, CustomDir
  <2> PICK d \in ds : b = StudioBuild(d, ds)
    BY <2>3
  <2>4. b.dir = d /\ b.among = ds
    BY DEF StudioBuild
  <2>5. b.dir \in Latest(b.among, VariantOf(b.dir))
    BY <2>2 DEF GoodInv, Good, Picked
  <2>6. /\ Runnable(d)
        /\ \A e \in ds : VariantOf(e) = VariantOf(d) /\ Runnable(e) => ~Newer(e.version, d.version)
    BY <2>4, <2>5 DEF Latest
  <2>7. ASSUME NEW e \in ds, VariantOf(e) = VariantOf(d), Runnable(e), Dotted(e.version), Dotted(d.version)
        PROVE  Rank(e.version) <= Rank(d.version)
    <3> DEFINE v == e.version
               w == d.version
    <3>1. v \in Seq(Nat) /\ w \in Seq(Nat)
      BY ScanAssumption
    <3>2. Dotted(v) /\ Dotted(w) /\ ~Newer(v, w)
      BY <2>6, <2>7
    <3> SUFFICES Rank(v) <= Rank(w)
      OBVIOUS
    <3> HIDE DEF v, w
    <3>3. Rank(v) \in Nat /\ Rank(w) \in Nat /\ (Newer(v, w) <=> Rank(v) > Rank(w))
      BY <3>1, <3>2, NewerIsGreater
    <3> QED BY <3>2, <3>3
  <2> QED BY <2>4, <2>6, <2>7
<1> QED BY <1>1, StartupInvariant, PTL

-----------------------------------------------------------------------------
(***************************************************************************)
(* cmpVersion on versions of any length.                                   *)
(***************************************************************************)
\* Parts are numbers, and only a part that is there exceeds another.
LEMMA PartsAre ==
  ASSUME NEW v \in Seq(Nat), NEW k \in Nat \ {0}
  PROVE  Part(v, k) \in Nat /\ (Part(v, k) > 0 => k \in 1 .. Len(v))
<1>1. CASE k <= Len(v)
  BY <1>1 DEF Part
<1>2. CASE ~(k <= Len(v))
  BY <1>2 DEF Part
<1> QED BY <1>1, <1>2

\* The first part that differs decides, wherever it is.
LEMMA NewerDecides ==
  ASSUME NEW v \in Seq(Nat), NEW w \in Seq(Nat)
  PROVE  Newer(v, w) <=> \E k \in Nat \ {0} : /\ Part(v, k) > Part(w, k)
                                              /\ \A j \in 1 .. k - 1 : Part(v, j) = Part(w, j)
<1>1. ASSUME NEW k \in Nat \ {0}, Part(v, k) > Part(w, k) PROVE k \in 1 .. Len(v)
  BY <1>1, PartsAre
<1>2. \A k \in 1 .. Len(v) : k \in Nat \ {0}
  OBVIOUS
<1> QED BY <1>1, <1>2 DEF Newer

\* cmpVersion orders versions strictly, and versions that it takes for equal
\* have the same parts, but for zeros at the end: what sort.Slice needs of the
\* order that Discover gives it, and why two builds of which neither is newer
\* are of one version.
THEOREM VersionsOrdered ==
  ASSUME NEW u \in Seq(Nat), NEW v \in Seq(Nat), NEW w \in Seq(Nat)
  PROVE  /\ ~Newer(v, v)
         /\ Newer(u, v) /\ Newer(v, w) => Newer(u, w)
         /\ ~Newer(v, w) /\ ~Newer(w, v) => \A k \in Nat \ {0} : Part(v, k) = Part(w, k)
<1> DEFINE a(k) == Part(u, k)
           b(k) == Part(v, k)
           c(k) == Part(w, k)
<1>1. \A k \in Nat \ {0} : a(k) \in Nat /\ b(k) \in Nat /\ c(k) \in Nat
  BY PartsAre
<1>2. /\ Newer(u, v) <=> \E k \in Nat \ {0} : a(k) > b(k) /\ \A j \in 1 .. k - 1 : a(j) = b(j)
      /\ Newer(v, w) <=> \E k \in Nat \ {0} : b(k) > c(k) /\ \A j \in 1 .. k - 1 : b(j) = c(j)
      /\ Newer(w, v) <=> \E k \in Nat \ {0} : c(k) > b(k) /\ \A j \in 1 .. k - 1 : c(j) = b(j)
      /\ Newer(u, w) <=> \E k \in Nat \ {0} : a(k) > c(k) /\ \A j \in 1 .. k - 1 : a(j) = c(j)
      /\ Newer(v, v) <=> \E k \in Nat \ {0} : b(k) > b(k) /\ \A j \in 1 .. k - 1 : b(j) = b(j)
  BY NewerDecides
<1> HIDE DEF a, b, c
<1>3. ~Newer(v, v)
  BY <1>1, <1>2
<1>4. ASSUME Newer(u, v), Newer(v, w) PROVE Newer(u, w)
  <2>1. PICK k \in Nat \ {0} : a(k) > b(k) /\ \A j \in 1 .. k - 1 : a(j) = b(j)
    BY <1>2, <1>4
  <2>2. PICK l \in Nat \ {0} : b(l) > c(l) /\ \A j \in 1 .. l - 1 : b(j) = c(j)
    BY <1>2, <1>4
  <2>3. CASE k <= l
    <3>1. b(k) >= c(k)
      <4>1. b(k) \in Nat /\ c(k) \in Nat
        BY <1>1
      <4>2. k = l \/ k \in 1 .. l - 1
        BY <2>3
      <4>3. CASE k = l
        <5>1. b(k) > c(k)
          BY <2>2, <4>3
        <5> QED BY <4>1, <5>1
      <4>4. CASE k \in 1 .. l - 1
        <5>1. b(k) = c(k)
          BY <2>2, <4>4
        <5> QED BY <4>1, <5>1
      <4> QED BY <4>2, <4>3, <4>4
    <3>2. a(k) > c(k)
      BY <1>1, <2>1, <3>1
    <3>3. ASSUME NEW j \in 1 .. k - 1 PROVE a(j) = c(j)
      <4>1. j \in 1 .. l - 1
        BY <2>3
      <4> QED BY <2>1, <2>2, <4>1
    <3> QED BY <1>2, <3>2, <3>3
  <2>4. CASE ~(k <= l)
    <3>1. l \in 1 .. k - 1
      BY <2>4
    <3>2. a(l) > c(l)
      BY <2>1, <2>2, <3>1
    <3>3. ASSUME NEW j \in 1 .. l - 1 PROVE a(j) = c(j)
      <4>1. j \in 1 .. k - 1
        BY <3>1
      <4> QED BY <2>1, <2>2, <4>1
    <3> QED BY <1>2, <3>2, <3>3
  <2> QED BY <2>3, <2>4
<1>5. ASSUME ~Newer(v, w), ~Newer(w, v) PROVE \A k \in Nat \ {0} : b(k) = c(k)
  <2> DEFINE T == {k \in Nat \ {0} : b(k) # c(k)}
  <2> SUFFICES ASSUME T # {} PROVE FALSE
    OBVIOUS
  <2>1. PICK k \in T : \A l \in T : k <= l
    <3>1. T \subseteq Nat
      OBVIOUS
    <3> HIDE DEF T
    <3> QED BY <3>1, LeastElement
  <2>2. ASSUME NEW j \in 1 .. k - 1 PROVE b(j) = c(j)
    <3>1. j \in Nat \ {0} /\ ~(k <= j)
      OBVIOUS
    <3>2. j \notin T
      BY <2>1, <3>1
    <3> QED BY <3>1, <3>2
  <2>3. b(k) > c(k) \/ c(k) > b(k)
    BY <1>1
  <2> QED BY <1>2, <1>5, <2>2, <2>3
<1> QED BY <1>3, <1>4, <1>5 DEF b, c

\* Latest finds a build whenever one of the variant runs: a variant in the
\* configuration fails only where there is none, whatever other builds and
\* leftovers the directory has, and whatever numbers their versions are.
THEOREM LatestFound ==
  ASSUME NEW ds, IsFiniteSet(ds), \A e \in ds : e.version \in Seq(Nat),
         NEW d \in ds, Runnable(d)
  PROVE  Latest(ds, VariantOf(d)) # {}
<1> DEFINE runs     == {e \in ds : VariantOf(e) = VariantOf(d) /\ Runnable(e)}
           newer(e) == {f \in runs : Newer(f.version, e.version)}
           counts   == {Cardinality(newer(e)) : e \in runs}
<1>1. IsFiniteSet(runs)
  BY FS_Subset
<1>2. d \in runs /\ \A e \in runs : e.version \in Seq(Nat)
  OBVIOUS
<1> SUFFICES \E e \in runs : \A f \in runs : ~Newer(f.version, e.version)
  BY DEF Latest
<1> HIDE DEF runs
<1>3. ASSUME NEW e \in runs PROVE IsFiniteSet(newer(e)) /\ Cardinality(newer(e)) \in Nat
  <2>1. newer(e) \in SUBSET runs
    OBVIOUS
  <2> HIDE DEF newer
  <2> QED BY <1>1, <2>1, FS_Subset, FS_CardinalityType
<1>4. PICK e \in runs : \A f \in runs : Cardinality(newer(e)) <= Cardinality(newer(f))
  <2> HIDE DEF newer
  <2>1. counts \subseteq Nat /\ counts # {}
    BY <1>2, <1>3
  <2>2. PICK c \in counts : \A x \in counts : c <= x
    <3> HIDE DEF counts
    <3> QED BY <2>1, LeastElement
  <2> QED BY <2>2
<1>5. ASSUME NEW f \in runs, Newer(f.version, e.version) PROVE FALSE
  <2>1. newer(f) \in SUBSET newer(e)
    <3> SUFFICES ASSUME NEW g \in runs, Newer(g.version, f.version)
                 PROVE  Newer(g.version, e.version)
      OBVIOUS
    <3> QED BY <1>2, <1>5, VersionsOrdered
  <2>2. f \in newer(e) /\ f \notin newer(f)
    BY <1>2, <1>5, VersionsOrdered
  <2>3. newer(f) # newer(e)
    BY <2>2
  <2> HIDE DEF newer
  <2>4. /\ Cardinality(newer(f)) <= Cardinality(newer(e))
        /\ Cardinality(newer(f)) # Cardinality(newer(e))
    BY <1>3, <2>1, <2>3, FS_Subset
  <2> QED BY <1>3, <1>4, <2>4
<1> QED BY <1>5
=============================================================================
