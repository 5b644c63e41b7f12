------------------------- MODULE PublicationProofs -------------------------
(***************************************************************************)
(* Proofs about publication orders, for any number of orders, persons,     *)
(* versions, quality runs and revisions.                                   *)
(*                                                                         *)
(* The invariant relates what the rows say to what was said: the decisions *)
(* a row carries are those persons took with that version before them, and *)
(* the receipts on a form are those of the revision it shows.              *)
(***************************************************************************)
EXTENDS Publication, TLAPS, SequenceTheorems

ArticleRow == [version : Versions, status : {"draft", "published"}, deleted : BOOLEAN, ready : BOOLEAN]
RunRow == [version : Versions, source : 0..MaxKnowledge,
           status : {"pending", "needs_review", "failed"},
           eligible : BOOLEAN, review : Decisions \cup {None}]
OrderRow == [status : DOMAIN Transitions \cup {None}, version : 0..MaxVersion,
             rev : 0..MaxOrderRev, receipts : Nat]
Verdict == [text : Decisions \cup {None}, quality : Decisions \cup {None},
            source : 0..MaxKnowledge, endorsed : BOOLEAN]
FormRow == [order : Orders \cup {None}, rev : 0..MaxOrderRev, receipts : Nat, loaded : BOOLEAN]

UnderWay == {"ready", "in_progress", "submitted", "outcome_unknown", "verified"}

RunsGood == runs \in Seq(RunRow) /\ Len(runs) <= MaxRuns

(* The decisions on record are the last ones said of their version, and    *)
(* two approvals are an endorsement.                                       *)
Spoken ==
    /\ editorial.version # 0 => said[editorial.version].text = editorial.decision
    /\ (runs # <<>> /\ Latest.review # None) =>
          /\ said[Latest.version].quality = Latest.review
          /\ said[Latest.version].source = Latest.source
    /\ \A v \in Versions :
          (said[v].text = "approve" /\ said[v].quality = "approve") => said[v].endorsed

(* A form shows an order that exists, and what belongs to its revision.    *)
FormIsOf(f) ==
    /\ f.loaded => f.order # None
    /\ f.order # None =>
          /\ orders[f.order].status # None
          /\ f.rev <= orders[f.order].rev
          /\ (f.loaded /\ f.rev = orders[f.order].rev) => f.receipts = orders[f.order].receipts

OrdersGood == \A o \in Orders : orders[o].status # None => orders[o].version \in Versions

IInv == /\ TypeOK /\ RunsGood /\ Spoken /\ OrdersGood
        /\ \A p \in People : FormIsOf(form[p])
        /\ DeliveredWasEndorsed

(* What every step promises about the orders. *)
Started(o) ==
    (orders'[o].status \in {"ready", "in_progress"} /\ orders'[o].status # orders[o].status)
        => LET verdict == said[orders[o].version] IN
            /\ orders[o].version = article.version /\ ~article.deleted
            /\ verdict.text = "approve" /\ verdict.quality = "approve"
            /\ Usable(verdict.source)

Shown(o) ==
    (orders[o].status # "verified" /\ orders'[o].status = "verified")
        => \E p \in People : form[p].order = o /\ form[p].receipts = orders[o].receipts

Promised == \A o \in Orders : Started(o) /\ Shown(o)

-----------------------------------------------------------------------------
LEMMA Constants ==
    /\ {MaxVersion, MaxRuns, MaxKnowledge, MaxOrderRev} \subseteq Nat \ {0} /\ MaxUpsets \in Nat
    /\ None \notin Orders /\ None \notin Decisions /\ None \notin DOMAIN Transitions
  BY PublicationAssumption DEF Decisions, Transitions

LEMMA Initial == Init => IInv
  <1> SUFFICES ASSUME Init PROVE IInv
    OBVIOUS
  <1> USE Constants
  <1>1. TypeOK
    BY DEF Init, TypeOK, Versions, Decisions, NoPage, NoForm, NoVerdict, Transitions
  <1>2. RunsGood
    BY DEF Init, RunsGood
  <1>3. Spoken
    BY DEF Init, Spoken, NoVerdict, Decisions
  <1>4. OrdersGood /\ \A p \in People : FormIsOf(form[p])
    BY DEF Init, OrdersGood, FormIsOf, NoForm
  <1>5. DeliveredWasEndorsed
    BY DEF Init, DeliveredWasEndorsed, Transitions
  <1> QED
    BY <1>1, <1>2, <1>3, <1>4, <1>5 DEF IInv

LEMMA UnderWayExists ==
    ASSUME IInv, NEW o \in Orders, orders[o].status \in UnderWay
    PROVE  orders[o].version \in Versions
  BY PublicationAssumption DEF IInv, OrdersGood, UnderWay

(* What is publishable has been approved both ways, and is what persons    *)
(* last said of the current version.                                       *)
LEMMA PublishableIsSaid ==
    ASSUME IInv, NEW v, Publishable(v)
    PROVE  /\ v = article.version /\ ~article.deleted
           /\ said[v].text = "approve" /\ said[v].quality = "approve"
           /\ Usable(said[v].source) /\ said[v].endorsed
  <1> USE Constants
  <1>1. v = article.version /\ v \in Versions /\ ~article.deleted
    BY DEF Publishable, IInv, TypeOK
  <1>2. said[v].text = "approve"
    BY <1>1 DEF Publishable, EditorialApproved, IInv, Spoken, Versions
  <1>3. Latest.version = v /\ Latest.review = "approve" /\ runs # <<>> /\ Usable(Latest.source)
    BY <1>1 DEF Publishable, QualityPassed, RunCurrent
  <1>4. said[v].quality = "approve" /\ Usable(said[v].source)
    BY <1>3 DEF IInv, Spoken, Decisions
  <1> QED
    BY <1>1, <1>2, <1>4 DEF IInv, Spoken

-----------------------------------------------------------------------------
(* Steps that leave orders, forms, runs and what was said alone.           *)
LEMMA Quiet ==
    ASSUME IInv, TypeOK', article'.status = "published" => said[article'.version].endorsed,
           UNCHANGED <<editorial, runs, orders, form, said>>
    PROVE  IInv' /\ Promised
  <1>1. RunsGood' /\ Spoken' /\ OrdersGood'
    BY DEF IInv, RunsGood, Spoken, OrdersGood, Latest
  <1>2. \A p \in People : FormIsOf(form[p])'
    BY DEF IInv, FormIsOf
  <1>3. DeliveredWasEndorsed'
    BY DEF IInv, DeliveredWasEndorsed
  <1>4. Promised
    BY DEF Promised, Started, Shown
  <1> QED
    BY <1>1, <1>2, <1>3, <1>4 DEF IInv

LEMMA KnowledgeSteps ==
    ASSUME IInv, SaveKnowledge \/ ReviewKnowledge \/ KnowledgeExpires \/ SaveChannel
    PROVE  IInv' /\ Promised
  <1> USE Constants
  <1>1. asset' \in [rev : 1..MaxKnowledge, status : {"draft", "approved", "archived"}, fresh : BOOLEAN]
        /\ channel' \in BOOLEAN
    <2>1. CASE SaveKnowledge
      BY <2>1 DEF SaveKnowledge, IInv, TypeOK
    <2>2. CASE ReviewKnowledge
      BY <2>2, ZenonT(40) DEF ReviewKnowledge, IInv, TypeOK
    <2>3. CASE KnowledgeExpires
      BY <2>3 DEF KnowledgeExpires, IInv, TypeOK
    <2>4. CASE SaveChannel
      BY <2>4 DEF SaveChannel, drafting, IInv, TypeOK
    <2> QED
      BY <2>1, <2>2, <2>3, <2>4
  <1>2. upsets' \in 0..MaxUpsets
    BY DEF SaveKnowledge, ReviewKnowledge, KnowledgeExpires, SaveChannel, Upset, UpsetIf, IInv, TypeOK
  <1>3. UNCHANGED <<article, editorial, runs, orders, page, form, said>>
    BY DEF SaveKnowledge, ReviewKnowledge, KnowledgeExpires, SaveChannel, drafting, people
  <1>4. TypeOK'
    BY <1>1, <1>2, <1>3 DEF IInv, TypeOK
  <1> QED
    BY <1>3, <1>4, Quiet DEF IInv, DeliveredWasEndorsed

LEMMA ArticleSteps ==
    ASSUME IInv, Edit \/ Delete \/ \E status \in {"draft", "published"} : SetArticleStatus(status)
    PROVE  IInv' /\ Promised
  <1> USE Constants
  <1>1. UNCHANGED <<editorial, runs, asset, channel, orders, page, form, said>>
    BY DEF Edit, Delete, SetArticleStatus, people
  <1>2. article' \in ArticleRow
    <2>1. article \in ArticleRow /\ article.version \in Versions
      BY DEF IInv, TypeOK, ArticleRow
    <2>2. CASE Edit
      <3>1. PICK ready \in BOOLEAN :
              /\ article.version < MaxVersion
              /\ article' = [article EXCEPT !.version = article.version + 1, !.status = "draft",
                                            !.ready = ready]
        BY <2>2 DEF Edit, NewVersion, ArticleIs
      <3>2. article.version + 1 \in Versions
        BY <2>1, <3>1 DEF Versions
      <3> QED
        BY <2>1, <3>1, <3>2 DEF ArticleRow
    <2>3. CASE Delete
      BY <2>1, <2>3 DEF Delete, ArticleIs, ArticleRow
    <2>4. CASE \E status \in {"draft", "published"} : SetArticleStatus(status)
      BY <2>1, <2>4 DEF SetArticleStatus, ArticleIs, ArticleRow
    <2> QED
      BY <2>2, <2>3, <2>4
  <1>3. upsets' \in 0..MaxUpsets
    BY DEF Edit, Delete, SetArticleStatus, Upset, UpsetIf, IInv, TypeOK
  <1>4. TypeOK'
    BY <1>1, <1>2, <1>3 DEF IInv, TypeOK, ArticleRow
  <1>5. article'.status = "published" => said[article'.version].endorsed
    <2>1. CASE Edit
      BY <2>1 DEF Edit, NewVersion, ArticleIs, IInv, TypeOK
    <2>2. CASE Delete
      BY <2>2 DEF Delete, ArticleIs, IInv, TypeOK, DeliveredWasEndorsed
    <2>3. ASSUME NEW status \in {"draft", "published"}, SetArticleStatus(status)
          PROVE  article'.status = "published" => said[article'.version].endorsed
      <3>1. article' = [article EXCEPT !.status = status]
            /\ (status = "published" => Publishable(article.version))
        BY <2>3 DEF SetArticleStatus, ArticleIs
      <3>2. status = "published" => said[article.version].endorsed
        BY <3>1, PublishableIsSaid
      <3> QED
        BY <3>1, <3>2 DEF IInv, TypeOK
    <2> QED
      BY <2>1, <2>2, <2>3
  <1> QED
    BY <1>1, <1>4, <1>5, Quiet

LEMMA PageSteps ==
    ASSUME IInv, NEW p \in People, OpenArticle(p)
    PROVE  IInv' /\ Promised
  <1> USE Constants
  <1>1. [version |-> article.version, run |-> Len(runs)] \in [version : 0..MaxVersion, run : 0..MaxRuns]
    <2>1. Len(runs) \in 0..MaxRuns
      BY LenProperties DEF IInv, RunsGood
    <2> QED
      BY <2>1 DEF IInv, TypeOK, Versions
  <1>2. TypeOK'
    BY <1>1 DEF OpenArticle, drafting, IInv, TypeOK
  <1> QED
    BY <1>2, Quiet DEF OpenArticle, drafting, IInv, DeliveredWasEndorsed

-----------------------------------------------------------------------------
(* Quality runs: a step that leaves the decision about the newest run.     *)
LEMMA RunsChange ==
    ASSUME IInv, RunsGood', upsets' \in 0..MaxUpsets,
           (runs' # <<>> /\ Latest'.review # None) =>
               /\ runs # <<>>
               /\ Latest' = [Latest EXCEPT !.status = Latest'.status, !.eligible = Latest'.eligible],
           UNCHANGED <<article, editorial, asset, channel, orders, page, form, said>>
    PROVE  IInv' /\ Promised
  <1>1. TypeOK'
    BY DEF IInv, TypeOK, RunsGood, RunRow
  <1>2. runs # <<>> => Latest \in RunRow
    BY LenProperties, ElementOfSeq, EmptySeq DEF IInv, RunsGood, Latest
  <1>3. Spoken'
    BY <1>2 DEF IInv, Spoken, RunRow
  <1>4. OrdersGood' /\ DeliveredWasEndorsed' /\ \A p \in People : FormIsOf(form[p])'
    BY DEF IInv, OrdersGood, DeliveredWasEndorsed, FormIsOf
  <1>5. Promised
    BY DEF Promised, Started, Shown
  <1> QED
    BY <1>1, <1>3, <1>4, <1>5 DEF IInv

LEMMA RequestStep == ASSUME IInv, RequestQuality PROVE IInv' /\ Promised
  <1> USE Constants
  <1>1. PICK source \in {0, asset.rev} :
          runs' = Append(runs, [version |-> article.version, source |-> source,
                                status |-> "pending", eligible |-> FALSE, review |-> None])
    BY DEF RequestQuality
  <1> DEFINE row == [version |-> article.version, source |-> source,
                     status |-> "pending", eligible |-> FALSE, review |-> None]
  <1>2. row \in RunRow /\ row.review = None
    BY DEF IInv, TypeOK, RunRow
  <1>3. runs \in Seq(RunRow) /\ Len(runs) \in Nat /\ Len(runs) < MaxRuns
    BY LenProperties DEF IInv, RunsGood, RequestQuality
  <1>4. runs' \in Seq(RunRow) /\ Len(runs') = Len(runs) + 1 /\ runs'[Len(runs) + 1] = row
    BY <1>1, <1>2, <1>3, AppendProperties
  <1>5. RunsGood' /\ Latest'.review = None
    BY <1>2, <1>3, <1>4 DEF RunsGood, Latest
  <1> QED
    BY <1>5, RunsChange DEF RequestQuality, people, IInv, TypeOK

LEMMA EndStep == ASSUME IInv, NEW i \in 1..MaxRuns, QualityEnds(i) PROVE IInv' /\ Promised
  <1> USE Constants
  <1>1. PICK status \in {"needs_review", "failed"}, eligible \in BOOLEAN :
          runs' = [runs EXCEPT ![i] = [runs[i] EXCEPT !.status = status, !.eligible = eligible]]
    BY DEF QualityEnds
  <1> DEFINE row == [runs[i] EXCEPT !.status = status, !.eligible = eligible]
  <1>2. runs \in Seq(RunRow) /\ Len(runs) \in Nat /\ i \in 1..Len(runs) /\ runs[i] \in RunRow
    BY LenProperties, ElementOfSeq DEF IInv, RunsGood, QualityEnds
  <1>3. row \in RunRow /\ row.status = status /\ row.eligible = eligible
    BY <1>2 DEF RunRow
  <1>4. /\ runs' \in Seq(RunRow) /\ Len(runs') = Len(runs)
        /\ \A j \in 1..Len(runs) : runs'[j] = IF j = i THEN row ELSE runs[j]
    BY <1>1, <1>2, <1>3, ExceptSeq
  <1>5. RunsGood' /\ runs # <<>>
    BY <1>2, <1>4 DEF RunsGood, IInv
  <1>6. Latest' = [Latest EXCEPT !.status = Latest'.status, !.eligible = Latest'.eligible]
    <2>1. Len(runs) \in 1..Len(runs) /\ Latest \in RunRow
      BY <1>2, ElementOfSeq DEF Latest
    <2>2. CASE i = Len(runs)
      BY <1>3, <1>4, <2>1, <2>2 DEF Latest
    <2>3. CASE i # Len(runs)
      BY <1>4, <2>1, <2>3 DEF Latest, RunRow
    <2> QED
      BY <2>2, <2>3
  <1>7. upsets' \in 0..MaxUpsets
    BY SMTT(20) DEF QualityEnds, Upset, UpsetIf, IInv, TypeOK
  <1> QED
    BY <1>5, <1>6, <1>7, RunsChange DEF QualityEnds, people

-----------------------------------------------------------------------------
(* What is said of one version; an endorsement is never taken back.        *)
LEMMA SaidSo ==
    ASSUME IInv, NEW v \in Versions, NEW verdict \in Verdict, Say(v, verdict),
           said[v].endorsed => verdict.endorsed
    PROVE  /\ said' \in [Versions -> Verdict]
           /\ \A w \in Versions : said[w].endorsed => said'[w].endorsed
           /\ \A w \in Versions \ {v} : said'[w] = said[w]
           /\ said'[v].text = verdict.text /\ said'[v].quality = verdict.quality
           /\ said'[v].source = verdict.source
           /\ (verdict.text = "approve" /\ verdict.quality = "approve") => said'[v].endorsed
  <1> DEFINE row == [verdict EXCEPT !.endorsed =
                        verdict.endorsed \/ (verdict.text = "approve" /\ verdict.quality = "approve")]
  <1>1. said \in [Versions -> Verdict]
    BY DEF IInv, TypeOK, Verdict
  <1>2. said' = [said EXCEPT ![v] = row]
    BY DEF Say
  <1>3. /\ row \in Verdict /\ row.text = verdict.text /\ row.quality = verdict.quality
        /\ row.source = verdict.source /\ (verdict.endorsed => row.endorsed)
        /\ (verdict.text = "approve" /\ verdict.quality = "approve") => row.endorsed
    BY DEF Verdict
  <1> QED
    BY <1>1, <1>2, <1>3

LEMMA ReviewTextStep == ASSUME IInv, NEW p \in People, ReviewText(p) PROVE IInv' /\ Promised
  <1> USE Constants
  <1> DEFINE v == article.version
  <1>1. PICK d \in Decisions :
          /\ editorial' = [version |-> v, decision |-> d]
          /\ Say(v, [said[v] EXCEPT !.text = d])
          /\ UpsetIf(d = "reject")
    BY DEF ReviewText, TextReviewable
  <1>2. v \in Versions /\ v # 0 /\ said[v] \in Verdict
    BY DEF IInv, TypeOK, Verdict, Versions
  <1> DEFINE verdict == [said[v] EXCEPT !.text = d]
  <1>3. /\ verdict \in Verdict /\ verdict.text = d /\ verdict.quality = said[v].quality
        /\ verdict.source = said[v].source /\ verdict.endorsed = said[v].endorsed
    BY <1>2 DEF Verdict
  <1>4. /\ said' \in [Versions -> Verdict]
        /\ \A w \in Versions : said[w].endorsed => said'[w].endorsed
        /\ \A w \in Versions \ {v} : said'[w] = said[w]
        /\ said'[v].text = d /\ said'[v].quality = said[v].quality /\ said'[v].source = said[v].source
        /\ (d = "approve" /\ said[v].quality = "approve") => said'[v].endorsed
    <2>1. Say(v, verdict)
      BY <1>1
    <2> HIDE DEF verdict, v
    <2> QED
      BY <1>2, <1>3, <2>1, SaidSo
  <1>5. TypeOK'
    <2>1. page' \in [People -> [version : 0..MaxVersion, run : 0..MaxRuns]]
      BY DEF ReviewText, Reload, NoPage, IInv, TypeOK
    <2>2. upsets' \in 0..MaxUpsets
      BY <1>1, SMTT(20) DEF Upset, UpsetIf, IInv, TypeOK
    <2>3. editorial' \in [version : 0..MaxVersion, decision : Decisions \cup {None}]
      BY <1>1, <1>2 DEF Versions
    <2> QED
      BY <1>4, <2>1, <2>2, <2>3 DEF ReviewText, IInv, TypeOK, Verdict
  <1>6. Spoken'
    <2>1. editorial'.version = v /\ editorial'.decision = d
      BY <1>1
    <2>2. \A w \in Versions : said'[w].quality = said[w].quality /\ said'[w].source = said[w].source
      BY <1>4
    <2>3. runs # <<>> => Latest.version \in Versions
      <3>1. runs # <<>> => Latest \in RunRow
        BY LenProperties, ElementOfSeq, EmptySeq DEF IInv, RunsGood, Latest
      <3> QED
        BY <3>1 DEF RunRow
    <2>4. (runs # <<>> /\ Latest.review # None) =>
              said'[Latest.version].quality = Latest.review /\ said'[Latest.version].source = Latest.source
      BY <2>2, <2>3 DEF IInv, Spoken
    <2>5. runs' = runs
      BY DEF ReviewText
    <2>6. \A w \in Versions : (said'[w].text = "approve" /\ said'[w].quality = "approve") => said'[w].endorsed
      BY <1>4 DEF IInv, Spoken
    <2> QED
      BY <1>4, <2>1, <2>4, <2>5, <2>6 DEF Spoken, Latest
  <1>7. UNCHANGED <<article, runs, orders, form>>
    BY DEF ReviewText
  <1>8. RunsGood' /\ OrdersGood' /\ \A q \in People : FormIsOf(form[q])'
    BY <1>7 DEF IInv, RunsGood, OrdersGood, FormIsOf
  <1>9. DeliveredWasEndorsed'
    BY <1>2, <1>4, <1>7, UnderWayExists DEF IInv, DeliveredWasEndorsed, UnderWay
  <1>10. Promised
    BY <1>7 DEF Promised, Started, Shown
  <1> QED
    BY <1>5, <1>6, <1>8, <1>9, <1>10 DEF IInv

LEMMA ReviewQualityStep == ASSUME IInv, NEW p \in People, ReviewQuality(p) PROVE IInv' /\ Promised
  <1> USE Constants
  <1> DEFINE v == article.version
             i == Len(runs)
  <1>1. PICK d \in Decisions :
          /\ page[p].run = i /\ page[p].version = v /\ page[p].run # 0 /\ runs[i].version = v
          /\ runs' = [runs EXCEPT ![i] = [runs[i] EXCEPT !.review = d]]
          /\ Say(v, [said[v] EXCEPT !.quality = d, !.source = runs[i].source])
          /\ UpsetIf(d = "reject")
    BY DEF ReviewQuality, QualityReviewable, RunCurrent
  <1>2. v \in Versions /\ said[v] \in Verdict
    BY DEF IInv, TypeOK, Verdict
  <1>3. runs \in Seq(RunRow) /\ i \in Nat /\ i \in 1..Len(runs) /\ runs[i] \in RunRow
    BY <1>1, LenProperties, ElementOfSeq DEF IInv, RunsGood
  <1> DEFINE verdict == [said[v] EXCEPT !.quality = d, !.source = runs[i].source]
             row == [runs[i] EXCEPT !.review = d]
  <1>4. /\ verdict \in Verdict /\ verdict.quality = d /\ verdict.text = said[v].text
        /\ verdict.source = runs[i].source /\ verdict.endorsed = said[v].endorsed
    BY <1>2, <1>3 DEF Verdict, RunRow
  <1>5. /\ said' \in [Versions -> Verdict]
        /\ \A w \in Versions : said[w].endorsed => said'[w].endorsed
        /\ \A w \in Versions \ {v} : said'[w] = said[w]
        /\ said'[v].quality = d /\ said'[v].text = said[v].text /\ said'[v].source = runs[i].source
        /\ (said[v].text = "approve" /\ d = "approve") => said'[v].endorsed
    <2>1. Say(v, verdict)
      BY <1>1
    <2> HIDE DEF verdict, v, i
    <2> QED
      BY <1>2, <1>4, <2>1, SaidSo
  <1>6. row \in RunRow /\ row.review = d /\ row.version = v /\ row.source = runs[i].source
    BY <1>1, <1>3 DEF RunRow
  <1>7. runs' \in Seq(RunRow) /\ Len(runs') = i /\ runs'[i] = row
    BY <1>1, <1>3, <1>6, ExceptSeq, SMTT(20)
  <1>8. RunsGood' /\ Latest' = row
    BY <1>7 DEF IInv, RunsGood, Latest
  <1>9. TypeOK'
    <2>1. page' \in [People -> [version : 0..MaxVersion, run : 0..MaxRuns]]
      BY DEF ReviewQuality, Reload, NoPage, IInv, TypeOK
    <2>2. upsets' \in 0..MaxUpsets
      <3>1. UpsetIf(d = "reject")
        BY <1>1
      <3> QED
        BY <3>1, SMTT(20) DEF Upset, UpsetIf, IInv, TypeOK
    <2> QED
      BY <1>5, <1>8, <2>1, <2>2 DEF ReviewQuality, RunsGood, RunRow, IInv, TypeOK, Verdict
  <1>10. Spoken'
    <2>1. editorial' = editorial /\ \A w \in Versions : said'[w].text = said[w].text
      BY <1>5 DEF ReviewQuality
    <2>2. editorial.version # 0 => said'[editorial.version].text = editorial.decision
      <3>1. editorial.version # 0 => editorial.version \in Versions
        BY DEF IInv, TypeOK, Versions
      <3> QED
        BY <2>1, <3>1 DEF IInv, Spoken
    <2>3. \A w \in Versions : (said'[w].text = "approve" /\ said'[w].quality = "approve") => said'[w].endorsed
      BY <1>5 DEF IInv, Spoken
    <2> QED
      BY <1>5, <1>6, <1>8, <2>1, <2>2, <2>3 DEF Spoken
  <1>11. UNCHANGED <<article, orders, form>>
    BY DEF ReviewQuality
  <1>12. OrdersGood' /\ \A q \in People : FormIsOf(form[q])'
    BY <1>11 DEF IInv, OrdersGood, FormIsOf
  <1>13. DeliveredWasEndorsed'
    BY <1>2, <1>5, <1>11, UnderWayExists DEF IInv, DeliveredWasEndorsed, UnderWay
  <1>14. Promised
    BY <1>11 DEF Promised, Started, Shown
  <1> QED
    BY <1>8, <1>9, <1>10, <1>12, <1>13, <1>14 DEF IInv

-----------------------------------------------------------------------------
(* Orders: a row that is newer, and rests on an endorsed version when it   *)
(* is under way.                                                           *)
LEMMA OrderWritten ==
    ASSUME IInv, NEW o \in Orders, NEW row \in OrderRow, orders' = [orders EXCEPT ![o] = row],
           orders[o].status = None \/ row.rev > orders[o].rev,
           row.status \in DOMAIN Transitions, row.version \in Versions,
           row.status \in UnderWay => said[row.version].endorsed,
           upsets' \in 0..MaxUpsets,
           UNCHANGED <<article, editorial, runs, asset, channel, page, form, said>>
    PROVE  IInv'
  <1> USE Constants
  <1>1. /\ orders' \in [Orders -> OrderRow] /\ orders'[o] = row
        /\ \A other \in Orders \ {o} : orders'[other] = orders[other]
    BY DEF IInv, TypeOK, OrderRow
  <1>2. TypeOK'
    BY <1>1 DEF IInv, TypeOK, OrderRow
  <1>3. RunsGood' /\ Spoken'
    BY DEF IInv, RunsGood, Spoken, Latest
  <1>4. OrdersGood'
    BY <1>1 DEF IInv, OrdersGood
  <1>5. \A p \in People : FormIsOf(form[p])'
    <2> SUFFICES ASSUME NEW p \in People PROVE FormIsOf(form[p])'
      OBVIOUS
    <2>1. form[p] \in FormRow /\ form'[p] = form[p]
      BY DEF IInv, TypeOK, FormRow
    <2>2. FormIsOf(form[p])
      BY DEF IInv
    <2>3. CASE form[p].order = o
      <3>1. orders[o].status # None /\ form[p].rev <= orders[o].rev /\ row.rev > orders[o].rev
        BY <2>2, <2>3 DEF FormIsOf
      <3>2. form[p].rev \in Nat /\ orders[o].rev \in Nat /\ row.rev \in Nat
        BY <2>1 DEF FormRow, OrderRow, IInv, TypeOK
      <3> QED
        BY <1>1, <2>1, <2>2, <2>3, <3>1, <3>2 DEF FormIsOf
    <2>4. CASE form[p].order # o
      <3>1. form[p].order # None => form[p].order \in Orders \ {o}
        BY <2>1, <2>4 DEF FormRow
      <3> QED
        BY <1>1, <2>1, <2>2, <3>1 DEF FormIsOf
    <2> QED
      BY <2>3, <2>4
  <1>6. DeliveredWasEndorsed'
    BY <1>1 DEF IInv, DeliveredWasEndorsed, UnderWay
  <1> QED
    BY <1>2, <1>3, <1>4, <1>5, <1>6 DEF IInv

LEMMA Promises ==
    ASSUME IInv, NEW o \in Orders, NEW row, orders' = [orders EXCEPT ![o] = row],
           row.status \in {"ready", "in_progress"} /\ row.status # orders[o].status
               => Publishable(orders[o].version),
           row.status # "verified"
    PROVE  Promised
  <1>1. orders'[o] = row /\ \A other \in Orders \ {o} : orders'[other] = orders[other]
    BY DEF IInv, TypeOK
  <1>2. Started(o)
    BY <1>1, PublishableIsSaid DEF Started
  <1>3. Shown(o)
    BY <1>1 DEF Shown
  <1>4. \A other \in Orders \ {o} : Started(other) /\ Shown(other)
    BY <1>1 DEF Started, Shown
  <1> QED
    BY <1>2, <1>3, <1>4 DEF Promised

LEMMA CreateStep == ASSUME IInv, NEW o \in Orders, CreateOrder(o) PROVE IInv' /\ Promised
  <1> USE Constants
  <1> DEFINE row == [status |-> "draft", version |-> article.version, rev |-> 1, receipts |-> 0]
  <1>1. /\ row \in OrderRow /\ row.status = "draft" /\ row.version \in Versions
        /\ "draft" \notin UnderWay /\ "draft" \in DOMAIN Transitions
    BY DEF OrderRow, Transitions, UnderWay, IInv, TypeOK, Versions
  <1>2. /\ orders[o].status = None /\ orders' = [orders EXCEPT ![o] = row]
        /\ UNCHANGED <<article, editorial, runs, asset, channel, page, form, said, upsets>>
    BY DEF CreateOrder, drafting, people
  <1>3. upsets' \in 0..MaxUpsets
    BY <1>2 DEF IInv, TypeOK
  <1> HIDE DEF row
  <1>4. IInv'
    BY <1>1, <1>2, <1>3, OrderWritten
  <1> QED
    BY <1>1, <1>2, <1>4, Promises

LEMMA ReassignStep == ASSUME IInv, NEW o \in Orders, Reassign(o) PROVE IInv' /\ Promised
  <1> USE Constants
  <1> DEFINE row == [orders[o] EXCEPT !.rev = orders[o].rev + 1]
  <1>1. orders[o] \in OrderRow /\ orders[o].status \in {"draft", "ready", "failed"}
        /\ orders[o].rev < MaxOrderRev
    BY DEF Reassign, IInv, TypeOK, OrderRow
  <1>2. /\ row \in OrderRow /\ row.status = orders[o].status /\ row.version = orders[o].version
        /\ row.rev > orders[o].rev
    BY <1>1 DEF OrderRow
  <1>3. orders[o].status \in DOMAIN Transitions /\ orders[o].status # "verified"
    BY <1>1 DEF Transitions
  <1>4. row.version \in Versions /\ (row.status \in UnderWay => said[row.version].endorsed)
    BY <1>2, <1>3 DEF IInv, OrdersGood, DeliveredWasEndorsed, UnderWay
  <1>5. /\ orders' = [orders EXCEPT ![o] = row] /\ upsets' \in 0..MaxUpsets
        /\ UNCHANGED <<article, editorial, runs, asset, channel, page, form, said>>
    BY SMTT(20) DEF Reassign, Upset, drafting, people, IInv, TypeOK
  <1> HIDE DEF row
  <1>6. IInv'
    BY <1>2, <1>3, <1>4, <1>5, OrderWritten
  <1> QED
    BY <1>2, <1>3, <1>5, <1>6, Promises

LEMMA TransitionStep ==
    ASSUME IInv, NEW o \in Orders, NEW status \in DOMAIN Transitions, Transition(o, status)
    PROVE  IInv' /\ Promised
  <1> USE Constants
  <1> DEFINE row == [orders[o] EXCEPT
                        !.status = status, !.rev = orders[o].rev + 1,
                        !.receipts = IF status = "submitted" THEN orders[o].receipts + 1
                                                             ELSE orders[o].receipts]
  <1>1. /\ orders[o] \in OrderRow /\ orders[o].status # None /\ orders[o].rev < MaxOrderRev
        /\ status \in Transitions[orders[o].status] \ {"verified"}
        /\ status \in {"ready", "in_progress"} => Publishable(orders[o].version)
    BY DEF Transition, Prepared, IInv, TypeOK, OrderRow
  <1>2. /\ row \in OrderRow /\ row.status = status /\ row.version = orders[o].version
        /\ row.rev > orders[o].rev
    <2> DEFINE count == IF status = "submitted" THEN orders[o].receipts + 1 ELSE orders[o].receipts
    <2>1. count \in Nat
      BY <1>1 DEF OrderRow
    <2>2. /\ orders[o].rev \in Nat /\ orders[o].rev + 1 \in 0..MaxOrderRev
          /\ orders[o].rev + 1 > orders[o].rev
      BY <1>1 DEF OrderRow
    <2>3. row = [orders[o] EXCEPT !.status = status, !.rev = orders[o].rev + 1, !.receipts = count]
      OBVIOUS
    <2> HIDE DEF row, count
    <2> QED
      BY <1>1, <2>1, <2>2, <2>3 DEF OrderRow
  <1>3. row.version \in Versions
    BY <1>1, <1>2 DEF IInv, OrdersGood
  <1>4. status \in UnderWay => said[row.version].endorsed
    <2>1. CASE status \in {"ready", "in_progress"}
      BY <1>1, <1>2, <2>1, PublishableIsSaid
    <2>2. CASE status \in {"submitted", "outcome_unknown"}
      <3>1. orders[o].status \in {"in_progress", "submitted", "outcome_unknown"}
        BY <1>1, <2>2 DEF Transitions, OrderRow
      <3> QED
        BY <1>2, <3>1 DEF IInv, DeliveredWasEndorsed
    <2> QED
      BY <1>1, <2>1, <2>2 DEF UnderWay
  <1>5. /\ orders' = [orders EXCEPT ![o] = row]
        /\ UNCHANGED <<article, editorial, runs, asset, channel, page, form, said>>
    BY DEF Transition, MoveOrder, drafting, people
  <1>6. upsets' \in 0..MaxUpsets
    BY DEF Transition, Upset, UpsetIf, IInv, TypeOK
  <1> HIDE DEF row
  <1>7. IInv'
    BY <1>2, <1>3, <1>4, <1>5, <1>6, OrderWritten
  <1> QED
    BY <1>1, <1>2, <1>5, <1>7, Promises

-----------------------------------------------------------------------------
(* Forms. *)
LEMMA FormWritten ==
    ASSUME IInv, NEW p \in People, NEW f \in FormRow, form' = [form EXCEPT ![p] = f], FormIsOf(f),
           UNCHANGED <<article, editorial, runs, asset, channel, orders, page, said, upsets>>
    PROVE  IInv' /\ Promised
  <1>1. form' \in [People -> FormRow] /\ \A q \in People : form'[q] = IF q = p THEN f ELSE form[q]
    BY DEF IInv, TypeOK, FormRow
  <1>2. TypeOK'
    BY <1>1 DEF IInv, TypeOK, FormRow
  <1>3. \A q \in People : FormIsOf(form[q])'
    BY <1>1 DEF IInv, FormIsOf
  <1>4. RunsGood' /\ Spoken' /\ OrdersGood' /\ DeliveredWasEndorsed'
    BY DEF IInv, RunsGood, Spoken, OrdersGood, DeliveredWasEndorsed, Latest
  <1>5. Promised
    BY DEF Promised, Started, Shown
  <1> QED
    BY <1>2, <1>3, <1>4, <1>5 DEF IInv

LEMMA OpenOrderStep == ASSUME IInv, NEW p \in People, OpenOrder(p) PROVE IInv' /\ Promised
  <1> USE Constants
  <1>1. PICK o \in Orders :
          /\ orders[o].status = "submitted"
          /\ form' = [form EXCEPT ![p] = [order |-> o, rev |-> orders[o].rev,
                                          receipts |-> 0, loaded |-> FALSE]]
    BY DEF OpenOrder
  <1> DEFINE f == [order |-> o, rev |-> orders[o].rev, receipts |-> 0, loaded |-> FALSE]
  <1>2. f \in FormRow
    BY DEF FormRow, IInv, TypeOK
  <1>3. orders[o].status # None /\ orders[o].rev \in Nat
    BY <1>1, PublicationAssumption DEF IInv, TypeOK
  <1>4. FormIsOf(f)
    BY <1>3 DEF FormIsOf
  <1>5. UNCHANGED <<article, editorial, runs, asset, channel, orders, page, said, upsets>>
    BY DEF OpenOrder, drafting
  <1> HIDE DEF f
  <1> QED
    BY <1>1, <1>2, <1>4, <1>5, FormWritten DEF f

LEMMA LoadReceiptsStep == ASSUME IInv, NEW p \in People, LoadReceipts(p) PROVE IInv' /\ Promised
  <1> USE Constants
  <1> DEFINE f == [form[p] EXCEPT !.receipts = orders[form[p].order].receipts, !.loaded = TRUE]
  <1>1. form[p] \in FormRow /\ form[p].order \in Orders /\ FormIsOf(form[p])
    BY DEF LoadReceipts, IInv, TypeOK, FormRow
  <1>2. orders[form[p].order].receipts \in Nat
    BY <1>1 DEF IInv, TypeOK
  <1>3. /\ f \in FormRow /\ f.order = form[p].order /\ f.rev = form[p].rev
        /\ f.receipts = orders[form[p].order].receipts
    BY <1>1, <1>2 DEF FormRow
  <1>4. FormIsOf(f)
    BY <1>1, <1>3 DEF FormIsOf
  <1>5. /\ form' = [form EXCEPT ![p] = f]
        /\ UNCHANGED <<article, editorial, runs, asset, channel, orders, page, said, upsets>>
    BY DEF LoadReceipts, drafting
  <1> HIDE DEF f
  <1> QED
    BY <1>3, <1>4, <1>5, FormWritten

(* The order on the form, with its revision, is still submitted: what the  *)
(* form shows are its receipts.                                            *)
LEMMA VerifyStep == ASSUME IInv, NEW p \in People, Verify(p) PROVE IInv' /\ Promised
  <1> USE Constants
  <1> DEFINE o == form[p].order
             row == [orders[o] EXCEPT !.status = "verified", !.rev = orders[o].rev + 1,
                                      !.receipts = orders[o].receipts]
  <1>1. form[p] \in FormRow /\ o \in Orders /\ FormIsOf(form[p]) /\ form[p].loaded
    BY DEF Verify, IInv, TypeOK, FormRow, FormIsOf
  <1>2. /\ orders[o] \in OrderRow /\ orders[o].rev = form[p].rev
        /\ orders[o].rev < MaxOrderRev /\ orders[o].status # None
        /\ "verified" \in Transitions[orders[o].status]
    BY <1>1 DEF Verify, Verifiable, FormIsOf, IInv, TypeOK, OrderRow
  <1>3. orders[o].status = "submitted"
    BY <1>2 DEF OrderRow, Transitions
  <1>4. orders[o].version \in Versions /\ said[orders[o].version].endorsed
    BY <1>1, <1>3, UnderWayExists DEF UnderWay, IInv, DeliveredWasEndorsed
  <1>5. row \in OrderRow /\ row.status = "verified" /\ row.version = orders[o].version
        /\ row.rev \in Nat /\ row.receipts = orders[o].receipts
    <2>1. "verified" \in DOMAIN Transitions
      BY DEF Transitions
    <2>2. orders[o].rev + 1 \in 0..MaxOrderRev /\ orders[o].rev + 1 \in Nat
      BY <1>2 DEF OrderRow
    <2> HIDE DEF o
    <2> QED
      BY <1>2, <2>1, <2>2 DEF OrderRow
  <1>6. orders' = [orders EXCEPT ![o] = row]
    <2>1. MoveOrder(o, "verified")
      BY DEF Verify
    <2> QED
      BY <2>1 DEF MoveOrder
  <1>7. /\ orders' \in [Orders -> OrderRow] /\ orders'[o] = row
        /\ \A other \in Orders \ {o} : orders'[other] = orders[other]
    BY <1>1, <1>5, <1>6 DEF IInv, TypeOK, OrderRow
  <1>8. /\ form' = [form EXCEPT ![p] = NoForm]
        /\ UNCHANGED <<editorial, runs, asset, channel, page, said, upsets>>
    BY DEF Verify
  <1>9. \/ article' = [article EXCEPT !.status = "published"] /\ DeliversArticle(o)
        \/ UNCHANGED article
    BY DEF Verify, ArticleIs
  <1> HIDE DEF row
  <1>10. article' \in ArticleRow
         /\ (article'.status = "published" => said[article'.version].endorsed)
    <2>1. article \in ArticleRow
      BY DEF IInv, TypeOK, ArticleRow
    <2> QED
      BY <1>4, <1>9, <2>1 DEF DeliversArticle, ArticleRow, IInv, DeliveredWasEndorsed
  <1>11. NoForm \in FormRow /\ form' \in [People -> FormRow]
         /\ \A q \in People : form'[q] = IF q = p THEN NoForm ELSE form[q]
    BY <1>8 DEF NoForm, FormRow, IInv, TypeOK
  <1>12. TypeOK'
    BY <1>7, <1>8, <1>10, <1>11 DEF IInv, TypeOK, ArticleRow, OrderRow, FormRow
  <1>13. RunsGood' /\ Spoken'
    BY <1>8 DEF IInv, RunsGood, Spoken, Latest
  <1>14. OrdersGood'
    BY <1>4, <1>5, <1>7 DEF IInv, OrdersGood
  <1>15. DeliveredWasEndorsed'
    BY <1>4, <1>5, <1>7, <1>8, <1>10 DEF IInv, DeliveredWasEndorsed
  <1>16. \A q \in People : FormIsOf(form[q])'
    <2> SUFFICES ASSUME NEW q \in People PROVE FormIsOf(form[q])'
      OBVIOUS
    <2>1. CASE q = p
      BY <1>11, <2>1 DEF NoForm, FormIsOf
    <2>2. CASE q # p
      <3>1. form'[q] = form[q] /\ form[q] \in FormRow /\ FormIsOf(form[q])
        BY <1>11, <2>2 DEF IInv, TypeOK, FormRow
      <3>2. row.status # None /\ row.rev > orders[o].rev /\ orders[o].rev \in Nat
        BY <1>2, <1>5, PublicationAssumption DEF OrderRow, row
      <3>3. form[q].rev \in Nat /\ (form[q].order # None => form[q].order \in Orders)
        BY <3>1 DEF FormRow
      <3> QED
        BY <1>5, <1>7, <3>1, <3>2, <3>3 DEF FormIsOf
    <2> QED
      BY <2>1, <2>2
  <1>17. Promised
    <2>1. Shown(o)
      BY <1>1, <1>2 DEF Shown, FormIsOf
    <2>2. Started(o)
      BY <1>5, <1>7 DEF Started
    <2>3. \A other \in Orders \ {o} : Started(other) /\ Shown(other)
      BY <1>7 DEF Started, Shown
    <2> QED
      BY <2>1, <2>2, <2>3 DEF Promised
  <1> QED
    BY <1>12, <1>13, <1>14, <1>15, <1>16, <1>17 DEF IInv

-----------------------------------------------------------------------------
LEMMA Step == IInv /\ [Next]_vars => IInv' /\ [Promised]_vars
  <1> SUFFICES ASSUME IInv, [Next]_vars PROVE IInv' /\ [Promised]_vars
    OBVIOUS
  <1>1. CASE Next
    BY <1>1, KnowledgeSteps, ArticleSteps, PageSteps, RequestStep, EndStep, ReviewTextStep,
       ReviewQualityStep, CreateStep, ReassignStep, TransitionStep, OpenOrderStep,
       LoadReceiptsStep, VerifyStep DEF Next
  <1>2. CASE UNCHANGED vars
    BY <1>2, Quiet, ZenonT(40) DEF vars, IInv, TypeOK, DeliveredWasEndorsed
  <1> QED
    BY <1>1, <1>2

LEMMA Inductive == Spec => []IInv
  <1>1. IInv /\ [Next]_vars => IInv'
    BY Step
  <1> QED
    BY Initial, <1>1, PTL DEF Spec

LEMMA Promising == Spec => [][Promised]_vars
  <1>1. IInv /\ [Next]_vars => [Promised]_vars
    BY Step
  <1> QED
    BY <1>1, Inductive, PTL DEF Spec

(* Types; versions, revisions and runs are numbered within their bounds.   *)
THEOREM TypeCorrect == Spec => []TypeOK
  <1>1. IInv => TypeOK
    BY DEF IInv
  <1> QED
    BY <1>1, Inductive, PTL

(* publications.ts: an order that was prepared, and an article that is     *)
(* published, is a version both reviews approved while it was the current  *)
(* one, whatever was edited, rejected or expired between the statements.   *)
THEOREM DeliverySafe == Spec => []DeliveredWasEndorsed
  <1>1. IInv => DeliveredWasEndorsed
    BY DEF IInv
  <1> QED
    BY <1>1, Inductive, PTL

(* preparePublication: when an order becomes ready or goes (back) to work, *)
(* the last word on its version is approval and the knowledge still holds. *)
THEOREM StartsSafe == Spec => StartsAreCurrent
  <1> DEFINE Current == \A o \in Orders : Started(o)
  <1>1. [Promised]_vars => [Current]_vars
    BY DEF Promised
  <1>2. Spec => [][Current]_vars
    BY <1>1, Promising, PTL
  <1> QED
    BY <1>2 DEF StartsAreCurrent, Started

(* transitionPublication: the revision check stands for the receipts the   *)
(* page loaded in a second query.                                          *)
THEOREM VerifiedSafe == Spec => VerifiedAsShown
  <1> DEFINE Seen == \A o \in Orders : Shown(o)
  <1>1. [Promised]_vars => [Seen]_vars
    BY DEF Promised
  <1>2. Spec => [][Seen]_vars
    BY <1>1, Promising, PTL
  <1> QED
    BY <1>2 DEF VerifiedAsShown, Shown
=============================================================================
