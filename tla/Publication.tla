---------------------------- MODULE Publication ----------------------------
(***************************************************************************)
(* From an article to a verified delivery: the versions of one article,    *)
(* its editorial and quality reviews, one customer knowledge asset, and    *)
(* the manual publication orders of the article on one channel.            *)
(*   apps/worker/src/articles.ts           edits, registering, deletion    *)
(*   apps/worker/src/article-quality.ts    quality runs and both reviews   *)
(*   apps/worker/src/customer-knowledge.ts revisions and their approval    *)
(*   apps/worker/src/publications.ts       orders, receipts, verification  *)
(*   packages/core/migrations/0028, 0030   version triggers, active index  *)
(* Every request writes in one transaction that holds the row lock of the  *)
(* article or of the order, so it is one step; what a person read before,  *)
(* on a page that is loaded by several queries, is older than that step.   *)
(***************************************************************************)
EXTENDS Naturals, Sequences, FiniteSets

CONSTANTS Orders,        \* publication orders that may be created
          People,        \* reviewers with a page open
          None,
          MaxVersion,    \* versions of the article
          MaxRuns,       \* quality runs of the article
          MaxKnowledge,  \* revisions of the knowledge asset
          MaxOrderRev,   \* revisions of an order
          MaxUpsets      \* events that take something back, together

ASSUME PublicationAssumption ==
    /\ None \notin Orders /\ None \notin People
    /\ None \notin {"approve", "reject", "draft", "ready", "in_progress", "submitted",
                    "outcome_unknown", "failed", "verified", "cancelled"}
    /\ {MaxVersion, MaxRuns, MaxKnowledge, MaxOrderRev} \subseteq Nat \ {0}
    /\ MaxUpsets \in Nat

VARIABLES
    article,    \* optimization_articles: version, status, deleted_at; ready: it has
                \* a publication plan and no open fact in its text
    editorial,  \* the latest row of article_editorial_reviews
    runs,       \* article_quality_runs in the order they were created
    asset,      \* customer_knowledge_assets and its current revision
    channel,    \* publication_channels.enabled
    orders,     \* publication_orders; receipts counts publication_receipts
    page,       \* the article page of each person: the version and run on it
    form,       \* the order page of each person: the row and the receipts on it
    said,       \* history: what the persons last said of each version they had
                \* on their page, and the knowledge revision that was checked
    upsets      \* how often something was rejected, failed, withdrawn, disabled,
                \* reassigned or deleted

vars == <<article, editorial, runs, asset, channel, orders, page, form, said, upsets>>
drafting == <<article, editorial, runs, asset>>
people == <<page, form, said>>

Upset == upsets < MaxUpsets /\ upsets' = upsets + 1
UpsetIf(condition) == IF condition THEN Upset ELSE UNCHANGED upsets

Versions == 1..MaxVersion
Decisions == {"approve", "reject"}
Latest == runs[Len(runs)]
ArticleIs(a) == article' = a

NoVerdict == [text |-> None, quality |-> None, source |-> 0, endorsed |-> FALSE]
NoPage == [version |-> 0, run |-> 0]
NoForm == [order |-> None, rev |-> 0, receipts |-> 0, loaded |-> FALSE]

(* The article as the approval of its draft inserted it.                   *)
Init ==
    /\ \E ready \in BOOLEAN :
          article = [version |-> 1, status |-> "draft", deleted |-> FALSE, ready |-> ready]
    /\ editorial = [version |-> 0, decision |-> None]
    /\ runs = <<>>
    /\ asset = [rev |-> 1, status |-> "draft", fresh |-> TRUE]
    /\ channel = TRUE
    /\ orders = [o \in Orders |-> [status |-> None, version |-> 0, rev |-> 0, receipts |-> 0]]
    /\ page = [p \in People |-> NoPage]
    /\ form = [p \in People |-> NoForm]
    /\ said = [v \in Versions |-> NoVerdict]
    /\ upsets = 0

-----------------------------------------------------------------------------
(* Customer knowledge.  A source of a run is a revision of the asset, or 0 *)
(* when the run was asked for without customer knowledge.                  *)

Usable(source) == source = 0 \/ (asset.rev = source /\ asset.status = "approved" /\ asset.fresh)

(* saveCustomerKnowledge: an edit is a new revision that nobody approved.  *)
SaveKnowledge ==
    /\ asset.rev < MaxKnowledge /\ asset.status # "archived"
    /\ asset' = [rev |-> asset.rev + 1, status |-> "draft", fresh |-> TRUE]
    /\ Upset
    /\ UNCHANGED <<article, editorial, runs, channel, orders, people>>

(* reviewCustomerKnowledge *)
ReviewKnowledge ==
    /\ asset.status # "archived"
    /\ \E status \in {"approved", "draft", "archived"} :
        /\ status = "approved" => asset.fresh
        /\ asset' = [asset EXCEPT !.status = status]
        /\ UpsetIf(status # "approved")
    /\ UNCHANGED <<article, editorial, runs, channel, orders, people>>

(* valid_until passes. *)
KnowledgeExpires ==
    /\ asset.fresh
    /\ asset' = [asset EXCEPT !.fresh = FALSE]
    /\ Upset
    /\ UNCHANGED <<article, editorial, runs, channel, orders, people>>

-----------------------------------------------------------------------------
(* Whether the article may be published now. *)

(* Mutant of RunCurrent: the knowledge sources are not looked at again.    *)
RunCurrentByVersion(r) == r.version = article.version

(* runCurrent, sourcesCurrent *)
RunCurrent(r) == r.version = article.version /\ Usable(r.source)

(* getArticleQuality takes the newest run, resultStatus calls it passed.   *)
QualityPassed ==
    /\ runs # <<>> /\ RunCurrent(Latest)
    /\ Latest.status = "needs_review" /\ Latest.eligible /\ Latest.review = "approve"

EditorialApproved == editorial = [version |-> article.version, decision |-> "approve"]

(* assertArticlePublishable *)
Publishable(version) ==
    /\ ~article.deleted /\ version = article.version
    /\ EditorialApproved /\ QualityPassed /\ article.ready

-----------------------------------------------------------------------------
(* The article. *)

(* The triggers article_version_before and _after: whatever changes the    *)
(* snapshot makes a new version and a draft of it.                         *)
NewVersion(ready) ==
    /\ article.version < MaxVersion
    /\ ArticleIs([article EXCEPT !.version = article.version + 1, !.status = "draft", !.ready = ready])

(* updateArticle with a changed text, title or plan, and the approval of   *)
(* a draft queued by regenerateArticle: both rewrite whatever is there.    *)
Edit ==
    /\ ~article.deleted
    /\ \E ready \in BOOLEAN : NewVersion(ready)
    /\ UNCHANGED <<editorial, runs, asset, channel, orders, people, upsets>>

(* updateArticle with a status: what is registered as published is         *)
(* publishable; the status may be taken back to draft or reviewing, which   *)
(* are one here, at any time.                                              *)
SetArticleStatus(status) ==
    /\ ~article.deleted /\ article.status # status
    /\ status = "published" => Publishable(article.version)
    /\ ArticleIs([article EXCEPT !.status = status])
    /\ UpsetIf(status = "draft")
    /\ UNCHANGED <<editorial, runs, asset, channel, orders, people>>

(* deleteArticle, whatever orders there are. *)
Delete ==
    /\ ~article.deleted
    /\ ArticleIs([article EXCEPT !.deleted = TRUE])
    /\ Upset
    /\ UNCHANGED <<editorial, runs, asset, channel, orders, people>>

-----------------------------------------------------------------------------
(* Quality runs. *)

(* enqueueArticleQuality: a run with the same input that has not ended is  *)
(* returned instead of a new one; only usable knowledge is taken.          *)
RequestQuality ==
    /\ ~article.deleted /\ Len(runs) < MaxRuns
    /\ \E source \in {0, asset.rev} :
        /\ Usable(source)
        /\ \A i \in DOMAIN runs : ~(/\ runs[i].version = article.version
                                    /\ runs[i].source = source
                                    /\ runs[i].status = "pending")
        /\ runs' = Append(runs, [version |-> article.version, source |-> source,
                                 status |-> "pending", eligible |-> FALSE, review |-> None])
    /\ UNCHANGED <<article, editorial, asset, channel, orders, people, upsets>>

(* runOneArticleQualityJob (module ReviewJobs): a result the validator     *)
(* found eligible or not, or a failure; a run that is no longer current    *)
(* before its call fails, one that ceases to be so later gets its result.  *)
QualityEnds(i) ==
    /\ i \in DOMAIN runs /\ runs[i].status = "pending"
    /\ \E status \in {"needs_review", "failed"}, eligible \in BOOLEAN :
        /\ status = "failed" => ~eligible
        /\ runs' = [runs EXCEPT ![i] = [runs[i] EXCEPT !.status = status, !.eligible = eligible]]
        /\ UpsetIf(~eligible)
    /\ UNCHANGED <<article, editorial, asset, channel, orders, people>>

-----------------------------------------------------------------------------
(* Reviews.  A person reviews the version and the run on the open page.    *)

(* What is said of a version, and that both reviews approved it once.      *)
Say(v, verdict) ==
    said' = [said EXCEPT ![v] = [verdict EXCEPT !.endorsed =
        verdict.endorsed \/ (verdict.text = "approve" /\ verdict.quality = "approve")]]

(* The page of an article: the current version and its newest run. *)
OpenArticle(p) ==
    /\ ~article.deleted
    /\ page' = [page EXCEPT ![p] = [version |-> article.version, run |-> Len(runs)]]
    /\ UNCHANGED <<drafting, channel, orders, form, said, upsets>>

Reload(p) == page' = [page EXCEPT ![p] = NoPage]

(* reviewArticle is about the version on the page. *)
TextReviewable(version) == ~article.deleted /\ version = article.version

ReviewText(p) ==
    /\ page[p].version # 0 /\ TextReviewable(page[p].version)
    /\ \E d \in Decisions :
        /\ editorial' = [version |-> article.version, decision |-> d]
        /\ Say(page[p].version, [said[page[p].version] EXCEPT !.text = d])
        /\ UpsetIf(d = "reject")
    /\ Reload(p)
    /\ UNCHANGED <<article, runs, asset, channel, orders, form>>

(* reviewArticleQuality: the newest run, current, with a result; only an   *)
(* eligible one can be approved.                                           *)
QualityReviewable(i, version, d) ==
    /\ ~article.deleted /\ version = article.version
    /\ i = Len(runs) /\ RunCurrent(runs[i])
    /\ runs[i].status = "needs_review"
    /\ d = "approve" => runs[i].eligible

ReviewQuality(p) ==
    /\ page[p].run # 0
    /\ LET i == page[p].run IN \E d \in Decisions :
        /\ QualityReviewable(i, page[p].version, d)
        /\ runs' = [runs EXCEPT ![i] = [runs[i] EXCEPT !.review = d]]
        /\ Say(page[p].version,
               [said[page[p].version] EXCEPT !.quality = d, !.source = runs[i].source])
        /\ UpsetIf(d = "reject")
    /\ Reload(p)
    /\ UNCHANGED <<article, editorial, asset, channel, orders, form>>

-----------------------------------------------------------------------------
(* Publication orders. *)

(* savePublicationChannel *)
SaveChannel ==
    /\ channel' = ~channel
    /\ UpsetIf(channel)
    /\ UNCHANGED <<drafting, orders, people>>

(* publication_orders_active_idx and the check for duplicates. *)
Taken(version, o) ==
    \E other \in Orders \ {o} :
        /\ orders[other].version = version
        /\ orders[other].status \notin {None, "failed", "cancelled"}

(* createPublicationOrder: the current version, approved or not. *)
CreateOrder(o) ==
    /\ orders[o].status = None
    /\ ~article.deleted /\ channel /\ ~Taken(article.version, o)
    /\ orders' = [orders EXCEPT ![o] =
          [status |-> "draft", version |-> article.version, rev |-> 1, receipts |-> 0]]
    /\ UNCHANGED <<drafting, channel, people, upsets>>

Transitions == [
    draft           |-> {"ready", "cancelled"},
    ready           |-> {"in_progress", "cancelled"},
    in_progress     |-> {"submitted", "failed", "outcome_unknown"},
    submitted       |-> {"verified", "in_progress", "outcome_unknown"},
    outcome_unknown |-> {"submitted", "failed", "in_progress"},
    failed          |-> {"ready", "cancelled"},
    verified        |-> {},
    cancelled       |-> {}]

(* preparePublication, whose assignee must still be allowed to publish. *)
Prepared(o) == Publishable(orders[o].version) /\ channel /\ ~Taken(orders[o].version, o)

(* Mutant of MoveOrder: the revision stays. *)
MoveOrderUnnoticed(o, status) ==
    orders' = [orders EXCEPT ![o] = [orders[o] EXCEPT
        !.status = status,
        !.receipts = IF status = "submitted" THEN orders[o].receipts + 1 ELSE orders[o].receipts]]

(* Every change of an order is a new revision of its row. *)
MoveOrder(o, status) ==
    orders' = [orders EXCEPT ![o] = [orders[o] EXCEPT
        !.status = status, !.rev = orders[o].rev + 1,
        !.receipts = IF status = "submitted" THEN orders[o].receipts + 1 ELSE orders[o].receipts]]

(* transitionPublication, with the revision the row has. *)
Transition(o, status) ==
    /\ orders[o].status # None /\ orders[o].rev < MaxOrderRev
    /\ status \in Transitions[orders[o].status] \ {"verified"}
    /\ status \in {"ready", "in_progress"} => Prepared(o)
    /\ MoveOrder(o, status)
    /\ UpsetIf(status \in {"failed", "cancelled", "outcome_unknown"})
    /\ UNCHANGED <<drafting, channel, people>>

(* updatePublicationAssignment *)
Reassign(o) ==
    /\ orders[o].status \in {"draft", "ready", "failed"} /\ orders[o].rev < MaxOrderRev
    /\ orders' = [orders EXCEPT ![o] = [orders[o] EXCEPT !.rev = orders[o].rev + 1]]
    /\ Upset
    /\ UNCHANGED <<drafting, channel, people>>

(* getPublicationOrder reads the row first and its receipts afterwards. *)
OpenOrder(p) ==
    /\ \E o \in Orders :
        /\ orders[o].status = "submitted"
        /\ form' = [form EXCEPT ![p] = [order |-> o, rev |-> orders[o].rev, receipts |-> 0, loaded |-> FALSE]]
    /\ UNCHANGED <<drafting, channel, orders, page, said, upsets>>

LoadReceipts(p) ==
    /\ form[p].order # None /\ ~form[p].loaded
    /\ form' = [form EXCEPT ![p] =
          [form[p] EXCEPT !.receipts = orders[form[p].order].receipts, !.loaded = TRUE]]
    /\ UNCHANGED <<drafting, channel, orders, page, said, upsets>>

(* transitionPublication to verified: the newest receipt confirms the      *)
(* delivery, and the article is published if it still is that version.     *)
Verifiable(o, rev) == orders[o].rev = rev /\ "verified" \in Transitions[orders[o].status]

(* Mutant of DeliversArticle: without AND version=$3. *)
DeliversAnyVersion(o) == ~article.deleted

DeliversArticle(o) == article.version = orders[o].version /\ ~article.deleted

Verify(p) ==
    /\ form[p].loaded
    /\ LET o == form[p].order IN
        /\ Verifiable(o, form[p].rev) /\ orders[o].rev < MaxOrderRev
        /\ MoveOrder(o, "verified")
        /\ IF DeliversArticle(o) THEN ArticleIs([article EXCEPT !.status = "published"])
                                 ELSE UNCHANGED article
    /\ form' = [form EXCEPT ![p] = NoForm]
    /\ UNCHANGED <<editorial, runs, asset, channel, page, said, upsets>>

-----------------------------------------------------------------------------
Next ==
    \/ SaveKnowledge \/ ReviewKnowledge \/ KnowledgeExpires
    \/ Edit \/ Delete
    \/ \E status \in {"draft", "published"} : SetArticleStatus(status)
    \/ RequestQuality \/ \E i \in 1..MaxRuns : QualityEnds(i)
    \/ \E p \in People : OpenArticle(p) \/ ReviewText(p) \/ ReviewQuality(p)
    \/ SaveChannel
    \/ \E o \in Orders : CreateOrder(o) \/ Reassign(o)
    \/ \E o \in Orders, status \in DOMAIN Transitions : Transition(o, status)
    \/ \E p \in People : OpenOrder(p) \/ LoadReceipts(p) \/ Verify(p)

Spec == Init /\ [][Next]_vars

-----------------------------------------------------------------------------
(* The types of the rows; a version is numbered once per change.           *)
TypeOK ==
    /\ article \in [version : Versions, status : {"draft", "published"},
                    deleted : BOOLEAN, ready : BOOLEAN]
    /\ editorial \in [version : 0..MaxVersion, decision : Decisions \cup {None}]
    /\ runs \in Seq([version : Versions, source : 0..MaxKnowledge,
                     status : {"pending", "needs_review", "failed"},
                     eligible : BOOLEAN, review : Decisions \cup {None}])
    /\ asset \in [rev : 1..MaxKnowledge, status : {"draft", "approved", "archived"}, fresh : BOOLEAN]
    /\ channel \in BOOLEAN
    /\ orders \in [Orders -> [status : DOMAIN Transitions \cup {None}, version : 0..MaxVersion,
                              rev : 0..MaxOrderRev, receipts : Nat]]
    /\ page \in [People -> [version : 0..MaxVersion, run : 0..MaxRuns]]
    /\ form \in [People -> [order : Orders \cup {None}, rev : 0..MaxOrderRev,
                            receipts : Nat, loaded : BOOLEAN]]
    /\ said \in [Versions -> [text : Decisions \cup {None}, quality : Decisions \cup {None},
                              source : 0..MaxKnowledge, endorsed : BOOLEAN]]
    /\ upsets \in 0..MaxUpsets

(* What is published, and what an order has been prepared, started,        *)
(* submitted or verified for, is a version that persons who had that       *)
(* version on their page approved both ways: an edit between two reviews,  *)
(* between a review and an order, or between a receipt and its             *)
(* verification never lends its approval to another text.                  *)
DeliveredWasEndorsed ==
    /\ article.status = "published" => said[article.version].endorsed
    /\ \A o \in Orders :
          orders[o].status \in {"ready", "in_progress", "submitted", "outcome_unknown", "verified"}
              => said[orders[o].version].endorsed

(* The moment an order is prepared or (re)started its version is the       *)
(* current one, what was last said of it is approval, and the knowledge    *)
(* that was checked has neither expired nor been edited or withdrawn.      *)
StartsAreCurrent == [][
    \A o \in Orders :
        (orders'[o].status \in {"ready", "in_progress"} /\ orders'[o].status # orders[o].status)
            => LET verdict == said[orders[o].version] IN
                /\ orders[o].version = article.version /\ ~article.deleted
                /\ verdict.text = "approve" /\ verdict.quality = "approve"
                /\ Usable(verdict.source)]_vars

(* Who verifies a delivery had its newest receipt on the page, although    *)
(* the page is loaded by several queries and the order may be started and  *)
(* submitted again meanwhile.                                              *)
VerifiedAsShown == [][
    \A o \in Orders :
        (orders[o].status # "verified" /\ orders'[o].status = "verified")
            => \E p \in People : form[p].order = o /\ form[p].receipts = orders[o].receipts]_vars
=============================================================================
