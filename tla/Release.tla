------------------------------ MODULE Release ------------------------------
(***************************************************************************)
(* What lets a publication go out: the review and approval of one content  *)
(* revision, the brand changes that overtake it, one publishing mandate    *)
(* with its daily quota, and evaluateRelease, which every publication of   *)
(* the revision passes when it is scheduled, when the brand changes and    *)
(* again when it is dispatched.  Publication models the dispatch itself.   *)
(***************************************************************************)
EXTENDS Naturals, FiniteSets

CONSTANTS
  Targets,       \* channels and websites the revision has a variant for
  Pubs,          \* bound: publications of the revision
  Quota,         \* the mandate's maxPostsPerDay
  MaxDays,       \* bound: days that pass
  MaxChanges,    \* bound: edits, brand versions and policies, all together
  Scopes         \* bounds of a behaviour: it has the changes, releases (times a
                 \* person schedules anew) and publications of one of them

ScopeRows == [changes : 0..MaxChanges, releases : Nat, approval : Nat, mandate : Nat]

ASSUME ReleaseAssumption ==
  /\ IsFiniteSet(Targets) /\ Targets # {}
  /\ IsFiniteSet(Pubs)
  /\ Quota \in Nat \ {0} /\ MaxDays \in Nat \ {0}
  /\ MaxChanges \in Nat
  /\ Scopes \subseteq ScopeRows /\ Scopes # {}

VARIABLES
  live,          \* text, published brand version and active policy, as they are
  revision,      \* content_revisions.state
  editing,       \* a variant edit that has checked the revision's state
  request,       \* review_requests.state of the newest request
  frozen,        \* what its manifest froze
  approval,      \* release_approvals.state
  bound,         \* what its binding hash covers
  impact,        \* brandChangeImpactWorkflowV1 of each published version
  mandate,       \* publishing_mandates.state
  pub,           \* publications
  seen,          \* targets the transaction that marks it published has counted
  scope, today, releases,
  posted,        \* history: publications with a post
  sentOn,        \* history: the day of the post
  before         \* history: <<p, q>>, p was recorded when q was claimed

reviewVars == <<live, revision, editing, request, frozen, approval, bound>>
pubVars == <<pub, seen, posted, sentOn, before>>
limitVars == <<scope, today, releases>>
vars == <<reviewVars, impact, mandate, pubVars, limitVars>>

Numbers == 1..(MaxChanges + 1)
Days == 1..MaxDays
Content == [text : Numbers, version : Numbers, policy : Numbers]
Written == [text |-> 1, version |-> 1, policy |-> 1]

Released == {"published", "removed"}
PubStates == {"none", "scheduled", "dispatching", "cleared", "sent", "recording",
              "published", "removed", "failed", "held", "cancelled"}
PubRows == [state : PubStates, target : Targets, by : {"approval", "mandate"},
            day : Days]

TypeOK ==
  /\ live \in Content
  /\ revision \in {"draft", "in_review", "changes_requested", "approved", "superseded"}
  /\ editing \in BOOLEAN
  /\ request \in {"none", "open", "stale", "decided"}
  /\ frozen \in Content
  /\ approval \in {"none", "valid", "consumed", "invalidated"}
  /\ bound \in Content
  /\ impact \in [Numbers -> {"none", "invalidate", "reevaluate", "done"}]
  /\ mandate \in {"active", "paused", "revoked"}
  /\ pub \in [Pubs -> PubRows]
  /\ seen \in [Pubs -> SUBSET Targets]
  /\ scope \in Scopes
  /\ today \in Days /\ releases \in Nat
  /\ posted \subseteq Pubs
  /\ sentOn \in [Pubs -> Days]
  /\ before \subseteq Pubs \X Pubs

Init ==
  /\ live = Written /\ revision = "draft" /\ editing = FALSE
  /\ request = "none" /\ frozen = Written
  /\ approval = "none" /\ bound = Written
  /\ impact = [n \in Numbers |-> "none"]
  /\ mandate = "active"
  /\ \E t \in Targets :
       pub = [p \in Pubs |-> [state |-> "none", target |-> t, by |-> "approval",
                              day |-> 1]]
  /\ seen = [p \in Pubs |-> {}]
  /\ scope \in Scopes /\ today = 1 /\ releases = 0
  /\ posted = {} /\ sentOn = [p \in Pubs |-> 1] /\ before = {}

-----------------------------------------------------------------------------
(* The revision, its review and the brand *)

MayChange == live.text + live.version + live.policy < 3 + scope.changes

\* channelVariants.update checks the state of the revision, and writes later.
BeginEdit ==
  /\ revision \in {"draft", "changes_requested"} /\ ~editing
  /\ MayChange
  /\ editing' = TRUE
  /\ UNCHANGED <<live, revision, request, frozen, approval, bound, impact, mandate,
                 pubVars, limitVars>>

\* Its transaction saw neither a request nor an approval that it could stale.
CommitEdit ==
  /\ editing /\ editing' = FALSE /\ MayChange
  /\ live' = [live EXCEPT !.text = @ + 1]
  /\ UNCHANGED <<revision, request, frozen, approval, bound, impact, mandate, pubVars,
                 limitVars>>

\* The revision must be written against the brand as it is, and its manifest
\* names the brand version and the policy of the revision.
RequestReview ==
  /\ revision \in {"draft", "changes_requested"} /\ request # "open"
  /\ live.version = Written.version /\ live.policy = Written.policy
  /\ request' = "open" /\ frozen' = live /\ revision' = "in_review"
  /\ UNCHANGED <<live, editing, approval, bound, impact, mandate, pubVars, limitVars>>

\* Mutant: the package is not compared with what the reviewer saw.
AsFrozenAlways == TRUE

\* The manifest of now, of which the brand's part is the revision's own.
AsFrozen == live.text = frozen.text

Approve ==
  /\ request = "open" /\ revision = "in_review" /\ AsFrozen
  /\ request' = "decided" /\ revision' = "approved"
  /\ approval' = "valid" /\ bound' = live
  /\ UNCHANGED <<live, editing, frozen, impact, mandate, pubVars, limitVars>>

RequestChanges ==
  /\ request = "open" /\ revision = "in_review" /\ AsFrozen
  /\ request' = "decided" /\ revision' = "changes_requested"
  /\ UNCHANGED <<live, editing, frozen, approval, bound, impact, mandate, pubVars,
                 limitVars>>

StaleRequest == request' = IF request = "open" THEN "stale" ELSE request

\* packages.revise: an approval keeps binding the revision it was granted on.
Revise ==
  /\ revision # "superseded" /\ revision' = "superseded"
  /\ StaleRequest
  /\ UNCHANGED <<live, editing, frozen, approval, bound, impact, mandate, pubVars,
                 limitVars>>

PublishBrandVersion ==
  /\ MayChange
  /\ live' = [live EXCEPT !.version = @ + 1]
  /\ impact' = [impact EXCEPT ![live.version + 1] = "invalidate"]
  /\ UNCHANGED <<revision, editing, request, frozen, approval, bound, mandate, pubVars,
                 limitVars>>

ActivatePolicy ==
  /\ MayChange
  /\ live' = [live EXCEPT !.policy = @ + 1]
  /\ UNCHANGED <<revision, editing, request, frozen, approval, bound, impact, mandate,
                 pubVars, limitVars>>

\* Mutant: the approval is left to the release check.
InvalidateApprovalsRequests(n) ==
  /\ impact[n] = "invalidate"
  /\ impact' = [impact EXCEPT ![n] = "reevaluate"]
  /\ StaleRequest
  /\ UNCHANGED <<live, revision, editing, frozen, approval, bound, mandate, pubVars,
                 limitVars>>

InvalidateApprovals(n) ==
  /\ impact[n] = "invalidate"
  /\ impact' = [impact EXCEPT ![n] = "reevaluate"]
  /\ approval' = IF approval = "valid" THEN "invalidated" ELSE approval
  /\ StaleRequest
  /\ UNCHANGED <<live, revision, editing, frozen, bound, mandate, pubVars, limitVars>>

MandateChanges ==
  /\ mandate # "revoked"
  /\ mandate' \in {"paused", "revoked"} \ {mandate}
  /\ UNCHANGED <<reviewVars, impact, pubVars, limitVars>>

-----------------------------------------------------------------------------
(* evaluateRelease *)

\* Mutant: only what is already out counts.
PostedOnDay(d) ==
  Cardinality({p \in Pubs : /\ pub[p].by = "mandate" /\ pub[p].day = d
                            /\ pub[p].state \in Released})

\* countForMandateOnDay: every row of the day but the cancelled ones.
CountOnDay(d) ==
  Cardinality({p \in Pubs : /\ pub[p].by = "mandate" /\ pub[p].day = d
                            /\ pub[p].state \notin {"none", "cancelled"}})

\* Mutant: a post that was removed frees its target.
SpentPublished(t, p) ==
  \E q \in Pubs \ {p} : /\ pub[q].by = "approval" /\ pub[q].target = t
                        /\ pub[q].state = "published"

\* publishedElsewhereForApprovalChannel
Spent(t, p) ==
  \E q \in Pubs \ {p} : /\ pub[q].by = "approval" /\ pub[q].target = t
                        /\ pub[q].state \in Released

Passes(p, by, t, d) ==
  IF by = "approval"
    THEN approval = "valid" /\ ~Spent(t, p) /\ bound = live
    ELSE mandate = "active" /\ CountOnDay(d) < Quota

\* The checks of targets, assets, facts and authority may fail one that passes.
Reevaluate(n) ==
  /\ impact[n] = "reevaluate"
  /\ impact' = [impact EXCEPT ![n] = "done"]
  /\ \E alsoHeld \in SUBSET {p \in Pubs : pub[p].state = "scheduled"} :
       pub' = [p \in Pubs |->
                 IF /\ pub[p].state = "scheduled"
                    /\ \/ ~Passes(p, pub[p].by, pub[p].target, pub[p].day)
                       \/ p \in alsoHeld
                   THEN [pub[p] EXCEPT !.state = "held"]
                   ELSE pub[p]]
  /\ UNCHANGED <<reviewVars, mandate, seen, posted, sentOn, before, limitVars>>

-----------------------------------------------------------------------------
(* Publications *)

Moves(p, to) == pub' = [pub EXCEPT ![p].state = to]

Under(by) == {p \in Pubs : pub[p].by = by /\ pub[p].state # "none"}

\* The check is made for the day it is scheduled for, on a row not there yet.
Schedule(p, by, t, d) ==
  /\ pub[p].state = "none" /\ d >= today
  /\ Cardinality(Under(by)) < scope[by]
  /\ Passes(p, by, t, d)
  /\ pub' = [pub EXCEPT ![p] = [state |-> "scheduled", target |-> t, by |-> by,
                                day |-> d]]
  /\ UNCHANGED <<reviewVars, impact, mandate, seen, posted, sentOn, before, limitVars>>

\* reschedule of a scheduled, held or retry_eligible row: no check before its
\* dispatch.  What was proven absent is "held" here too.
Reschedule(p, d) ==
  /\ pub[p].state \in {"scheduled", "held"} /\ p \notin posted
  /\ d >= today /\ releases < scope.releases /\ releases' = releases + 1
  /\ pub' = [pub EXCEPT ![p].state = "scheduled", ![p].day = d]
  /\ UNCHANGED <<reviewVars, impact, mandate, seen, posted, sentOn, before, scope, today>>

CancelPub(p) ==
  /\ pub[p].state \in {"scheduled", "held"}
  /\ Moves(p, "cancelled")
  /\ UNCHANGED <<reviewVars, impact, mandate, seen, posted, sentOn, before, limitVars>>

Claim(p) ==
  /\ pub[p].state = "scheduled" /\ pub[p].day <= today
  /\ Moves(p, "dispatching")
  /\ before' = before \cup
       {<<q, p>> : q \in {q \in Pubs \ {p} :
                            /\ pub[q].by = "approval" /\ pub[p].by = "approval"
                            /\ pub[q].target = pub[p].target
                            /\ pub[q].state \in Released}}
  /\ UNCHANGED <<reviewVars, impact, mandate, seen, posted, sentOn, limitVars>>

Check(p) ==
  /\ pub[p].state = "dispatching"
  /\ \/ /\ Passes(p, pub[p].by, pub[p].target, today)
        /\ Moves(p, "cleared")
     \/ Moves(p, "held")
  /\ UNCHANGED <<reviewVars, impact, mandate, seen, posted, sentOn, before, limitVars>>

\* An error proven to be before the send: again after a backoff or what the
\* platform asks for, or held when the retries are spent.
Retry(p) ==
  /\ pub[p].state = "cleared"
  /\ \/ \E d \in today..MaxDays :
          pub' = [pub EXCEPT ![p].state = "scheduled", ![p].day = d]
     \/ Moves(p, "held")
  /\ UNCHANGED <<reviewVars, impact, mandate, seen, posted, sentOn, before, limitVars>>

\* The platform accepts the post, rejects it, or nobody knows.
Send(p) ==
  /\ pub[p].state = "cleared"
  /\ \/ /\ Moves(p, "sent")
        /\ posted' = posted \cup {p} /\ sentOn' = [sentOn EXCEPT ![p] = today]
     \/ Moves(p, "sent") /\ UNCHANGED <<posted, sentOn>>
     \/ Moves(p, "failed") /\ UNCHANGED <<posted, sentOn>>
  /\ UNCHANGED <<reviewVars, impact, mandate, seen, before, limitVars>>

\* The answer is that the post is there, or reconciliation or a person finds
\* it; the transaction reads the targets that are out, and commits later.
BeginRecord(p) ==
  /\ pub[p].state = "sent" /\ p \in posted
  /\ Moves(p, "recording")
  /\ seen' = [seen EXCEPT ![p] =
       {pub[p].target} \cup {pub[q].target : q \in
          {q \in Pubs : pub[q].by = "approval" /\ pub[q].state \in Released}}]
  /\ UNCHANGED <<reviewVars, impact, mandate, posted, sentOn, before, limitVars>>

\* Mutant: the approval is spent with its first post.
AllOutFirst(p) == TRUE

\* Every target of the binding is among those the transaction has read.
AllOut(p) == Targets \subseteq seen[p]

CommitRecord(p) ==
  /\ pub[p].state = "recording"
  /\ Moves(p, "published")
  /\ approval' = IF pub[p].by = "approval" /\ approval = "valid" /\ AllOut(p)
                   THEN "consumed" ELSE approval
  /\ seen' = [seen EXCEPT ![p] = {}]
  /\ UNCHANGED <<live, revision, editing, request, frozen, bound, impact, mandate,
                 posted, sentOn, before, limitVars>>

\* Reconciliation gives up, or proves that there is no post.
GiveUp(p) ==
  /\ pub[p].state = "sent"
  /\ Moves(p, "held")
  /\ UNCHANGED <<reviewVars, impact, mandate, seen, posted, sentOn, before, limitVars>>

Remove(p) ==
  /\ pub[p].state = "published"
  /\ Moves(p, "removed")
  /\ UNCHANGED <<reviewVars, impact, mandate, seen, posted, sentOn, before, limitVars>>

Tomorrow ==
  /\ today < MaxDays /\ today' = today + 1
  /\ UNCHANGED <<reviewVars, impact, mandate, pubVars, scope, releases>>

-----------------------------------------------------------------------------

Review == RequestReview \/ Approve \/ RequestChanges
Edits == BeginEdit \/ CommitEdit \/ Revise
Impact(n) == InvalidateApprovals(n) \/ Reevaluate(n)
Dispatch(p) == Claim(p) \/ Check(p) \/ Retry(p) \/ Send(p) \/ BeginRecord(p)
               \/ CommitRecord(p) \/ GiveUp(p)

Next ==
  \/ Review \/ Edits \/ PublishBrandVersion \/ ActivatePolicy
  \/ \E n \in Numbers : Impact(n)
  \/ MandateChanges
  \/ \E p \in Pubs, by \in {"approval", "mandate"}, t \in Targets, d \in Days :
       Schedule(p, by, t, d)
  \/ \E p \in Pubs, d \in Days : Reschedule(p, d)
  \/ \E p \in Pubs : CancelPub(p) \/ Dispatch(p) \/ Remove(p)
  \/ Tomorrow

Spec == Init /\ [][Next]_vars

-----------------------------------------------------------------------------
(* Properties *)

\* An approval is spent only once a publication of every target is out, with
\* publications of several targets recorded at the same time.
ConsumedWhenAllOut ==
  approval = "consumed" =>
    \A t \in Targets : \E p \in Pubs :
      pub[p].by = "approval" /\ pub[p].target = t /\ pub[p].state \in Released

\* Once a post of a target is on the record, no publication claimed after it
\* posts to that target under the approval, not even when the post is removed.
OncePerTarget == \A p \in Pubs : \A q \in posted : <<p, q>> \notin before

\* Of the mandate's rows scheduled for one day, no more than the quota post on
\* that day, whatever is moved, held or retried, although each counts before it
\* posts and without a lock.  A row that posts on a later day, and one that is
\* cancelled after its outcome was given up, do not count in the code either.
PostsOfDay(d) ==
  {p \in posted : /\ pub[p].by = "mandate" /\ pub[p].day = d /\ sentOn[p] = d
                  /\ pub[p].state # "cancelled"}
QuotaKept == \A d \in Days : Cardinality(PostsOfDay(d)) <= Quota

\* An approval covers the text its reviewer saw, with an edit of the variant
\* that had passed its check before the review was requested.
TextIsReviewed == approval # "none" => bound.text = frozen.text

\* An approval of an earlier brand version does not stay valid: neither one that
\* was granted before the brand changed, nor one that is granted while the
\* change is on its way to the approvals.
OutdatedIsInvalidated ==
  (\A n \in 2..live.version : impact[n] # "invalidate") /\ approval = "valid"
    => bound.version = live.version

=============================================================================
