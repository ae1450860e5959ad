--------------------------- MODULE ReleaseProofs ---------------------------
(***************************************************************************)
(* Theorems about Release, for any number of targets, publications, days   *)
(* and changes, and every quota.                                           *)
(***************************************************************************)
EXTENDS Release, FiniteSetTheorems, TLAPS

Out == {"sent", "recording"} \cup Released

\* An approval was granted on a revision that is not edited any more.
Reviewed ==
  /\ approval # "none" => revision \in {"approved", "superseded"}
  /\ TextIsReviewed

\* What a recording transaction has counted is out, or is its own target.
SeenIsOut ==
  \A p \in Pubs : pub[p].state = "recording" =>
    \A t \in seen[p] :
      \/ t = pub[p].target
      \/ \E q \in Pubs :
           pub[q].by = "approval" /\ pub[q].target = t /\ pub[q].state \in Released

\* A row that is not sent has no post; and one that was claimed after its target
\* was on the record is not sent.
NotSent == {"none", "scheduled", "dispatching", "cleared"}
PostsFollow == \A p \in Pubs : pub[p].state \in NotSent => p \notin posted
ClaimedLate ==
  \A p, q \in Pubs : <<p, q>> \in before =>
    /\ p # q
    /\ pub[p].by = "approval" /\ pub[p].state \in Released
    /\ pub[q].by = "approval" /\ pub[q].target = pub[p].target
    /\ pub[q].state \in {"scheduled", "dispatching", "held", "cancelled"}
    /\ q \notin posted

\* A row is claimed on its day or later, and what has passed the check on its
\* day counts like what has posted on it, held or not.
DueIsPast ==
  \A p \in Pubs :
    pub[p].state \in {"dispatching", "cleared"} => pub[p].day <= today
OnDay(d) ==
  {p \in Pubs :
     /\ pub[p].by = "mandate" /\ pub[p].day = d
     /\ \/ pub[p].state = "cleared" /\ today = d
        \/ p \in posted /\ sentOn[p] = d /\ pub[p].state # "cancelled"}
CountedOnDay(d) ==
  {p \in Pubs : /\ pub[p].by = "mandate" /\ pub[p].day = d
                /\ pub[p].state \notin {"none", "cancelled"}}
WithinQuota == \A d \in Days : Cardinality(OnDay(d)) < Quota

ReviewInv == Reviewed /\ OutdatedIsInvalidated
PubInv ==
  /\ SeenIsOut /\ ConsumedWhenAllOut
  /\ PostsFollow /\ ClaimedLate
  /\ DueIsPast /\ WithinQuota

-----------------------------------------------------------------------------
(* The revision, its review and the brand *)

\* Everything starts with a draft and no publication.
LEMMA ReleaseInit == Init => TypeOK /\ ReviewInv /\ PubInv
<1> SUFFICES ASSUME Init PROVE TypeOK /\ ReviewInv /\ PubInv
  OBVIOUS
<1> USE ReleaseAssumption DEF ReleaseAssumption
<1>1. 1 \in Numbers /\ 1 \in Days /\ Written \in Content
  BY DEF Numbers, Days, Written, Content
<1>2. pub \in [Pubs -> PubRows] /\ \A p \in Pubs : pub[p].state = "none"
  BY <1>1 DEF Init, PubRows, PubStates
<1>3. TypeOK
  <2>1. editing \in BOOLEAN /\ releases \in Nat /\ scope \in Scopes
    <3>1. editing \in BOOLEAN
      BY Zenon DEF Init
    <3>2. releases \in Nat /\ scope \in Scopes
      BY DEF Init
    <3> QED
      BY <3>1, <3>2
  <2>2. impact \in [Numbers -> {"none", "invalidate", "reevaluate", "done"}]
    <3>1. impact = [n \in Numbers |-> "none"]
      BY DEF Init
    <3> QED
      BY <3>1
  <2>3. seen \in [Pubs -> SUBSET Targets] /\ sentOn \in [Pubs -> Days]
    BY <1>1 DEF Init
  <2>4. today \in Days /\ posted \subseteq Pubs /\ before \subseteq Pubs \X Pubs
    BY <1>1 DEF Init
  <2>5. /\ live \in Content /\ frozen \in Content /\ bound \in Content
        /\ revision = "draft" /\ request = "none" /\ approval = "none"
        /\ mandate = "active"
    BY <1>1 DEF Init
  <2> QED
    BY <1>2, <2>1, <2>2, <2>3, <2>4, <2>5 DEF TypeOK
<1>4. ReviewInv
  BY DEF Init, ReviewInv, Reviewed, TextIsReviewed, OutdatedIsInvalidated, Written
<1>5. \A d \in Days : OnDay(d) = {}
  BY <1>2 DEF OnDay, Init
<1>6. WithinQuota
  <2>1. Cardinality({}) = 0 /\ 0 < Quota
    BY FS_EmptySet
  <2> QED
    BY <1>5, <2>1 DEF WithinQuota
<1> QED
  BY <1>2, <1>3, <1>4, <1>6
     DEF Init, PubInv, SeenIsOut, ConsumedWhenAllOut, PostsFollow, ClaimedLate,
         DueIsPast

\* A step of people, of the brand or of the calendar.
Human == Review \/ Edits \/ PublishBrandVersion \/ ActivatePolicy \/ MandateChanges
         \/ Tomorrow \/ \E n \in Numbers : InvalidateApprovals(n)

LEMMA HumanType ==
  ASSUME TypeOK, Human
  PROVE  TypeOK'
<1> USE ReleaseAssumption
    DEF ReleaseAssumption, TypeOK, reviewVars, pubVars, limitVars
<1>1. CASE Review
  BY <1>1 DEF Review, RequestReview, Approve, RequestChanges
<1>2. /\ live.text \in Nat /\ live.text >= 1
      /\ live.version \in Nat /\ live.version >= 1
      /\ live.policy \in Nat /\ live.policy >= 1
      /\ live \in Content
  BY DEF Content, Numbers
<1>3. ASSUME MayChange
      PROVE  /\ [live EXCEPT !.text = @ + 1] \in Content
             /\ [live EXCEPT !.version = @ + 1] \in Content
             /\ [live EXCEPT !.policy = @ + 1] \in Content
             /\ live.version + 1 \in Numbers
  <2>1. scope.changes \in Nat /\ scope.changes <= MaxChanges /\ MaxChanges \in Nat
    BY DEF ScopeRows
  <2>2. live.text + live.version + live.policy < 3 + scope.changes
    BY <1>3 DEF MayChange
  <2> HIDE DEF TypeOK, ReleaseAssumption
  <2>3. /\ live.text + 1 \in Numbers /\ live.version + 1 \in Numbers
        /\ live.policy + 1 \in Numbers
    BY <1>2, <2>1, <2>2 DEF Numbers
  <2> QED
    BY <1>2, <2>3 DEF Content
<1>4. CASE Edits
  BY <1>3, <1>4 DEF Edits, BeginEdit, CommitEdit, Revise, StaleRequest
<1>5. CASE PublishBrandVersion
  BY <1>3, <1>5 DEF PublishBrandVersion
<1>6. CASE ActivatePolicy
  BY <1>3, <1>6 DEF ActivatePolicy
<1>7. CASE MandateChanges
  BY <1>7 DEF MandateChanges
<1>8. CASE Tomorrow
  <2>1. today + 1 \in Days
    BY <1>8 DEF Tomorrow, Days
  <2> QED
    BY <1>8, <2>1 DEF Tomorrow
<1>9. ASSUME NEW n \in Numbers, InvalidateApprovals(n) PROVE TypeOK'
  BY <1>9 DEF InvalidateApprovals, StaleRequest
<1> QED
  BY <1>1, <1>4, <1>5, <1>6, <1>7, <1>8, <1>9 DEF Human

\* An approval binds the text of its manifest, which is frozen anew only while
\* there is no approval; and a brand change reaches every approval before it is
\* counted as handled.
LEMMA HumanReview ==
  ASSUME TypeOK, ReviewInv, Human
  PROVE  ReviewInv'
<1> USE DEF ReviewInv, Reviewed, TextIsReviewed, OutdatedIsInvalidated,
            reviewVars, pubVars, limitVars
<1>0. /\ live.version \in Nat /\ live.version >= 1
      /\ impact \in [Numbers -> {"none", "invalidate", "reevaluate", "done"}]
      /\ live \in Content
  BY DEF TypeOK, Content, Numbers
<1>1. CASE Review
  BY <1>0, <1>1 DEF Review, RequestReview, Approve, RequestChanges, AsFrozen
<1>2. CASE Edits
  <2>1. live'.version = live.version
    BY <1>0, <1>2 DEF Edits, BeginEdit, CommitEdit, Revise, Content
  <2> QED
    BY <1>0, <1>2, <2>1 DEF Edits, BeginEdit, CommitEdit, Revise
<1>3. CASE PublishBrandVersion
  <2>1. live.version + 1 \in Numbers /\ live'.version = live.version + 1
    <3>1. scope.changes \in 0..MaxChanges
      BY ReleaseAssumption DEF TypeOK, ReleaseAssumption, ScopeRows
    <3> QED
      BY <1>0, <1>3, <3>1, ReleaseAssumption
         DEF PublishBrandVersion, MayChange, Content, Numbers, ReleaseAssumption
  <2>2. live'.version \in 2..live'.version /\ impact'[live'.version] = "invalidate"
    BY <1>0, <1>3, <2>1 DEF PublishBrandVersion
  <2> QED
    BY <1>3, <2>2 DEF PublishBrandVersion
<1>4. CASE ActivatePolicy
  <2>1. live'.version = live.version
    BY <1>0, <1>4 DEF ActivatePolicy, Content
  <2> QED
    BY <1>4, <2>1 DEF ActivatePolicy
<1>5. CASE MandateChanges
  BY <1>5 DEF MandateChanges
<1>6. CASE Tomorrow
  BY <1>6 DEF Tomorrow
<1>7. ASSUME NEW n \in Numbers, InvalidateApprovals(n) PROVE ReviewInv'
  BY <1>7 DEF InvalidateApprovals
<1> QED
  BY <1>1, <1>2, <1>3, <1>4, <1>5, <1>6, <1>7 DEF Human

\* None of these steps touches a publication.
LEMMA HumanPub ==
  ASSUME TypeOK, PubInv, Human
  PROVE  PubInv'
<1> USE DEF reviewVars, pubVars, limitVars
<1>1. UNCHANGED pubVars
  BY DEF Human, Review, RequestReview, Approve, RequestChanges, Edits, BeginEdit,
         CommitEdit, Revise, PublishBrandVersion, ActivatePolicy, MandateChanges,
         Tomorrow, InvalidateApprovals
<1>2. approval' = "consumed" => approval = "consumed"
  BY DEF Human, Review, RequestReview, Approve, RequestChanges, Edits, BeginEdit,
         CommitEdit, Revise, PublishBrandVersion, ActivatePolicy, MandateChanges,
         Tomorrow, InvalidateApprovals
<1>3. today' = today \/ (today' = today + 1)
  BY DEF Human, Review, RequestReview, Approve, RequestChanges, Edits, BeginEdit,
         CommitEdit, Revise, PublishBrandVersion, ActivatePolicy, MandateChanges,
         Tomorrow, InvalidateApprovals
<1>4. SeenIsOut' /\ ConsumedWhenAllOut' /\ PostsFollow' /\ ClaimedLate'
  BY <1>1, <1>2
     DEF PubInv, SeenIsOut, ConsumedWhenAllOut, PostsFollow, ClaimedLate
<1>5. today \in Nat /\ \A p \in Pubs : pub[p].day \in Nat
  BY DEF TypeOK, Days, PubRows
<1>6. DueIsPast'
  BY <1>1, <1>3, <1>5 DEF PubInv, DueIsPast
<1>7. ASSUME NEW d \in Days PROVE Cardinality(OnDay(d)') < Quota
  <2>1. OnDay(d)' \subseteq OnDay(d)
    BY <1>1, <1>3, <1>5 DEF PubInv, DueIsPast, OnDay
  <2>2. IsFiniteSet(OnDay(d))
    BY FS_Subset, ReleaseAssumption DEF OnDay, ReleaseAssumption
  <2>3. Cardinality(OnDay(d)') <= Cardinality(OnDay(d))
    BY <2>1, <2>2, FS_Subset
  <2>4. Cardinality(OnDay(d)) < Quota
    BY DEF PubInv, WithinQuota
  <2>5. IsFiniteSet(OnDay(d)')
    BY <2>1, <2>2, FS_Subset
  <2>6. Cardinality(OnDay(d)) \in Nat /\ Cardinality(OnDay(d)') \in Nat /\ Quota \in Nat
    BY <2>2, <2>5, FS_CardinalityType, ReleaseAssumption DEF ReleaseAssumption
  <2> QED
    BY <2>3, <2>4, <2>6
<1> QED
  BY <1>4, <1>6, <1>7 DEF PubInv, WithinQuota

-----------------------------------------------------------------------------
(* The publications *)

\* A step of one publication; every other step of a publication is of this form.
Becomes(p, to) ==
  /\ pub' \in [Pubs -> PubRows]
  /\ pub'[p].state = to
  /\ pub'[p].by = pub[p].by /\ pub'[p].target = pub[p].target
  /\ pub'[p].day = pub[p].day
  /\ \A q \in Pubs \ {p} : pub'[q] = pub[q]

LEMMA MovesBecomes ==
  ASSUME TypeOK, NEW p \in Pubs, NEW to \in PubStates, Moves(p, to)
  PROVE  Becomes(p, to)
BY DEF TypeOK, Moves, Becomes, PubRows

\* Cardinalities of a day's publications compare when the sets do.
LEMMA OnDayBound ==
  ASSUME NEW S \in SUBSET Pubs, NEW T \in SUBSET Pubs, S \subseteq T,
         Cardinality(T) < Quota
  PROVE  Cardinality(S) < Quota
<1>1. IsFiniteSet(T) /\ IsFiniteSet(S)
  BY FS_Subset, ReleaseAssumption DEF ReleaseAssumption
<1>2. Cardinality(S) <= Cardinality(T)
  BY <1>1, FS_Subset
<1>3. Cardinality(S) \in Nat /\ Cardinality(T) \in Nat /\ Quota \in Nat
  BY <1>1, FS_CardinalityType, ReleaseAssumption DEF ReleaseAssumption
<1> QED
  BY <1>2, <1>3

\* What is out stays out, whatever happens to other publications.
LEMMA QuotaStays ==
  ASSUME WithinQuota, \A d \in Days : OnDay(d)' \subseteq OnDay(d)
  PROVE  WithinQuota'
<1>1. ASSUME NEW d \in Days PROVE Cardinality(OnDay(d)') < Quota
  <2>1. OnDay(d) \in SUBSET Pubs /\ OnDay(d)' \in SUBSET Pubs
    BY DEF OnDay
  <2> QED
    BY <2>1, OnDayBound DEF WithinQuota
<1> QED
  BY <1>1 DEF WithinQuota

\* A check that passes under the mandate finds room for what passed before it.
LEMMA QuotaChecked ==
  ASSUME TypeOK, WithinQuota, PostsFollow,
         NEW p \in Pubs, pub[p].state = "dispatching", p \notin posted,
         Passes(p, pub[p].by, pub[p].target, today), Becomes(p, "cleared"),
         UNCHANGED <<posted, sentOn, today>>
  PROVE  WithinQuota'
<1>1. ASSUME NEW d \in Days, ~(pub[p].by = "mandate" /\ pub[p].day = d /\ today = d)
      PROVE  Cardinality(OnDay(d)') < Quota
  <2>1. OnDay(d)' \subseteq OnDay(d)
    BY <1>1 DEF OnDay, Becomes
  <2>2. OnDay(d) \in SUBSET Pubs /\ OnDay(d)' \in SUBSET Pubs
    BY DEF OnDay
  <2> QED
    BY <2>1, <2>2, OnDayBound DEF WithinQuota
<1>2. ASSUME NEW d \in Days, pub[p].by = "mandate", pub[p].day = d, today = d
      PROVE  Cardinality(OnDay(d)') < Quota
  <2>1. OnDay(d)' \subseteq CountedOnDay(d)
    BY <1>2 DEF OnDay, CountedOnDay, Becomes, PostsFollow, NotSent
  <2>2. CountedOnDay(d) \in SUBSET Pubs /\ OnDay(d)' \in SUBSET Pubs
    BY DEF OnDay, CountedOnDay
  <2>3. Cardinality(CountedOnDay(d)) < Quota
    BY <1>2 DEF Passes, CountOnDay, CountedOnDay
  <2> QED
    BY <2>1, <2>2, <2>3, OnDayBound
<1> QED
  BY <1>1, <1>2 DEF WithinQuota

\* Nothing that is out comes back, or changes its target.
KeepsOut ==
  \A q \in Pubs : pub[q].state \in Released =>
    /\ pub'[q].state \in Released
    /\ pub'[q].by = pub[q].by /\ pub'[q].target = pub[q].target

LEMMA BecomesKeepsOut ==
  ASSUME NEW p \in Pubs, NEW to, Becomes(p, to),
         pub[p].state \in Released => to \in Released
  PROVE  KeepsOut
BY DEF Becomes, KeepsOut

LEMMA SeenStays ==
  ASSUME SeenIsOut, KeepsOut,
         \A p \in Pubs : pub'[p].state = "recording" =>
           /\ pub[p].state = "recording" /\ pub'[p].target = pub[p].target
           /\ seen'[p] = seen[p]
  PROVE  SeenIsOut'
BY DEF SeenIsOut, KeepsOut

LEMMA ConsumedStays ==
  ASSUME ConsumedWhenAllOut, KeepsOut, approval' = "consumed" => approval = "consumed"
  PROVE  ConsumedWhenAllOut'
BY DEF ConsumedWhenAllOut, KeepsOut

\* What was claimed late stays where it is, or moves among these states.
Late == {"scheduled", "dispatching", "held", "cancelled"}
KeepsLate(q) ==
  /\ pub'[q].state \in Late /\ pub'[q].by = pub[q].by /\ pub'[q].target = pub[q].target
  /\ q \notin posted'

LEMMA LateStays ==
  ASSUME TypeOK, ClaimedLate, KeepsOut, before' = before,
         \A p, q \in Pubs : <<p, q>> \in before => KeepsLate(q)
  PROVE  ClaimedLate'
BY DEF ClaimedLate, KeepsOut, KeepsLate, Late

\* A step of one publication that is not a claim or the end of a check.
LEMMA BecomesInv ==
  ASSUME TypeOK, PubInv, NEW p \in Pubs, NEW to \in PubStates, Becomes(p, to),
         pub[p].state \in Released => to \in Released,
         to \notin NotSent, to # "recording", to \in Out => to \in Released \/ to = "sent",
         pub[p].state \in Late => to \in Late,
         pub[p].state # "cancelled",
         UNCHANGED <<approval, seen, posted, sentOn, before, today>>
  PROVE  PubInv'
<1>1. KeepsOut
  BY BecomesKeepsOut
<1>2. SeenIsOut'
  <2>1. \A q \in Pubs : pub'[q].state = "recording" =>
          /\ pub[q].state = "recording" /\ pub'[q].target = pub[q].target
          /\ seen'[q] = seen[q]
    BY DEF Becomes
  <2> QED
    BY <1>1, <2>1, SeenStays DEF PubInv
<1>3. ConsumedWhenAllOut'
  BY <1>1, ConsumedStays DEF PubInv
<1>4. PostsFollow'
  BY DEF PubInv, PostsFollow, Becomes
<1>5. ClaimedLate'
  <2>1. \A r, q \in Pubs : <<r, q>> \in before => KeepsLate(q)
    BY DEF PubInv, ClaimedLate, KeepsLate, Late, Becomes
  <2> QED
    BY <1>1, <2>1, LateStays DEF PubInv
<1>6. DueIsPast'
  BY DEF PubInv, DueIsPast, Becomes, NotSent
<1>7. WithinQuota'
  <2>1. \A d \in Days : OnDay(d)' \subseteq OnDay(d)
    BY DEF OnDay, Becomes, NotSent
  <2> QED
    BY <2>1, QuotaStays DEF PubInv
<1> QED
  BY <1>2, <1>3, <1>4, <1>5, <1>6, <1>7 DEF PubInv

\* A claim follows what is out on its target; the row has no post.
LEMMA ClaimInv ==
  ASSUME TypeOK, PubInv, NEW p \in Pubs, Claim(p)
  PROVE  TypeOK' /\ PubInv'
<1> USE DEF reviewVars, limitVars
<1>1. Becomes(p, "dispatching") /\ pub[p].state = "scheduled" /\ pub[p].day <= today
  BY MovesBecomes DEF Claim, PubStates
<1>2. KeepsOut
  BY <1>1, BecomesKeepsOut DEF Released
<1>3. /\ UNCHANGED <<approval, seen, posted, sentOn, today>> /\ p \notin posted
  BY <1>1 DEF Claim, PubInv, PostsFollow, NotSent
<1>4. TypeOK'
  <2>1. before' \subseteq Pubs \X Pubs
    BY DEF TypeOK, Claim
  <2>2. pub' \in [Pubs -> PubRows]
    BY <1>1 DEF Becomes
  <2>3. UNCHANGED <<reviewVars, impact, mandate, seen, posted, sentOn, limitVars>>
    BY DEF Claim
  <2> QED
    BY <2>1, <2>2, <2>3 DEF TypeOK
<1>5. SeenIsOut'
  <2>1. \A q \in Pubs : pub'[q].state = "recording" =>
          /\ pub[q].state = "recording" /\ pub'[q].target = pub[q].target
          /\ seen'[q] = seen[q]
    BY <1>1, <1>3 DEF Becomes
  <2> QED
    BY <1>2, <2>1, SeenStays DEF PubInv
<1>6. ConsumedWhenAllOut'
  BY <1>2, <1>3, ConsumedStays DEF PubInv
<1>7. PostsFollow'
  BY <1>1, <1>3 DEF PubInv, PostsFollow, Becomes, NotSent
<1>8. ClaimedLate'
  <2> SUFFICES ASSUME NEW r \in Pubs, NEW q \in Pubs, <<r, q>> \in before'
               PROVE  /\ r # q
                      /\ pub'[r].by = "approval" /\ pub'[r].state \in Released
                      /\ pub'[q].by = "approval" /\ pub'[q].target = pub'[r].target
                      /\ pub'[q].state \in Late /\ q \notin posted'
    BY DEF ClaimedLate, Late
  <2>1. CASE <<r, q>> \in before
    BY <1>1, <1>2, <1>3, <2>1
       DEF PubInv, ClaimedLate, KeepsOut, Becomes, Late, Released
  <2>2. CASE /\ q = p /\ r \in Pubs \ {p}
             /\ pub[r].by = "approval" /\ pub[p].by = "approval"
             /\ pub[r].target = pub[p].target /\ pub[r].state \in Released
    BY <1>1, <1>2, <1>3, <2>2 DEF KeepsOut, Becomes, Late
  <2> QED
    BY <2>1, <2>2 DEF Claim
<1>9. DueIsPast'
  BY <1>1, <1>3 DEF PubInv, DueIsPast, Becomes
<1>10. WithinQuota'
  <2>1. \A d \in Days : OnDay(d)' \subseteq OnDay(d)
    BY <1>1, <1>3 DEF OnDay, Becomes, Out, Released
  <2> QED
    BY <2>1, QuotaStays DEF PubInv
<1> QED
  BY <1>4, <1>5, <1>6, <1>7, <1>8, <1>9, <1>10 DEF PubInv

\* A check clears no row that was claimed late, and finds room in the quota.
LEMMA CheckInv ==
  ASSUME TypeOK, PubInv, NEW p \in Pubs, Check(p)
  PROVE  TypeOK' /\ PubInv'
<1> USE DEF reviewVars, limitVars
<1>1. /\ pub[p].state = "dispatching" /\ p \notin posted
      /\ UNCHANGED <<approval, seen, posted, sentOn, before, today>>
      /\ UNCHANGED <<reviewVars, impact, mandate, limitVars>>
  BY DEF Check, PubInv, PostsFollow, NotSent
<1>2. CASE Moves(p, "held")
  <2>1. Becomes(p, "held")
    BY <1>2, MovesBecomes DEF PubStates
  <2>2. TypeOK'
    BY <1>1, <2>1 DEF TypeOK, Becomes
  <2>3. PubInv'
    BY <1>1, <2>1, BecomesInv DEF PubStates, Released, NotSent, Out, Late
  <2> QED
    BY <2>2, <2>3
<1>3. CASE Passes(p, pub[p].by, pub[p].target, today) /\ Moves(p, "cleared")
  <2>1. Becomes(p, "cleared")
    BY <1>3, MovesBecomes DEF PubStates
  <2>2. TypeOK'
    BY <1>1, <2>1 DEF TypeOK, Becomes
  <2>3. KeepsOut
    BY <1>1, <2>1, BecomesKeepsOut DEF Released
  <2>4. SeenIsOut'
    <3>1. \A q \in Pubs : pub'[q].state = "recording" =>
            /\ pub[q].state = "recording" /\ pub'[q].target = pub[q].target
            /\ seen'[q] = seen[q]
      BY <1>1, <2>1 DEF Becomes
    <3> QED
      BY <2>3, <3>1, SeenStays DEF PubInv
  <2>5. ConsumedWhenAllOut'
    BY <1>1, <2>3, ConsumedStays DEF PubInv
  <2>6. PostsFollow' /\ DueIsPast'
    BY <1>1, <2>1 DEF PubInv, PostsFollow, DueIsPast, Becomes, NotSent
  <2>7. ClaimedLate'
    <3>1. \A r \in Pubs : <<r, p>> \notin before
      BY <1>3 DEF Passes, Spent, PubInv, ClaimedLate
    <3>2. \A r, q \in Pubs : <<r, q>> \in before => KeepsLate(q)
      BY <1>1, <2>1, <3>1 DEF PubInv, ClaimedLate, KeepsLate, Late, Becomes
    <3> QED
      BY <1>1, <2>3, <3>2, LateStays DEF PubInv
  <2>8. WithinQuota'
    BY <1>1, <1>3, <2>1, QuotaChecked DEF PubInv
  <2> QED
    BY <2>2, <2>4, <2>5, <2>6, <2>7, <2>8 DEF PubInv
<1> QED
  BY <1>2, <1>3 DEF Check

\* What is sent had passed its check, on this day if the post counts for it.
LEMMA SendInv ==
  ASSUME TypeOK, PubInv, NEW p \in Pubs, Send(p)
  PROVE  TypeOK' /\ PubInv'
<1> USE DEF reviewVars, limitVars
<1>1. /\ pub[p].state = "cleared" /\ p \notin posted
      /\ UNCHANGED <<approval, seen, before, today>>
      /\ UNCHANGED <<reviewVars, impact, mandate, limitVars>>
  BY DEF Send, PubInv, PostsFollow, NotSent
<1>2. CASE Moves(p, "failed") /\ UNCHANGED <<posted, sentOn>>
  <2>1. Becomes(p, "failed")
    BY <1>2, MovesBecomes DEF PubStates
  <2>2. TypeOK'
    BY <1>1, <1>2, <2>1 DEF TypeOK, Becomes
  <2>3. PubInv'
    BY <1>1, <1>2, <2>1, BecomesInv DEF PubStates, Released, NotSent, Out, Late
  <2> QED
    BY <2>2, <2>3
<1>3. CASE Moves(p, "sent") /\ UNCHANGED <<posted, sentOn>>
  <2>1. Becomes(p, "sent")
    BY <1>3, MovesBecomes DEF PubStates
  <2>2. TypeOK'
    BY <1>1, <1>3, <2>1 DEF TypeOK, Becomes
  <2>3. PubInv'
    BY <1>1, <1>3, <2>1, BecomesInv DEF PubStates, Released, NotSent, Out, Late
  <2> QED
    BY <2>2, <2>3
<1>4. CASE /\ Moves(p, "sent") /\ posted' = posted \cup {p}
           /\ sentOn' = [sentOn EXCEPT ![p] = today]
  <2>1. Becomes(p, "sent")
    BY <1>4, MovesBecomes DEF PubStates
  <2>2. TypeOK'
    BY <1>1, <1>4, <2>1 DEF TypeOK, Becomes
  <2>3. KeepsOut
    BY <1>1, <2>1, BecomesKeepsOut DEF Released
  <2>4. SeenIsOut'
    <3>1. \A q \in Pubs : pub'[q].state = "recording" =>
            /\ pub[q].state = "recording" /\ pub'[q].target = pub[q].target
            /\ seen'[q] = seen[q]
      BY <1>1, <2>1 DEF Becomes
    <3> QED
      BY <2>3, <3>1, SeenStays DEF PubInv
  <2>5. ConsumedWhenAllOut'
    BY <1>1, <2>3, ConsumedStays DEF PubInv
  <2>6. PostsFollow' /\ DueIsPast'
    BY <1>1, <1>4, <2>1 DEF PubInv, PostsFollow, DueIsPast, Becomes, NotSent
  <2>7. ClaimedLate'
    <3>1. \A r, q \in Pubs : <<r, q>> \in before => KeepsLate(q)
      BY <1>1, <1>4, <2>1 DEF PubInv, ClaimedLate, KeepsLate, Late, Becomes
    <3> QED
      BY <1>1, <2>3, <3>1, LateStays DEF PubInv
  <2>8. WithinQuota'
    <3>1. sentOn'[p] = today /\ \A q \in Pubs \ {p} : sentOn'[q] = sentOn[q]
      BY <1>4 DEF TypeOK
    <3>2. \A d \in Days : OnDay(d)' \subseteq OnDay(d)
      BY <1>1, <1>4, <2>1, <3>1 DEF OnDay, Becomes, Out, Released
    <3> QED
      BY <3>2, QuotaStays DEF PubInv
  <2> QED
    BY <2>2, <2>4, <2>5, <2>6, <2>7, <2>8 DEF PubInv
<1> QED
  BY <1>2, <1>3, <1>4 DEF Send

\* The transaction counts its own target and those that are out.
LEMMA BeginRecordInv ==
  ASSUME TypeOK, PubInv, NEW p \in Pubs, BeginRecord(p)
  PROVE  TypeOK' /\ PubInv'
<1> USE DEF reviewVars, limitVars
<1> DEFINE outOf(f) == {f[q].target : q \in
                          {q \in Pubs : f[q].by = "approval" /\ f[q].state \in Released}}
<1>1. /\ pub[p].state = "sent" /\ p \in posted
      /\ UNCHANGED <<approval, posted, sentOn, before, today>>
      /\ UNCHANGED <<reviewVars, impact, mandate, limitVars>>
      /\ Becomes(p, "recording")
      /\ seen' = [seen EXCEPT ![p] = {pub[p].target} \cup outOf(pub)]
  BY MovesBecomes DEF BeginRecord, PubStates
<1>2. seen' \in [Pubs -> SUBSET Targets]
  <2>1. {pub[p].target} \cup outOf(pub) \subseteq Targets
    BY DEF TypeOK, PubRows
  <2> QED
    BY <1>1, <2>1 DEF TypeOK
<1>3. TypeOK'
  BY <1>1, <1>2 DEF TypeOK, Becomes
<1>4. KeepsOut
  BY <1>1, BecomesKeepsOut DEF Released
<1>5. SeenIsOut'
  <2> SUFFICES ASSUME NEW q \in Pubs, pub'[q].state = "recording", NEW t \in seen'[q]
               PROVE  \/ t = pub'[q].target
                      \/ \E r \in Pubs : /\ pub'[r].by = "approval"
                                         /\ pub'[r].target = t
                                         /\ pub'[r].state \in Released
    BY DEF SeenIsOut
  <2>1. CASE q # p
    BY <1>1, <1>4, <2>1 DEF PubInv, SeenIsOut, KeepsOut, Becomes, TypeOK
  <2>2. CASE q = p
    <3>1. t \in {pub[p].target} \cup outOf(pub)
      BY <1>1, <2>2 DEF TypeOK
    <3>2. t = pub[p].target
          \/ \E r \in Pubs : /\ pub[r].by = "approval" /\ pub[r].target = t
                             /\ pub[r].state \in Released
      BY <3>1
    <3> QED
      BY <1>1, <1>4, <2>2, <3>2 DEF KeepsOut, Becomes
  <2> QED
    BY <2>1, <2>2
<1>6. ConsumedWhenAllOut'
  BY <1>1, <1>4, ConsumedStays DEF PubInv
<1>7. PostsFollow' /\ DueIsPast'
  BY <1>1 DEF PubInv, PostsFollow, DueIsPast, Becomes, NotSent
<1>8. ClaimedLate'
  <2>1. \A r, q \in Pubs : <<r, q>> \in before => KeepsLate(q)
    BY <1>1 DEF PubInv, ClaimedLate, KeepsLate, Late, Becomes
  <2> QED
    BY <1>1, <1>4, <2>1, LateStays DEF PubInv
<1>9. WithinQuota'
  <2>1. \A d \in Days : OnDay(d)' \subseteq OnDay(d)
    BY <1>1 DEF OnDay, Becomes, Out, Released
  <2> QED
    BY <2>1, QuotaStays DEF PubInv
<1> QED
  BY <1>3, <1>5, <1>6, <1>7, <1>8, <1>9 DEF PubInv

\* The approval is consumed when all that the transaction counted is out.
LEMMA CommitRecordInv ==
  ASSUME TypeOK, PubInv, NEW p \in Pubs, CommitRecord(p)
  PROVE  TypeOK' /\ PubInv'
<1>1. /\ pub[p].state = "recording" /\ Becomes(p, "published")
      /\ UNCHANGED <<live, revision, editing, request, frozen, bound, impact, mandate,
                     posted, sentOn, before, scope, today, releases>>
      /\ seen' = [seen EXCEPT ![p] = {}]
      /\ \/ approval' = approval
         \/ /\ approval' = "consumed" /\ pub[p].by = "approval"
            /\ Targets \subseteq seen[p]
  BY MovesBecomes DEF CommitRecord, PubStates, AllOut, limitVars
<1>2. TypeOK'
  BY <1>1 DEF TypeOK, Becomes
<1>3. KeepsOut
  BY <1>1, BecomesKeepsOut DEF Released
<1>4. SeenIsOut'
  <2>1. \A q \in Pubs : pub'[q].state = "recording" =>
          /\ pub[q].state = "recording" /\ pub'[q].target = pub[q].target
          /\ seen'[q] = seen[q]
    BY <1>1 DEF Becomes
  <2> QED
    BY <1>3, <2>1, SeenStays DEF PubInv
<1>5. ConsumedWhenAllOut'
  <2>1. CASE approval' = approval
    BY <1>3, <2>1, ConsumedStays DEF PubInv
  <2>2. CASE pub[p].by = "approval" /\ Targets \subseteq seen[p]
    <3> SUFFICES ASSUME NEW t \in Targets
                 PROVE  \E q \in Pubs : /\ pub'[q].by = "approval"
                                        /\ pub'[q].target = t
                                        /\ pub'[q].state \in Released
      BY DEF ConsumedWhenAllOut
    <3>1. CASE t = pub[p].target
      BY <1>1, <2>2, <3>1 DEF Becomes, Released
    <3>2. CASE t # pub[p].target
      <4>1. \E q \in Pubs : /\ pub[q].by = "approval" /\ pub[q].target = t
                            /\ pub[q].state \in Released
        BY <1>1, <2>2, <3>2 DEF PubInv, SeenIsOut
      <4> QED
        BY <1>3, <4>1 DEF KeepsOut
    <3> QED
      BY <3>1, <3>2
  <2> QED
    BY <1>1, <2>1, <2>2
<1>6. PostsFollow' /\ DueIsPast'
  BY <1>1 DEF PubInv, PostsFollow, DueIsPast, Becomes, NotSent
<1>7. ClaimedLate'
  <2>1. \A r, q \in Pubs : <<r, q>> \in before => KeepsLate(q)
    BY <1>1 DEF PubInv, ClaimedLate, KeepsLate, Late, Becomes
  <2> QED
    BY <1>1, <1>3, <2>1, LateStays DEF PubInv
<1>8. WithinQuota'
  <2>1. \A d \in Days : OnDay(d)' \subseteq OnDay(d)
    BY <1>1 DEF OnDay, Becomes, Out, Released
  <2> QED
    BY <2>1, QuotaStays DEF PubInv
<1> QED
  BY <1>2, <1>4, <1>5, <1>6, <1>7, <1>8 DEF PubInv

\* Cancelling, giving up and removing only take a row out of the way.
LEMMA QuietInv ==
  ASSUME TypeOK, PubInv, NEW p \in Pubs, CancelPub(p) \/ GiveUp(p) \/ Remove(p)
  PROVE  TypeOK' /\ PubInv'
<1> USE DEF reviewVars, limitVars
<1>0. UNCHANGED <<reviewVars, impact, mandate, seen, posted, sentOn, before, limitVars>>
  BY DEF CancelPub, GiveUp, Remove
<1>1. CASE CancelPub(p)
  <2>1. Becomes(p, "cancelled") /\ pub[p].state \in {"scheduled", "held"}
    BY <1>1, MovesBecomes DEF CancelPub, PubStates
  <2>2. PubInv'
    BY <1>0, <2>1, BecomesInv DEF PubStates, Released, NotSent, Out, Late
  <2> QED
    BY <1>0, <2>1, <2>2 DEF TypeOK, Becomes
<1>2. CASE GiveUp(p)
  <2>1. Becomes(p, "held") /\ pub[p].state = "sent"
    BY <1>2, MovesBecomes DEF GiveUp, PubStates
  <2>2. PubInv'
    BY <1>0, <2>1, BecomesInv DEF PubStates, Released, NotSent, Out, Late
  <2> QED
    BY <1>0, <2>1, <2>2 DEF TypeOK, Becomes
<1>3. CASE Remove(p)
  <2>1. Becomes(p, "removed") /\ pub[p].state = "published"
    BY <1>3, MovesBecomes DEF Remove, PubStates
  <2>2. PubInv'
    BY <1>0, <2>1, BecomesInv DEF PubStates, Released, NotSent, Out, Late
  <2> QED
    BY <1>0, <2>1, <2>2 DEF TypeOK, Becomes
<1> QED
  BY <1>1, <1>2, <1>3

\* Rows that change are not out and have no post, and become scheduled or held.
Rearranges ==
  /\ pub' \in [Pubs -> PubRows]
  /\ \A q \in Pubs :
       \/ pub'[q] = pub[q]
       \/ /\ pub[q].state \in {"none", "scheduled", "held", "cleared"}
          /\ q \notin posted
          /\ pub'[q].state \in {"scheduled", "held"}
          /\ pub[q].state # "none" =>
               pub'[q].by = pub[q].by /\ pub'[q].target = pub[q].target

LEMMA RearrangesInv ==
  ASSUME TypeOK, PubInv, Rearranges,
         UNCHANGED <<approval, seen, posted, sentOn, before, today>>
  PROVE  PubInv'
<1>1. KeepsOut
  BY DEF Rearranges, KeepsOut, Released
<1>2. SeenIsOut'
  <2>1. \A q \in Pubs : pub'[q].state = "recording" =>
          /\ pub[q].state = "recording" /\ pub'[q].target = pub[q].target
          /\ seen'[q] = seen[q]
    BY DEF Rearranges
  <2> QED
    BY <1>1, <2>1, SeenStays DEF PubInv
<1>3. ConsumedWhenAllOut'
  BY <1>1, ConsumedStays DEF PubInv
<1>4. PostsFollow' /\ DueIsPast'
  BY DEF PubInv, PostsFollow, DueIsPast, Rearranges
<1>5. ClaimedLate'
  <2>1. \A r, q \in Pubs : <<r, q>> \in before => KeepsLate(q)
    BY DEF PubInv, ClaimedLate, KeepsLate, Late, Rearranges
  <2> QED
    BY <1>1, <2>1, LateStays DEF PubInv
<1>6. WithinQuota'
  <2>1. \A d \in Days : OnDay(d)' \subseteq OnDay(d)
    BY DEF OnDay, Rearranges, Out, Released
  <2> QED
    BY <2>1, QuotaStays DEF PubInv
<1> QED
  BY <1>2, <1>3, <1>4, <1>5, <1>6 DEF PubInv

LEMMA ScheduleInv ==
  ASSUME TypeOK, PubInv, NEW p \in Pubs, NEW by \in {"approval", "mandate"},
         NEW t \in Targets, NEW d \in Days, Schedule(p, by, t, d)
  PROVE  TypeOK' /\ PubInv'
<1> USE DEF reviewVars, limitVars
<1> DEFINE row == [state |-> "scheduled", target |-> t, by |-> by, day |-> d]
<1>1. row \in PubRows
  BY DEF PubRows, PubStates
<1>2. pub[p].state = "none" /\ p \notin posted /\ pub' = [pub EXCEPT ![p] = row]
  BY DEF Schedule, PubInv, PostsFollow, NotSent
<1>3. Rearranges
  BY <1>1, <1>2 DEF TypeOK, Rearranges
<1>4. UNCHANGED <<reviewVars, impact, mandate, seen, posted, sentOn, before, limitVars>>
  BY DEF Schedule
<1>5. PubInv'
  BY <1>3, <1>4, RearrangesInv
<1> QED
  BY <1>3, <1>4, <1>5 DEF TypeOK, Rearranges

\* Replacing a field of a row by a legal value leaves a row.
LEMMA RowFields ==
  ASSUME NEW r \in PubRows
  PROVE  /\ [r EXCEPT !.state = "scheduled"] \in PubRows
         /\ [r EXCEPT !.state = "scheduled"].state = "scheduled"
         /\ [r EXCEPT !.state = "scheduled"].by = r.by
         /\ [r EXCEPT !.state = "scheduled"].target = r.target
         /\ \A d \in Days :
              /\ [r EXCEPT !.day = d] \in PubRows
              /\ [r EXCEPT !.day = d].state = r.state
              /\ [r EXCEPT !.day = d].by = r.by
              /\ [r EXCEPT !.day = d].target = r.target
BY DEF PubRows, PubStates

LEMMA Dated ==
  ASSUME TypeOK, NEW p \in Pubs, NEW d \in Days, p \notin posted,
         pub[p].state \in {"scheduled", "held", "cleared"},
         pub' = [pub EXCEPT ![p].state = "scheduled", ![p].day = d]
  PROVE  Rearranges
<1> DEFINE f == [pub EXCEPT ![p].state = "scheduled"]
<1>1. pub' = [f EXCEPT ![p].day = d]
  OBVIOUS
<1>2. /\ f \in [Pubs -> PubRows] /\ f[p].state = "scheduled" /\ f[p].by = pub[p].by
      /\ f[p].target = pub[p].target /\ \A q \in Pubs \ {p} : f[q] = pub[q]
  BY RowFields DEF TypeOK
<1> HIDE DEF f
<1> DEFINE row == [f[p] EXCEPT !.day = d]
<1>3. /\ row \in PubRows /\ row.state = "scheduled" /\ row.by = pub[p].by
      /\ row.target = pub[p].target
  BY <1>2, RowFields
<1>4. pub' = [f EXCEPT ![p] = row]
  BY <1>1, <1>2
<1> HIDE DEF row
<1>5. /\ pub' \in [Pubs -> PubRows] /\ pub'[p] = row
      /\ \A q \in Pubs \ {p} : pub'[q] = pub[q]
  BY <1>2, <1>3, <1>4
<1> QED
  BY <1>3, <1>5 DEF Rearranges

LEMMA RescheduleInv ==
  ASSUME TypeOK, PubInv, NEW p \in Pubs, NEW d \in Days, Reschedule(p, d)
  PROVE  TypeOK' /\ PubInv'
<1> USE DEF reviewVars
<1>1. Rearranges
  BY Dated DEF Reschedule
<1>2. /\ UNCHANGED <<reviewVars, impact, mandate, seen, posted, sentOn, before, scope,
                     today>>
      /\ releases' \in Nat
  BY DEF Reschedule, TypeOK
<1>3. PubInv'
  BY <1>1, <1>2, RearrangesInv
<1> QED
  BY <1>1, <1>2, <1>3 DEF TypeOK, Rearranges

\* What had passed its check and was not sent starts over.
LEMMA RetryInv ==
  ASSUME TypeOK, PubInv, NEW p \in Pubs, Retry(p)
  PROVE  TypeOK' /\ PubInv'
<1> USE DEF reviewVars, limitVars
<1>1. pub[p].state = "cleared" /\ p \notin posted
  BY DEF Retry, PubInv, PostsFollow, NotSent
<1>2. UNCHANGED <<reviewVars, impact, mandate, seen, posted, sentOn, before, limitVars>>
  BY DEF Retry
<1>3. CASE Moves(p, "held")
  <2>1. Becomes(p, "held")
    BY <1>3, MovesBecomes DEF PubStates
  <2>2. Rearranges
    BY <1>1, <2>1 DEF Becomes, Rearranges
  <2> QED
    BY <1>2, <2>2, RearrangesInv DEF TypeOK, Rearranges
<1>4. ASSUME NEW d \in Days,
             pub' = [pub EXCEPT ![p].state = "scheduled", ![p].day = d]
      PROVE  TypeOK' /\ PubInv'
  <2>1. Rearranges
    BY <1>1, <1>4, Dated
  <2> QED
    BY <1>2, <2>1, RearrangesInv DEF TypeOK, Rearranges
<1>5. today..MaxDays \subseteq Days
  BY ReleaseAssumption DEF TypeOK, Days, ReleaseAssumption
<1> QED
  BY <1>3, <1>4, <1>5 DEF Retry

LEMMA ReevaluateInv ==
  ASSUME TypeOK, PubInv, NEW n \in Numbers, Reevaluate(n)
  PROVE  TypeOK' /\ PubInv'
<1> USE DEF reviewVars, limitVars
<1>1. UNCHANGED <<reviewVars, mandate, seen, posted, sentOn, before, limitVars>>
  BY DEF Reevaluate
<1>2. impact' \in [Numbers -> {"none", "invalidate", "reevaluate", "done"}]
  BY DEF Reevaluate, TypeOK
<1>3. PICK alsoHeld \in SUBSET {p \in Pubs : pub[p].state = "scheduled"} :
        pub' = [p \in Pubs |->
                  IF /\ pub[p].state = "scheduled"
                     /\ \/ ~Passes(p, pub[p].by, pub[p].target, pub[p].day)
                        \/ p \in alsoHeld
                    THEN [pub[p] EXCEPT !.state = "held"]
                    ELSE pub[p]]
  BY DEF Reevaluate
<1>4. ASSUME NEW q \in Pubs
      PROVE  /\ pub'[q] \in PubRows
             /\ \/ pub'[q] = pub[q]
                \/ /\ pub[q].state = "scheduled" /\ q \notin posted
                   /\ pub'[q].state \in {"scheduled", "held"}
                   /\ pub'[q].by = pub[q].by /\ pub'[q].target = pub[q].target
  <2> DEFINE held == [pub[q] EXCEPT !.state = "held"]
  <2>1. /\ held \in PubRows /\ held.state = "held"
        /\ held.by = pub[q].by /\ held.target = pub[q].target
    BY DEF TypeOK, PubRows, PubStates
  <2>2. pub'[q] = pub[q] \/ (pub'[q] = held /\ pub[q].state = "scheduled")
    BY <1>3
  <2>3. pub[q].state = "scheduled" => q \notin posted
    BY DEF PubInv, PostsFollow, NotSent
  <2> HIDE DEF held
  <2> QED
    BY <2>1, <2>2, <2>3 DEF TypeOK
<1>5. Rearranges
  <2>1. pub' = [q \in Pubs |-> pub'[q]]
    BY <1>3
  <2> QED
    BY <1>4, <2>1 DEF Rearranges
<1>6. PubInv'
  BY <1>1, <1>5, RearrangesInv
<1> QED
  BY <1>1, <1>2, <1>5, <1>6 DEF TypeOK, Rearranges

-----------------------------------------------------------------------------
(* The theorems *)

\* A step of a publication, or of the workflow that evaluates all of them.
PubStep ==
  \/ \E n \in Numbers : Reevaluate(n)
  \/ \E p \in Pubs, by \in {"approval", "mandate"}, t \in Targets, d \in Days :
       Schedule(p, by, t, d)
  \/ \E p \in Pubs, d \in Days : Reschedule(p, d)
  \/ \E p \in Pubs : CancelPub(p) \/ Dispatch(p) \/ Remove(p)

LEMMA NextSteps == Next <=> Human \/ PubStep
BY DEF Next, Human, PubStep, Impact

\* Publications change nothing of the review but consume its approval.
LEMMA PubStepReview ==
  ASSUME TypeOK, ReviewInv, PubStep
  PROVE  ReviewInv'
<1>1. /\ UNCHANGED <<live, revision, frozen, bound>>
      /\ approval' = approval \/ (approval = "valid" /\ approval' = "consumed")
  BY DEF PubStep, Reevaluate, Schedule, Reschedule, CancelPub, Dispatch, Claim, Check,
         Retry, Send, BeginRecord, CommitRecord, GiveUp, Remove, reviewVars, limitVars
<1>2. \A n \in Numbers : impact[n] = "invalidate" => impact'[n] = "invalidate"
  <2>1. ASSUME NEW n \in Numbers, Reevaluate(n)
        PROVE  \A k \in Numbers : impact[k] = "invalidate" => impact'[k] = "invalidate"
    BY <2>1 DEF Reevaluate, TypeOK
  <2>2. PubStep => impact' = impact \/ \E n \in Numbers : Reevaluate(n)
    BY DEF PubStep, Schedule, Reschedule, CancelPub, Dispatch, Claim, Check,
           Retry, Send, BeginRecord, CommitRecord, GiveUp, Remove, reviewVars, limitVars
  <2> QED
    BY <2>1, <2>2
<1>3. Reviewed'
  BY <1>1 DEF ReviewInv, Reviewed, TextIsReviewed
<1>4. OutdatedIsInvalidated'
  <2> SUFFICES ASSUME \A n \in 2..live'.version : impact'[n] # "invalidate",
                      approval' = "valid"
               PROVE  bound'.version = live'.version
    BY DEF OutdatedIsInvalidated
  <2>1. \A n \in 2..live.version : impact[n] # "invalidate"
    <3>1. 2..live.version \subseteq Numbers
      BY ReleaseAssumption DEF TypeOK, Content, Numbers, ReleaseAssumption
    <3> QED
      BY <1>1, <1>2, <3>1
  <2> QED
    BY <1>1, <2>1 DEF ReviewInv, OutdatedIsInvalidated
<1> QED
  BY <1>3, <1>4 DEF ReviewInv

LEMMA PubStepInv ==
  ASSUME TypeOK, PubInv, PubStep
  PROVE  TypeOK' /\ PubInv'
BY ScheduleInv, RescheduleInv, ReevaluateInv, QuietInv, ClaimInv, CheckInv, RetryInv,
   SendInv, BeginRecordInv, CommitRecordInv
   DEF PubStep, Dispatch

ReleaseInv == TypeOK /\ ReviewInv /\ PubInv

\* The invariant is inductive.
LEMMA ReleaseStep ==
  ASSUME ReleaseInv, [Next]_vars
  PROVE  ReleaseInv'
<1>1. CASE Human
  BY <1>1, HumanType, HumanReview, HumanPub DEF ReleaseInv
<1>2. CASE PubStep
  BY <1>2, PubStepInv, PubStepReview DEF ReleaseInv
<1>3. CASE UNCHANGED vars
  <2> USE <1>3 DEF vars, reviewVars, pubVars, limitVars
  <2>1. TypeOK'
    BY DEF ReleaseInv, TypeOK
  <2>2. ReviewInv'
    BY DEF ReleaseInv, ReviewInv, Reviewed, TextIsReviewed, OutdatedIsInvalidated
  <2>3. SeenIsOut' /\ ConsumedWhenAllOut' /\ PostsFollow' /\ ClaimedLate' /\ DueIsPast'
    BY DEF ReleaseInv, PubInv, SeenIsOut, ConsumedWhenAllOut, PostsFollow, ClaimedLate,
           DueIsPast
  <2>4. WithinQuota'
    BY DEF ReleaseInv, PubInv, WithinQuota, OnDay
  <2> QED
    BY <2>1, <2>2, <2>3, <2>4 DEF ReleaseInv, PubInv
<1> QED
  BY <1>1, <1>2, <1>3, NextSteps

LEMMA ReleaseInvariant == Spec => []ReleaseInv
<1>1. Init => ReleaseInv
  BY ReleaseInit DEF ReleaseInv
<1>2. ReleaseInv /\ [Next]_vars => ReleaseInv'
  BY ReleaseStep
<1> QED
  BY <1>1, <1>2, PTL DEF Spec

\* Every reachable state of review, approval, mandate and publications is well
\* formed.
THEOREM ReleaseTypeCorrect == Spec => []TypeOK
<1>1. ReleaseInv => TypeOK
  BY DEF ReleaseInv
<1> QED
  BY <1>1, ReleaseInvariant, PTL

\* The transaction that consumes an approval counts targets before it commits;
\* what it counted is still out then, however many publications it covers.
THEOREM ApprovalIsSpentLast == Spec => []ConsumedWhenAllOut
<1>1. ReleaseInv => ConsumedWhenAllOut
  BY DEF ReleaseInv, PubInv
<1> QED
  BY <1>1, ReleaseInvariant, PTL

\* The release check counts a post that is on the record, removed or not: no
\* publication claimed after that posts to the target under the approval.  It
\* says nothing of publications that are in flight together.
THEOREM NoPostAfterRecord == Spec => []OncePerTarget
<1>1. ReleaseInv => OncePerTarget
  BY DEF ReleaseInv, TypeOK, PubInv, ClaimedLate, OncePerTarget
<1> QED
  BY <1>1, ReleaseInvariant, PTL

LEMMA QuotaHasRoom ==
  ASSUME ReleaseInv, NEW d \in Days
  PROVE  Cardinality(PostsOfDay(d)) < Quota
<1>1. /\ PostsOfDay(d) \in SUBSET Pubs /\ OnDay(d) \in SUBSET Pubs
      /\ PostsOfDay(d) \subseteq OnDay(d)
  BY DEF PostsOfDay, OnDay, ReleaseInv, TypeOK
<1>2. Cardinality(OnDay(d)) < Quota
  BY DEF ReleaseInv, PubInv, WithinQuota
<1> QED
  BY <1>1, <1>2, OnDayBound

\* Without a lock, and however many are dispatched at the same time, the rows of
\* one day that post on it are no more than the quota, because each counts the
\* rows of the others.
THEOREM PostsOnTheirDayWithinQuota == Spec => []QuotaKept
<1>1. ReleaseInv => QuotaKept
  <2> SUFFICES ASSUME ReleaseInv, NEW d \in Days
               PROVE  Cardinality(PostsOfDay(d)) <= Quota
    BY DEF QuotaKept
  <2>1. Cardinality(PostsOfDay(d)) < Quota
    BY QuotaHasRoom
  <2>2. IsFiniteSet(PostsOfDay(d))
    BY FS_Subset, ReleaseAssumption
       DEF PostsOfDay, ReleaseInv, TypeOK, ReleaseAssumption
  <2>3. Cardinality(PostsOfDay(d)) \in Nat /\ Quota \in Nat
    BY <2>2, FS_CardinalityType, ReleaseAssumption DEF ReleaseAssumption
  <2> QED
    BY <2>1, <2>3
<1> QED
  BY <1>1, ReleaseInvariant, PTL

\* countForMandateOnDay counts the row that asks, too, so that the rows of one
\* day that post on it are always fewer than the quota.
THEOREM QuotaNeverFilled == Spec => [](\A d \in Days : Cardinality(PostsOfDay(d)) < Quota)
<1>1. ReleaseInv => \A d \in Days : Cardinality(PostsOfDay(d)) < Quota
  BY QuotaHasRoom
<1> QED
  BY <1>1, ReleaseInvariant, PTL

\* The text an approval covers is the text of the manifest its reviewer saw.
THEOREM ApprovedTextWasSeen == Spec => []TextIsReviewed
<1>1. ReleaseInv => TextIsReviewed
  BY DEF ReleaseInv, ReviewInv, Reviewed
<1> QED
  BY <1>1, ReleaseInvariant, PTL

\* Once every brand change was brought to the approvals, a valid one is of the
\* brand version as it is, granted before the change or while it was worked
\* off.  A policy activation is not brought to them.
THEOREM ValidIsOfThisBrand == Spec => []OutdatedIsInvalidated
<1>1. ReleaseInv => OutdatedIsInvalidated
  BY DEF ReleaseInv, ReviewInv
<1> QED
  BY <1>1, ReleaseInvariant, PTL

=============================================================================
