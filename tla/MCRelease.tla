----------------------------- MODULE MCRelease -----------------------------
(***************************************************************************)
(* Instances of Release for TLC, and what the repository says of approvals *)
(* and mandates, put to the model.                                         *)
(***************************************************************************)
EXTENDS Release, TLC

\* Two publications of the approval, one of each authority, three of the mandate.
Few ==
  {[changes |-> 1, releases |-> 1, approval |-> 2, mandate |-> 0],
   [changes |-> 1, releases |-> 0, approval |-> 1, mandate |-> 1],
   [changes |-> 0, releases |-> 1, approval |-> 0, mandate |-> 3]}

\* Publications are alike, and so are targets.
Symmetry == Permutations(Pubs) \cup Permutations(Targets)

\* "The mandate reached its daily quota." (publication-state.ts): a publication
\* is refused for the quota on a day that has maxPostsPerDay posts.
QuotaMeansPosts ==
  \A p \in Pubs :
    pub[p].by = "mandate" /\ pub[p].state = "dispatching" /\ CountOnDay(today) >= Quota
      => Cardinality({q \in posted : pub[q].by = "mandate" /\ sentOn[q] = today}) >= Quota

\* maxPostsPerDay, of the posts of a day.
QuotaPerDay ==
  \A d \in Days : Cardinality({p \in posted : pub[p].by = "mandate" /\ sentOn[p] = d}) <= Quota

\* "single use per target" (evaluate-release.ts).
SingleUse ==
  \A p, q \in posted :
    /\ pub[p].by = "approval" /\ pub[q].by = "approval" /\ pub[p].target = pub[q].target
    => p = q

\* "a mismatch means the package changed under the reviewer" (service.ts): what
\* is approved is what the manifest froze, its brand and policy version too.
ApprovedIsReviewed == approval # "none" => bound = frozen

\* "the release approval is spent with the publication" (runtime.ts).
SpentWhenAllOut ==
  approval = "valid" =>
    \E t \in Targets : \A p \in Pubs :
      ~(pub[p].by = "approval" /\ pub[p].target = t /\ pub[p].state \in Released)

=============================================================================
