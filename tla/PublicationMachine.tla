------------------------- MODULE PublicationMachine -------------------------
(***************************************************************************)
(* The publication state machine of packages/domain: the states and the    *)
(* exhaustive transition table.  Every write of a publication's state goes *)
(* through it; a pair without a row here is refused (VALIDATION_FAILED).   *)
(***************************************************************************)

States == {"scheduled", "dispatching", "processing", "published", "failed",
           "outcome_unknown", "retry_eligible", "cancelled", "held", "removed"}

Moves ==
  { <<"scheduled", "claim", "dispatching">>,
    <<"scheduled", "user_cancel", "cancelled">>,
    <<"scheduled", "dependency_revoked", "held">>,
    <<"scheduled", "restored_from_backup", "held">>,
    <<"dispatching", "release_policy_failed", "held">>,
    <<"dispatching", "restored_from_backup", "held">>,
    <<"dispatching", "provider_accepted", "published">>,
    <<"dispatching", "provider_pending", "processing">>,
    <<"dispatching", "provider_rejected", "failed">>,
    <<"dispatching", "ambiguous_failure", "outcome_unknown">>,
    <<"dispatching", "retryable_pre_send", "scheduled">>,
    <<"processing", "poll_published", "published">>,
    <<"processing", "poll_failed", "failed">>,
    <<"processing", "poll_unknown", "outcome_unknown">>,
    <<"outcome_unknown", "reconcile_found", "published">>,
    <<"outcome_unknown", "reconcile_absent", "retry_eligible">>,
    <<"outcome_unknown", "reconcile_exhausted", "held">>,
    <<"retry_eligible", "reschedule", "scheduled">>,
    <<"held", "hold_resolved_schedule", "scheduled">>,
    <<"held", "hold_resolved_cancel", "cancelled">>,
    <<"published", "remote_deleted", "removed">> }

\* Mutants: an exhausted reconciliation has no row; worker loss counts as
\* retryable.
ToNeverExhausted(s, e) ==
  {m[3] : m \in {x \in Moves : x[1] = s /\ x[2] = e
                               /\ e # "reconcile_exhausted"}}
ToLossIsRetry(s, e) ==
  IF s = "dispatching" /\ e = "ambiguous_failure" THEN {"scheduled"}
  ELSE {m[3] : m \in {x \in Moves : x[1] = s /\ x[2] = e}}

\* transition(s, e): the target state, as a set of at most one element.
To(s, e) == {m[3] : m \in {x \in Moves : x[1] = s /\ x[2] = e}}

\* transition() throws IllegalTransitionError when the table has no such row.
Illegal(s, e) == To(s, e) = {}

=============================================================================
