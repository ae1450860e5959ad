----------------------------- MODULE MCAgentRun -----------------------------
(***************************************************************************)
(* What the repository says of agent runs, put to AgentRun.                *)
(***************************************************************************)
EXTENDS AgentRun

\* "a person accepts, rejects or modifies a proposal" (agents/src/service.ts):
\* whatever is applied is the proposal that a person accepted.
AppliedOnlyAccepted == \A k \in Keys : applied[k] > 0 => k \in accepted

\* "PolicyDenied -> policy_denied" (agent-run.workflow.v1.ts): a run whose
\* workflow has ended is in a terminal state.
WorkflowEndsRun ==
  \A r \in Runs : at[r] = "over" => state[r] \in Terminal

\* "reservations settle on completion and release the remainder" (spec 12.6):
\* a run whose workflow has ended holds no reservation.
CompletionSettles ==
  \A r \in Runs : at[r] = "over" => \A i \in OwnedBy(r) : held[i] # "held"

\* "Cost already incurred is always ledgered" (agents/src/runtime.ts): every
\* model call that is recorded as a step is charged once the run is over.
IncurredIsLedgered ==
  \A r \in Runs :
    at[r] = "over" => \A s \in 1..recorded[r] : ledger[<<r, s, 0>>] = 1

=============================================================================
