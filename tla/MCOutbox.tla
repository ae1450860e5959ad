------------------------------ MODULE MCOutbox ------------------------------
(***************************************************************************)
(* What the repository says of the outbox, put to the model of Outbox.     *)
(***************************************************************************)
EXTENDS Outbox

\* "Starts are idempotent (stable workflow ids, USE_EXISTING), so a lost lease
\* costs at most a no-op duplicate start" (outbox-dispatcher.ts): an event whose
\* workflow has completed never becomes a dead letter.
ServedIsNoDeadLetter ==
  \A e \in Events : attempts[e] = DeadLetter => flow[e] # "completed"

=============================================================================
