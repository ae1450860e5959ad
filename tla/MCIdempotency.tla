--------------------------- MODULE MCIdempotency ---------------------------
(***************************************************************************)
(* Instances of Idempotency for TLC, and what the repository says of a     *)
(* key, put to the model without the reservations of Idempotency.          *)
(***************************************************************************)
EXTENDS Idempotency, TLC

\* Requests of one command are alike.
Symmetry == Permutations(Requests \ Others) \cup Permutations(Others)

\* "a concurrent duplicate sees it (or loses the primary-key race -> 409)"
\* (idempotent.ts): a key runs one command while its record lives.
KeyRunsOnce == Cardinality(fresh) <= 1

\* "different hash or path -> IDEMPOTENCY_KEY_REUSED" (idempotent.ts): a replay
\* answers with a command of the same hash and path.
KeyReplaysOwn == \A r \in Requests : at[r] = "replay" => Own(r)

=============================================================================
