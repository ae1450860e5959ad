------------------------------ MODULE MCReplies ------------------------------
(***************************************************************************)
(* Replies on small instances, and what the repository says of them.       *)
(***************************************************************************)
EXTENDS Replies

\* Drafts repeat one answer; what the brand writes on the platform is its own.
SameWords == [c \in Remote |-> IF c \in Drafts THEN "same" ELSE "other"]

\* "A reply of this conversation that is still sending or ended
\* outcome_unknown, answering the same comment with the same text, was posted
\* after all" (community/src/runtime.ts): what is called sent was posted.
SentMeansPosted == \A d \in Drafts : state[d] = "sent" => d \in posted

\* 'fail' is "definitively not posted (rejected, or proven never sent)"
\* (response-draft.ts), whichever execution of the workflow recorded it.
FailedMeansNotPosted ==
  \A d \in Drafts : state[d] = "failed" => d \notin posted

=============================================================================
