--------------------------- MODULE MCRemoteChange ---------------------------
(***************************************************************************)
(* What the repository says of remote changes, put to the model.           *)
(***************************************************************************)
EXTENDS RemoteChange

\* "The live text: the edit the platform confirmed last (...) is what the post
\* shows" (repositories.ts, latestSucceededEdit): with every request answered
\* and no call outliving its activity.
LiveText ==
  /\ ~outlived /\ faults = MaxFaults
  /\ \A c \in Changes : change[c].state \in {"none", "succeeded", "late"}
  => shown = current \/ gone \/ shown = Foreign

\* "an edit of a live article is unverified until the delayed page check proves
\* the page" (runtime.ts): a verified article was checked for its current text.
VerifiedWasChecked == site /\ verification = "verified" => proven = current

\* "safe because both calls converge on a repeat (...) a second edit sets the
\* same text" (publication-remote-change.workflow.v1.ts): on a website that
\* nobody else writes to, an edit that is tried again does not fail on itself.
EditConverges ==
  \A c \in Changes :
    /\ MaxVisits = 0 /\ c \in acted /\ change[c].kind = "edit"
    /\ \A d \in Changes \ {c} : change[d].state = "none"
    => flow[c].result # "conflict"

\* "Nothing is sent once the change was recorded" (runtime.ts).
NothingSentOnceRecorded ==
  [][\A c \in Changes :
       flow[c].at = "send" /\ flow'[c].at # "send" => c \in Open]_vars

=============================================================================
