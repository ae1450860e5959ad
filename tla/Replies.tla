------------------------------- MODULE Replies -------------------------------
(***************************************************************************)
(* Replies to comments: modules/community, communityReplyWorkflowV1 and    *)
(* what comment ingestion does with the brand's own comments.  A person    *)
(* queues a draft; its workflow has it sent once on the provider's queue,  *)
(* records the outcome on core, and ingestion may find the reply on the    *)
(* platform before, between or after.  The send activity outlives its      *)
(* timeout, and a workflow that failed may be started again.               *)
(***************************************************************************)
EXTENDS Naturals

CONSTANTS
  Drafts,    \* replies people send, by id; a posted reply has its draft's name
  Native,    \* comments the brand writes on the platform itself
  Wording,   \* the comment answered and the trimmed text of each of these
  None,
  MaxRuns,   \* bound: executions of one reply's workflow
  MaxSends,  \* MAX_SEND_ATTEMPTS
  Tries,     \* attempts of a control activity
  MaxFaults  \* bound: lost answers, commits and workers, and timeouts

Remote == Drafts \cup Native
Runs == Drafts \X (1..MaxRuns)

Results == {"accepted", "rejected", "retryable_error", "unknown"}

ASSUME RepliesAssumption ==
  /\ None \notin Remote /\ None \notin Results /\ Drafts \cap Native = {} /\ Drafts \subseteq Nat
  /\ MaxRuns \in Nat /\ MaxSends \in Nat \ {0} /\ Tries \in Nat \ {0}
  /\ MaxFaults \in Nat

VARIABLES
  state, link,    \* response_drafts: state and outboundMessageId
  inbox,          \* messages: the direction a remote comment is stored with
  posted, sends,  \* the platform: comments, and how often each reply came
  shows,          \* what the platform says of an own comment
  started,        \* executions of each reply's workflow
  at, result, tried, lost,  \* each execution
  call,           \* its send activity
  pull,           \* the ingestion transaction under way
  faults          \* what is left of the budget

rowVars == <<state, link, inbox>>
platformVars == <<posted, sends, shows>>
runVars == <<started, at, result, tried, lost>>
vars == <<rowVars, platformVars, runVars, call, pull, faults>>

States == {"none", "queued", "sending", "sent", "failed", "outcome_unknown"}
Terminal == {"sent", "failed", "outcome_unknown"}

TypeOK ==
  /\ state \in [Drafts -> States]
  /\ link \in [Drafts -> Remote \cup {None}]
  /\ inbox \in [Remote -> {"none", "inbound", "outbound"}]
  /\ posted \subseteq Remote
  /\ sends \in [Drafts -> 0..MaxRuns]
  /\ shows \in [Remote -> {"own", "elsewhere", "unnamed"}]
  /\ started \in [Drafts -> 0..MaxRuns]
  /\ at \in [Runs -> {"none", "route", "send", "wait", "record", "done",
                      "failed"}]
  /\ result \in [Runs -> Results \cup {None}]
  /\ tried \in [Runs -> 0..MaxSends]
  /\ lost \in [Runs -> 0..Tries]
  /\ call \in [Runs -> {"idle", "load", "boundary", "post"}]
  /\ pull \in [comment: Remote, match: Drafts \cup {None}] \cup {None}
  /\ faults \in 0..MaxFaults

Init ==
  /\ state = [d \in Drafts |-> "none"]
  /\ link = [d \in Drafts |-> None]
  /\ inbox = [c \in Remote |-> "none"]
  /\ posted = {}
  /\ sends = [d \in Drafts |-> 0]
  /\ shows \in [Remote -> {"own", "elsewhere", "unnamed"}]
  /\ started = [d \in Drafts |-> 0]
  /\ at = [r \in Runs |-> "none"]
  /\ result = [r \in Runs |-> None]
  /\ tried = [r \in Runs |-> 0]
  /\ lost = [r \in Runs |-> 0]
  /\ call = [r \in Runs |-> "idle"]
  /\ pull = None
  /\ faults = MaxFaults

Fault == faults > 0 /\ faults' = faults - 1

-----------------------------------------------------------------------------
(* The command and the start of the workflow *)

\* reply: the draft is queued and its event written in one transaction.
Reply(d) ==
  /\ state[d] = "none"
  /\ state' = [state EXCEPT ![d] = "queued"]
  /\ UNCHANGED <<link, inbox, platformVars, runVars, call, pull, faults>>

\* The outbox starts the workflow; a redelivery after a failed execution
\* starts it again, a running or completed one it leaves alone.
StartWorkflow(d) ==
  LET k == started[d] + 1 IN
  /\ state[d] # "none"
  /\ started[d] < MaxRuns
  /\ started[d] > 0 => at[<<d, started[d]>>] = "failed"
  /\ started' = [started EXCEPT ![d] = k]
  /\ at' = [at EXCEPT ![<<d, k>>] = "route"]
  /\ UNCHANGED <<rowVars, platformVars, result, tried, lost, call, pull, faults>>

-----------------------------------------------------------------------------
(* The workflow *)

Goes(r, where) == at' = [at EXCEPT ![r] = where]

Concludes(r, res) ==
  /\ Goes(r, "record")
  /\ result' = [result EXCEPT ![r] = res]

\* An attempt of a control activity is lost; the last one fails the workflow.
LosesAttempt(r) ==
  /\ Fault
  /\ lost' = [lost EXCEPT ![r] = @ + 1]
  /\ Goes(r, IF lost[r] + 1 = Tries THEN "failed" ELSE at[r])

\* readReplyRoute: without an adapter that replies, nothing is sent.
ReadRoute(r) ==
  /\ at[r] = "route"
  /\ \/ /\ (Goes(r, "send") /\ UNCHANGED result) \/ Concludes(r, "rejected")
        /\ lost' = [lost EXCEPT ![r] = 0]
        /\ UNCHANGED faults
     \/ LosesAttempt(r) /\ UNCHANGED result
  /\ UNCHANGED <<rowVars, platformVars, started, tried, call, pull>>

SendReply(r) ==
  /\ at[r] = "send"
  /\ Goes(r, "wait")
  /\ tried' = [tried EXCEPT ![r] = @ + 1]
  /\ call' = [call EXCEPT ![r] = "load"]
  /\ UNCHANGED <<rowVars, platformVars, started, result, lost, pull, faults>>

\* A timeout or a lost worker is an unknown outcome.  The activity that timed
\* out goes on.
SendTimesOut(r) ==
  /\ at[r] = "wait"
  /\ IF call[r] = "idle" THEN UNCHANGED faults ELSE Fault
  /\ Concludes(r, "unknown")
  /\ UNCHANGED <<rowVars, platformVars, started, tried, lost, call, pull>>

Retries(r, res) == res = "retryable_error" /\ tried[r] < MaxSends

\* The activity answers; a workflow that has given up does not hear it.
Answers(r, res) ==
  /\ call' = [call EXCEPT ![r] = "idle"]
  /\ IF at[r] # "wait" THEN UNCHANGED <<at, result>>
     ELSE IF Retries(r, res) THEN Goes(r, "send") /\ UNCHANGED result
     ELSE Concludes(r, res)
  /\ UNCHANGED <<started, tried, lost>>

-----------------------------------------------------------------------------
(* sendReplyOnce *)

\* settledResult: a draft that left `queued` is never sent again.
Settled(s) ==
  CASE s = "sent" -> "accepted"
    [] s = "failed" -> "rejected"
    [] s \in {"outcome_unknown", "sending"} -> "unknown"
    [] OTHER -> None

\* The draft is loaded; a missing certificate, the limiter or the credential
\* end the attempt before anything is sent.
LoadDraft(r) ==
  LET answer == Settled(state[r[1]]) IN
  /\ call[r] = "load"
  /\ IF answer # None THEN Answers(r, answer)
     ELSE \/ call' = [call EXCEPT ![r] = "boundary"] /\ UNCHANGED runVars
          \/ Answers(r, "rejected")
          \/ Answers(r, "retryable_error")
          \/ Answers(r, "unknown")
  /\ UNCHANGED <<rowVars, platformVars, pull, faults>>

\* Mutant: the boundary trusts the draft the activity loaded.
StillQueuedUnlocked(d) == state[d] \notin Terminal

StillQueued(d) == state[d] = "queued"

\* The send boundary, under the row's lock: refused when the sender or the
\* channel may no longer, aborted as before_send when the draft has left
\* `queued` or the commit is not acknowledged.
Boundary(r) ==
  LET d == r[1] IN
  /\ call[r] = "boundary"
  /\ \/ /\ ~StillQueued(d)
        /\ Answers(r, "retryable_error")
        /\ UNCHANGED <<state, faults>>
     \/ /\ StillQueued(d)
        /\ state' = [state EXCEPT ![d] = "failed"]
        /\ Answers(r, "rejected")
        /\ UNCHANGED faults
     \/ /\ StillQueued(d)
        /\ state' = [state EXCEPT ![d] = "sending"]
        /\ \/ /\ call' = [call EXCEPT ![r] = "post"]
              /\ UNCHANGED <<runVars, faults>>
           \/ Fault /\ Answers(r, "retryable_error")
  /\ UNCHANGED <<link, inbox, platformVars, pull>>

\* The one platform call: it may take effect and its answer be lost.  After
\* the boundary an answer that could be retried counts as a rejection.
Post(r) ==
  LET d == r[1] IN
  /\ call[r] = "post"
  /\ \/ /\ posted' = posted \cup {d}
        /\ sends' = [sends EXCEPT ![d] = @ + 1]
        /\ \E res \in {"accepted", "unknown"} : Answers(r, res)
     \/ /\ \E res \in {"rejected", "unknown"} : Answers(r, res)
        /\ UNCHANGED <<posted, sends>>
  /\ UNCHANGED <<rowVars, shows, pull, faults>>

\* The worker of the activity is gone, before or after the call's effect.
CallDies(r) ==
  LET d == r[1] IN
  /\ call[r] # "idle" /\ Fault
  /\ call' = [call EXCEPT ![r] = "idle"]
  /\ \/ UNCHANGED <<posted, sends>>
     \/ /\ call[r] = "post"
        /\ posted' = posted \cup {d}
        /\ sends' = [sends EXCEPT ![d] = @ + 1]
  /\ UNCHANGED <<rowVars, shows, runVars, pull>>

-----------------------------------------------------------------------------
(* recordReplyOutcome *)

\* Mutant: an unknown outcome is a failure.
OutcomeAlwaysFails(d, res) == IF res = "accepted" THEN "sent" ELSE "failed"

\* Mutant: a draft whose retries are used up is left for another send.
OutcomeKeepsQueued(d, res) ==
  IF res = "retryable_error" THEN state[d]
  ELSE IF res = "accepted" THEN "sent"
  ELSE IF res = "unknown" /\ state[d] = "sending" THEN "outcome_unknown"
  ELSE "failed"

\* Under the lock: unknown counts only once the boundary was crossed.
Outcome(d, res) ==
  IF res = "accepted" THEN "sent"
  ELSE IF res = "unknown" /\ state[d] = "sending" THEN "outcome_unknown"
  ELSE "failed"

\* Mutant: a comment that is stored already is left as it is.
ShowsUnlessStored(d) ==
  IF inbox[d] = "none" THEN [inbox EXCEPT ![d] = "outbound"] ELSE inbox

\* The reply is stored, or the row ingestion made of it is set outbound.
ShowsReply(d) == [inbox EXCEPT ![d] = "outbound"]

\* A settled draft keeps what it has.
Settles(d, res) ==
  IF state[d] \in Terminal THEN UNCHANGED rowVars
  ELSE /\ state' = [state EXCEPT ![d] = Outcome(d, res)]
       /\ IF res = "accepted"
            THEN link' = [link EXCEPT ![d] = d] /\ inbox' = ShowsReply(d)
            ELSE UNCHANGED <<link, inbox>>

\* Retried until an attempt's answer arrives; the transaction commits or not.
RecordOutcome(r) ==
  /\ at[r] = "record"
  /\ \/ Settles(r[1], result[r]) /\ Goes(r, "done") /\ UNCHANGED <<lost, faults>>
     \/ LosesAttempt(r) /\ (Settles(r[1], result[r]) \/ UNCHANGED rowVars)
  /\ UNCHANGED <<platformVars, started, result, tried, call, pull>>

-----------------------------------------------------------------------------
(* Comment ingestion of the brand's own comments *)

\* Somebody of the brand answers on the platform itself.
PostNative(c) ==
  /\ c \notin posted
  /\ posted' = posted \cup {c}
  /\ UNCHANGED <<rowVars, sends, shows, runVars, call, pull, faults>>

\* Mutant: only replies known to be in doubt.
UnconfirmedInDoubt(c) ==
  {d \in Drafts : state[d] = "outcome_unknown" /\ Wording[d] = Wording[c]}

\* listUnconfirmedReplies to the same comment, of the same text.
Unconfirmed(c) ==
  {d \in Drafts : /\ state[d] \in {"sending", "outcome_unknown"}
                  /\ Wording[d] = Wording[c]}

\* A pull has c on its page and writes it: unnamed as a customer's comment, and
\* as the brand's own with the oldest draft that fits.  A comment the platform
\* shows under another parent fits none.
IngestComment(c) ==
  /\ pull = None
  /\ c \in posted /\ inbox[c] = "none"
  /\ IF shows[c] = "unnamed"
       THEN /\ inbox' = [inbox EXCEPT ![c] = "inbound"]
            /\ UNCHANGED pull
       ELSE /\ LET fits == IF shows[c] = "own" THEN Unconfirmed(c) ELSE {} IN
               \/ fits = {} /\ pull' = [comment |-> c, match |-> None]
               \/ \E d \in fits :
                    /\ \A e \in fits : d <= e
                    /\ pull' = [comment |-> c, match |-> d]
            /\ UNCHANGED inbox
  /\ UNCHANGED <<state, link, platformVars, runVars, call, faults>>

\* confirmIngestedOwnReply locks the match and asks its state again; a comment
\* that is stored by now is a duplicate key and rolls the transaction back.
ConfirmIngested ==
  /\ pull # None
  /\ pull' = None
  /\ IF inbox[pull.comment] # "none" THEN UNCHANGED rowVars
     ELSE /\ inbox' = [inbox EXCEPT ![pull.comment] = "outbound"]
          /\ IF pull.match # None /\ state[pull.match] \in
                                       {"sending", "outcome_unknown"}
               THEN /\ state' = [state EXCEPT ![pull.match] = "sent"]
                    /\ link' = [link EXCEPT ![pull.match] = pull.comment]
               ELSE UNCHANGED <<state, link>>
  /\ UNCHANGED <<platformVars, runVars, call, faults>>

-----------------------------------------------------------------------------

Workflow(r) ==
  ReadRoute(r) \/ SendReply(r) \/ SendTimesOut(r) \/ RecordOutcome(r)

Activity(r) == LoadDraft(r) \/ Boundary(r) \/ Post(r)

Next ==
  \/ \E d \in Drafts : Reply(d) \/ StartWorkflow(d)
  \/ \E r \in Runs : Workflow(r) \/ Activity(r) \/ CallDies(r)
  \/ \E c \in Native : PostNative(c)
  \/ \E c \in Remote : IngestComment(c)
  \/ ConfirmIngested

Spec == Init /\ [][Next]_vars

\* The outbox starts what is queued, and workflows and workers go on.  People
\* and pulls owe nothing.
Fairness ==
  /\ \A d \in Drafts : WF_vars(StartWorkflow(d))
  /\ \A r \in Runs : WF_vars(Workflow(r)) /\ WF_vars(Activity(r))

FairSpec == Spec /\ Fairness

-----------------------------------------------------------------------------
(* Properties *)

\* A reply reaches the platform once, through retries, timeouts with the call
\* still going, and executions that are started again.
PostedOnce == \A d \in Drafts : sends[d] <= 1

\* A reply that failed was not posted and never will be, as long as one
\* execution alone handles it.
FailedWasNotPosted ==
  \A d \in Drafts : state[d] = "failed" /\ started[d] = 1 => d \notin posted

\* A sent reply is in the inbox as the brand's own comment, of its own words.
SentIsShown ==
  \A d \in Drafts :
    state[d] = "sent" =>
      /\ link[d] \in posted /\ inbox[link[d]] = "outbound"
      /\ Wording[link[d]] = Wording[d]

\* A reply that was found on the platform as the brand's own is known to be
\* sent, however its send ended, as long as one execution handled it and no
\* other reply of the same words may have taken the find.
FoundIsConfirmed ==
  \A d \in Drafts :
    /\ inbox[d] = "outbound" /\ shows[d] = "own" /\ started[d] = 1
    /\ \A e \in Drafts \ {d} : Wording[e] = Wording[d] => state[e] = "none"
    => state[d] = "sent"

\* A queued reply is settled in the end, unless its workflow failed.
ReplyEnds ==
  \A d \in Drafts :
    state[d] = "queued" ~>
      state[d] \in Terminal \/ \E k \in 1..MaxRuns : at[<<d, k>>] = "failed"

=============================================================================
