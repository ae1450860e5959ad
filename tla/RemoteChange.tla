---------------------------- MODULE RemoteChange ----------------------------
(***************************************************************************)
(* Edits, deletions and reverts of one published post: the requests of     *)
(* people, the workflow that carries each request out and records its      *)
(* outcome, the sweep of stale requests, the check of the rendered page,   *)
(* and the platform or website the post is on.  A platform call is not one *)
(* step: the request is checked, sent, read back and recorded apart, and   *)
(* the answer of a call, or the call itself, can outlive its activity.     *)
(***************************************************************************)
EXTENDS Naturals, FiniteSets

CONSTANTS
  MaxChanges,   \* bound: requests for this post
  Texts,        \* texts an edit can ask for
  Original,     \* the text of the channel variant
  Foreign,      \* what people write on the website itself
  Tries,        \* calls of one change; REMOTE_CHANGE_MAX_ATTEMPTS is 5
  RecordTries,  \* attempts of recordRemoteChangeOutcome; maximumAttempts is 5
  MaxFaults,    \* bound: calls, answers and acknowledgements lost or outlived
  MaxAged,      \* bound: requests that are not closed within 6 hours
  MaxVisits     \* bound: edits on the website itself and checks of its page

ASSUME RemoteChangeAssumption ==
  /\ MaxChanges \in Nat /\ Tries \in Nat \ {0} /\ RecordTries \in Nat \ {0}
  /\ MaxFaults \in Nat /\ MaxAged \in Nat /\ MaxVisits \in Nat
  /\ Original \notin Texts /\ Foreign \notin Texts /\ Original # Foreign

VARIABLES
  site,            \* the post is an article on a website, not on a channel
  pub, status,     \* publications.state and remoteStatus
  current,         \* the text of latestSucceededEdit, else of the variant
  evidence,        \* revision of the newest remote_readback
  verification,    \* remoteVerification
  proven,          \* the text the newest passing page check looked for
  change,          \* publication_remote_changes, by id
  flow,            \* the workflow of each change
  aged,            \* changes requested REMOTE_CHANGE_STALE_MS ago
  check,           \* the page check under way
  gone, hidden, shown, rev,     \* the post itself
  wire,            \* calls that are on the wire and that nobody waits for
  faults, visits,            \* what is left of each bound
  acted,           \* history: changes the platform has carried out
  unseen,          \* history: edits that replaced a text not read back for them
  outlived         \* history: a call has outlived its activity

rowVars == <<site, pub, status, current, evidence, verification, proven>>
postVars == <<gone, hidden, shown, rev>>
limitVars == <<faults, visits>>
ghostVars == <<acted, unseen, outlived>>
vars == <<rowVars, change, flow, aged, check, postVars, wire, limitVars, ghostVars>>

Changes == 1..MaxChanges
Kinds == {"edit", "delete", "unpublish"}
AllTexts == Texts \cup {Original, Foreign}

\* "stale" is failed with one of STALE_CLOSURE_CODES, "late" is succeeded with
\* confirmed_after_stale.  asked: the evidence there was at the request.
ChangeStates == {"none", "requested", "succeeded", "failed", "stale", "late"}
ChangeRows ==
  [state : ChangeStates, kind : Kinds, text : Texts \cup {Original}, asked : Nat]
NoChange == [state |-> "none", kind |-> "edit", text |-> Original, asked |-> 0]

\* revision: the one a call expects, then the one that its answer shows.
Results ==
  {"none", "done", "already_absent", "rejected", "conflict", "limited", "retryable"}
Flows ==
  [at : {"idle", "call", "send", "readback", "record", "over"}, tries : Nat,
   result : Results, revision : Nat, mismatch : BOOLEAN]

Verifications == {"verified", "failed", "unverified"}
NoCheck == [at |-> "none", outcome |-> "unverified", text |-> Original]

TypeOK ==
  /\ site \in BOOLEAN
  /\ pub \in {"published", "removed"} /\ status \in {"live", "reverted"}
  /\ current \in Texts \cup {Original}
  /\ evidence \in Nat
  /\ verification \in Verifications /\ proven \in Texts \cup {Original}
  /\ change \in [Changes -> ChangeRows]
  /\ flow \in [Changes -> Flows]
  /\ aged \subseteq Changes
  /\ check \in [at : {"none", "delayed", "asked"}, outcome : Verifications,
                text : Texts \cup {Original}]
  /\ gone \in BOOLEAN /\ hidden \in BOOLEAN
  /\ shown \in AllTexts /\ rev \in Nat
  /\ wire \subseteq Changes \X Nat
  /\ faults \in 0..MaxFaults
  /\ visits \in 0..MaxVisits
  /\ acted \subseteq Changes
  /\ unseen \subseteq Changes
  /\ outlived \in BOOLEAN

\* A post that markPublished has recorded; an article was read back and checked.
Init ==
  /\ site \in BOOLEAN
  /\ pub = "published" /\ status = "live"
  /\ current = Original /\ evidence = 1
  /\ verification = "verified" /\ proven = Original
  /\ change = [c \in Changes |-> NoChange]
  /\ flow = [c \in Changes |-> [at |-> "idle", tries |-> Tries, result |-> "none",
                               revision |-> 0, mismatch |-> FALSE]]
  /\ aged = {} /\ check = NoCheck
  /\ gone = FALSE /\ hidden = FALSE /\ shown = Original /\ rev = 1
  /\ wire = {}
  /\ faults = MaxFaults /\ visits = MaxVisits
  /\ acted = {} /\ unseen = {}
  /\ outlived = FALSE

-----------------------------------------------------------------------------
(* Requests *)

Open == {c \in Changes : change[c].state = "requested"}
Made == {c \in Changes : change[c].state # "none"}

\* assertRemoteChangeAllowed: only stale requests can be superseded.
OthersSettled == Open \subseteq aged

\* Mutant: a new request leaves the one it supersedes open.
SupersededNone == {}

\* The requests that a new one closes.
Superseded == Open

Request(c, k, t) ==
  /\ c = Cardinality(Made) + 1
  /\ pub = "published"
  /\ OthersSettled
  /\ IF k = "edit" THEN t \in Texts /\ t # current ELSE t = Original
  /\ k = "unpublish" => site /\ status = "live"
  /\ change' = [d \in Changes |->
       IF d = c
         THEN [state |-> "requested", kind |-> k, text |-> t, asked |-> evidence]
       ELSE IF d \in Superseded THEN [change[d] EXCEPT !.state = "stale"]
       ELSE change[d]]
  /\ UNCHANGED <<rowVars, flow, aged, check, postVars, wire, limitVars, ghostVars>>

Ages(c) ==
  /\ c \in Open \ aged /\ Cardinality(aged) < MaxAged
  /\ aged' = aged \cup {c}
  /\ UNCHANGED <<rowVars, change, flow, check, postVars, wire, limitVars, ghostVars>>

Sweep(c) ==
  /\ c \in Open \cap aged
  /\ change' = [change EXCEPT ![c].state = "stale"]
  /\ UNCHANGED <<rowVars, flow, aged, check, postVars, wire, limitVars, ghostVars>>

-----------------------------------------------------------------------------
(* The post *)

\* Mutant: the website is not asked for its revision.
VerdictBlind(c, e) ==
  IF ~gone THEN "done"
  ELSE IF change[c].kind = "edit" THEN "rejected" ELSE "already_absent"

\* What the platform answers to a call of c that expects revision e.
Verdict(c, e) ==
  CASE gone -> IF change[c].kind = "edit" THEN "rejected" ELSE "already_absent"
    [] ~gone /\ site /\ change[c].kind = "edit" /\ e # rev -> "conflict"
    [] OTHER -> "done"

Performs(c, e) ==
  IF Verdict(c, e) # "done" THEN UNCHANGED <<postVars, acted, unseen>>
  ELSE /\ gone' = (change[c].kind = "delete")
       /\ hidden' = (hidden \/ change[c].kind = "unpublish")
       /\ shown' = IF change[c].kind = "edit" THEN change[c].text ELSE shown
       /\ rev' = IF site /\ ~(hidden /\ change[c].kind = "unpublish") THEN rev + 1 ELSE rev
       /\ acted' = acted \cup {c}
       /\ unseen' = IF /\ site /\ change[c].kind = "edit"
                       /\ shown = Foreign /\ rev > change[c].asked
                      THEN unseen \cup {c} ELSE unseen

Visit == visits > 0 /\ visits' = visits - 1

SiteEdit ==
  /\ site /\ ~gone /\ Visit
  /\ shown' = Foreign /\ rev' = rev + 1
  /\ UNCHANGED <<rowVars, change, flow, aged, check, gone, hidden, wire, faults,
                 ghostVars>>

\* A call that was given up reaches the platform.
Lands(l) ==
  /\ l \in wire /\ wire' = wire \ {l}
  /\ Performs(l[1], l[2])
  /\ UNCHANGED <<rowVars, change, flow, aged, check, limitVars, outlived>>

-----------------------------------------------------------------------------
(* The workflow of a change *)

Goes(c, where) == flow' = [flow EXCEPT ![c].at = where]
Fault == faults > 0 /\ faults' = faults - 1

Outcome(c, result) ==
  flow' = [flow EXCEPT ![c].at = "record", ![c].tries = RecordTries,
                       ![c].result = result]

\* A retryable outcome: again, or recorded as the failure it is.
Again(c) ==
  IF flow[c].tries > 1
    THEN flow' = [flow EXCEPT ![c].at = "call", ![c].tries = @ - 1]
    ELSE Outcome(c, "retryable")

Start(c) ==
  /\ change[c].state # "none" /\ flow[c].at = "idle"
  /\ Goes(c, "call")
  /\ UNCHANGED <<rowVars, change, aged, check, postVars, wire, limitVars, ghostVars>>

Sending(c) ==
  /\ flow' = [flow EXCEPT ![c].at = "send", ![c].revision = evidence]

\* applyRemoteChange up to the call.  The requester's permission, the adapter's
\* certification or the credential may refuse what the rows allow.
Call(c) ==
  /\ flow[c].at = "call"
  /\ IF change[c].state # "requested" THEN Goes(c, "over")
     ELSE \/ Outcome(c, "rejected")
          \/ pub = "published" /\ Sending(c)
  /\ UNCHANGED <<rowVars, change, aged, check, postVars, wire, limitVars, ghostVars>>

Answered(c, result) ==
  flow' = [flow EXCEPT ![c].at = "record", ![c].tries = RecordTries,
                       ![c].result = result, ![c].revision = rev]

\* The call is carried out and answered, or its answer is lost, or it is refused
\* or lost before it has any effect, or it is given up and still on the wire.  A
\* website that cannot compare and write in one step is in limited mode.
Send(c) ==
  LET e == flow[c].revision
      verdict == Verdict(c, e) IN
  /\ flow[c].at = "send"
  /\ \/ /\ Performs(c, e)
        /\ \/ /\ IF site /\ verdict = "done" /\ change[c].kind # "delete"
                   THEN flow' = [flow EXCEPT ![c].at = "readback",
                                             ![c].revision = rev']
                   ELSE Answered(c, verdict)
              /\ UNCHANGED faults
           \/ Fault /\ Again(c)
        /\ UNCHANGED <<wire, outlived>>
     \/ /\ UNCHANGED <<postVars, acted, unseen>>
        /\ \/ Outcome(c, "rejected") /\ UNCHANGED <<wire, faults, outlived>>
           \/ /\ site /\ ~gone /\ change[c].kind = "edit"
              /\ Answered(c, "limited") /\ UNCHANGED <<wire, faults, outlived>>
           \/ Fault /\ Again(c) /\ UNCHANGED <<wire, outlived>>
           \/ /\ Fault /\ Again(c)
              /\ wire' = wire \cup {<<c, e>>} /\ outlived' = TRUE
  /\ UNCHANGED <<rowVars, change, aged, check, visits>>

\* readBackAfterWrite: the article as it is now, or as the write answered it.
ReadBack(c) ==
  /\ flow[c].at = "readback"
  /\ \/ /\ ~gone
        /\ flow' = [flow EXCEPT ![c].at = "record", ![c].tries = RecordTries,
                                ![c].result = "done", ![c].revision = rev,
                                ![c].mismatch = change[c].kind = "edit"
                                                  /\ shown # change[c].text]
        /\ UNCHANGED faults
     \/ Outcome(c, "done") /\ UNCHANGED faults
     \/ Fault /\ Again(c)
  /\ UNCHANGED <<rowVars, change, aged, check, postVars, wire, visits,
                 ghostVars>>

Succeeded(result) == result \in {"done", "already_absent"}

\* Mutant: a confirmation after the stale closure is dropped.
LateNever(c) == FALSE

Late(c) == change[c].state = "stale" /\ Succeeded(flow[c].result)

Writes(c) == change[c].state = "requested" \/ Late(c)

\* Mutant: what is left after the last attempt is taken for success.
RecordedAlways(c) ==
  IF ~Writes(c) THEN change[c].state
  ELSE IF Late(c) THEN "late" ELSE "succeeded"

Recorded(c) ==
  IF ~Writes(c) THEN change[c].state
  ELSE IF Late(c) THEN "late"
  ELSE IF Succeeded(flow[c].result) THEN "succeeded" ELSE "failed"

\* The rows the outcome of c moves, under the publication's lock.
WriteOutcome(c) ==
  LET success == Recorded(c) \in {"succeeded", "late"} /\ Writes(c)
      k == change[c].kind
      read == site /\ flow[c].result = "done" /\ k # "delete" IN
  /\ change' = [change EXCEPT ![c].state = Recorded(c)]
  /\ current' = IF success /\ k = "edit" THEN change[c].text ELSE current
  /\ evidence' = IF Writes(c) /\ (read \/ flow[c].result \in {"conflict", "limited"})
                   THEN flow[c].revision ELSE evidence
  /\ status' = IF success /\ read /\ k = "unpublish" THEN "reverted" ELSE status
  /\ verification' = IF success /\ read
                       THEN IF flow[c].mismatch THEN "failed" ELSE "unverified"
                       ELSE verification
  /\ pub' = IF success /\ k = "delete" THEN "removed" ELSE pub

RecordAgain(c) ==
  IF flow[c].tries > 1 THEN flow' = [flow EXCEPT ![c].tries = @ - 1]
                       ELSE Goes(c, "over")

\* The transaction commits and is acknowledged, or not, or the attempt is lost.
Record(c) ==
  /\ flow[c].at = "record"
  /\ \/ WriteOutcome(c) /\ Goes(c, "over") /\ UNCHANGED faults
     \/ WriteOutcome(c) /\ Fault /\ RecordAgain(c)
     \/ /\ Fault /\ RecordAgain(c)
        /\ UNCHANGED <<change, current, evidence, status, verification, pub>>
  /\ UNCHANGED <<site, proven, aged, check, postVars, wire, visits,
                 ghostVars>>

-----------------------------------------------------------------------------
(* The check of the rendered page *)

\* The page is fetched without a lock; it is compared with the text of now.
FetchPage(how) ==
  /\ check.at = "none" /\ Visit
  /\ site /\ pub = "published"
  /\ how = "delayed" => status = "live"
  /\ check' = [at |-> how, text |-> current,
               outcome |-> IF gone \/ hidden THEN "unverified"
                           ELSE IF shown = current THEN "verified" ELSE "failed"]
  /\ UNCHANGED <<rowVars, change, flow, aged, postVars, wire, faults, ghostVars>>

\* Under the lock; a delayed check of an article that has moved is dropped.
RecordCheck ==
  /\ check.at # "none"
  /\ check' = NoCheck
  /\ IF check.at = "asked" \/ (pub = "published" /\ status = "live")
       THEN /\ verification' = check.outcome
            /\ proven' = IF check.outcome = "verified" THEN check.text ELSE proven
       ELSE UNCHANGED <<verification, proven>>
  /\ UNCHANGED <<site, pub, status, current, evidence, change, flow, aged, postVars,
                 wire, limitVars, ghostVars>>

-----------------------------------------------------------------------------

Workflow(c) == Start(c) \/ Call(c) \/ Send(c) \/ ReadBack(c) \/ Record(c)

Next ==
  \/ \E c \in Changes : Workflow(c) \/ Ages(c) \/ Sweep(c)
  \/ \E c \in Changes, k \in Kinds, t \in Texts \cup {Original} : Request(c, k, t)
  \/ \E l \in wire : Lands(l)
  \/ SiteEdit
  \/ \E how \in {"delayed", "asked"} : FetchPage(how)
  \/ RecordCheck

Spec == Init /\ [][Next]_vars

\* Time passes, the sweep is scheduled, and Temporal drives every workflow.
FairSpec ==
  /\ Spec
  /\ \A c \in Changes :
       WF_vars(Workflow(c)) /\ WF_vars(Ages(c)) /\ WF_vars(Sweep(c))

-----------------------------------------------------------------------------
(* Properties *)

\* A change is recorded as succeeded, and the publication as removed, only for
\* what the platform did: through lost answers, repeats and stale closures.
RecordIsEarned ==
  /\ \A c \in Changes : change[c].state \in {"succeeded", "late"} =>
       c \in acted \/ (change[c].kind # "edit" /\ gone)
  /\ pub = "removed" => gone

\* Nothing on the record is in doubt: no request was closed as stale, no call
\* outlived its activity, and no change failed after it was carried out.
NoDoubt ==
  /\ ~outlived
  /\ \A c \in Changes :
       /\ change[c].state \notin {"requested", "stale", "late"}
       /\ change[c].state = "failed" => c \notin acted

\* Then the text on the record is the text of the post, unless a person changed
\* it on the website or deleted it: repeats and refusals leave no other trace.
TextIsKnown == NoDoubt /\ ~gone /\ shown # Foreign => shown = current

\* While no request is closed as stale, an edit never replaces what a person
\* wrote on the website and the product had not read back when it was asked.
SiteEditKept ==
  (\A c \in Changes : change[c].state \notin {"stale", "late"}) => unseen = {}

\* An outcome is written once; only a stale closure gives way, to a success the
\* platform confirmed, and a removed publication stays removed.
OutcomeIsFinal ==
  [][/\ \A c \in Changes :
          change[c].state \in {"succeeded", "failed", "stale", "late"} =>
            \/ change'[c] = change[c]
            \/ change[c].state = "stale" /\ change'[c].state = "late"
     /\ pub = "removed" => pub' = "removed"]_vars

\* What the platform confirmed reaches the record even when the request was
\* closed as stale before its workflow could say so.
ConfirmationIsRecorded ==
  \A c \in Changes :
    flow[c].at = "record" /\ Succeeded(flow[c].result)
      ~> change[c].state \in {"succeeded", "late"} \/ MaxFaults >= RecordTries

=============================================================================
