---------------------------- MODULE Publication ----------------------------
(***************************************************************************)
(* One publication from schedule to outcome: the row and its attempt       *)
(* ledger (modules/publishing), the publication workflow and the reconcile *)
(* loop (packages/workflows), publishOnce on the provider queue, the       *)
(* sweeper, and the commands a person gives.  Each control activity is one *)
(* transaction under the row lock and is one action here; the workflow,    *)
(* the provider call, the sweeper and the person interleave between them.  *)
(*                                                                         *)
(* Processes: Gens are the generations of publicationWorkflowV1 (one per   *)
(* release of the row), Rec(f) is the publicationReconcileWorkflowV1 asked *)
(* for when claim f was lost or restored.  A claim is its fencing token;   *)
(* there is one attempt per claim, so an attempt is named by its token.    *)
(***************************************************************************)
EXTENDS Naturals, FiniteSets, PublicationMachine

CONSTANTS
  MaxGen,        \* bound: generations of the publication workflow
  MaxFence,      \* bound: fencing tokens issued
  MaxPreSend,    \* maxPreSendAttempts (8 in production)
  MaxFaults,     \* bound: lost activity replies and workflow deaths
  MaxRestores,   \* bound: holdRestored commands
  MaxSlowSweeps, \* bound: sweeps that lock the row later than they read it
  MaxCancels,    \* bound: cancel commands on a row in flight
  JobsListed     \* the platform lists a post it is still processing

ASSUME BoundsAssumption ==
  /\ MaxGen \in Nat \ {0}
  /\ MaxFence \in Nat
  /\ MaxPreSend \in Nat
  /\ MaxFaults \in Nat
  /\ MaxRestores \in Nat
  /\ MaxCancels \in Nat
  /\ MaxSlowSweeps \in Nat
  /\ JobsListed \in BOOLEAN

Claims == 1..MaxFence
Gens == 1..MaxGen
Procs == 1..(MaxGen + MaxFence)
Rec(f) == MaxGen + f

Outcomes == {"accepted", "pending", "rejected", "retryable", "unknown"}

VARIABLES
  state, fence, claimant, gen,  \* the publications row
  opened, sent, outcome,        \* the publication_attempts rows
  run,                          \* the Temporal executions
  call,                         \* publishOnce, one activity per attempt
  post,                         \* what the platform holds for an attempt
  starts, relays,               \* undelivered outbox events
  sweepRef,                     \* what the sweeper read before locking
  cleared, byPerson,            \* history: sends settled before a re-release
  trespassed,                   \* history: a superseded run moved the row
  faults, restores, cancels, slowSweeps  \* what is left of each budget

rowVars == <<state, fence, claimant, gen>>
ledgerVars == <<opened, sent, outcome>>
eventVars == <<starts, relays, sweepRef>>
historyVars == <<cleared, byPerson, trespassed>>
limitVars == <<restores, cancels, slowSweeps>>
budgetVars == <<faults, limitVars>>
remoteVars == <<call, post>>
vars == <<rowVars, ledgerVars, run, remoteVars, eventVars, historyVars,
          budgetVars>>

-----------------------------------------------------------------------------
(* Types *)

EndPcs == {"none", "completed", "failed"}
PcSet == EndPcs \cup Outcomes \cup
         {"requested", "wait", "claim", "evaluate", "deny", "allowed",
          "await", "poll", "look", "found", "absent", "exhausted"}
Execution == [pc : PcSet, n : Nat, claim : 0..MaxFence, cancel : BOOLEAN]
\* A call to be loaded, about to send, with its mutation out, with a result
\* to record, or none.
CallSet == {"none", "load", "send", "out"} \cup Outcomes

TypeOK ==
  /\ state \in States
  /\ fence \in 0..MaxFence
  /\ claimant \in Gens \X Nat
  /\ gen \in Gens
  /\ opened \in SUBSET Claims
  /\ sent \in SUBSET Claims
  /\ outcome \in [Claims -> Outcomes \cup {"unset"}]
  /\ run \in [Procs -> Execution]
  /\ call \in [Claims -> CallSet]
  /\ post \in [Claims -> {"none", "job", "live"}]
  /\ starts \in SUBSET Gens
  /\ relays \in SUBSET Gens
  /\ sweepRef \in 0..MaxGen
  /\ cleared \in SUBSET Claims
  /\ byPerson \in SUBSET Claims
  /\ trespassed \in BOOLEAN
  /\ faults \in 0..MaxFaults
  /\ restores \in 0..MaxRestores
  /\ cancels \in 0..MaxCancels
  /\ slowSweeps \in 0..MaxSlowSweeps

Idle == [pc |-> "none", n |-> 0, claim |-> 0, cancel |-> FALSE]

Init ==
  /\ state = "scheduled" /\ fence = 0 /\ claimant = <<1, 0>> /\ gen = 1
  /\ opened = {} /\ sent = {} /\ outcome = [f \in Claims |-> "unset"]
  /\ run = [p \in Procs |-> Idle]
  /\ call = [f \in Claims |-> "none"]
  /\ post = [f \in Claims |-> "none"]
  /\ starts = {1} /\ relays = {} /\ sweepRef = 0
  /\ cleared = {} /\ byPerson = {} /\ trespassed = FALSE
  /\ faults = MaxFaults /\ restores = MaxRestores /\ cancels = MaxCancels
  /\ slowSweeps = MaxSlowSweeps

-----------------------------------------------------------------------------
(* Helpers *)

At(p, pc) == run[p].pc = pc
Running(p) == run[p].pc \notin EndPcs

\* An ended execution keeps its run number, nothing else.
Ended(p, pc) == [Idle EXCEPT !.pc = pc, !.n = run[p].n]

\* The reply of a control activity reaches the workflow, which goes on at pc
\* holding claim c; or it is lost and Temporal runs the activity once more.
ReplyWith(p, pc, c) ==
  \/ /\ run' = [run EXCEPT ![p] =
                   IF pc \in EndPcs THEN Ended(p, pc)
                   ELSE [run[p] EXCEPT !.pc = pc, !.claim = c]]
     /\ UNCHANGED faults
  \/ /\ faults > 0
     /\ faults' = faults - 1
     /\ UNCHANGED run
Reply(p, pc) == ReplyWith(p, pc, run[p].claim)

\* VALIDATION_FAILED is not retried: the execution fails.
Refused(p) ==
  /\ run' = [run EXCEPT ![p] = Ended(p, "failed")]
  /\ UNCHANGED faults

\* The claim a process acts for.
Own(p) == IF p \in Gens THEN run[p].claim ELSE p - MaxGen

\* For the history only: the row is moved on behalf of claim c while another
\* claim is in force, or a later one has sent.
Trespass(c) ==
  \/ state \in {"dispatching", "processing"} /\ c # fence
  \/ state = "outcome_unknown" /\ \E f \in sent : f > c

\* One state move asked for on behalf of claim c.
Fire(c, e) ==
  /\ state' \in To(state, e)
  /\ trespassed' = (trespassed \/ Trespass(c))

Stay == UNCHANGED <<state, trespassed>>

\* The common shape of the control activities: a repeat finds the row where
\* the activity leaves it, otherwise the machine moves it or refuses.
Mark(p, settled, e, pc) ==
  \/ state = settled /\ Stay /\ Reply(p, pc)
  \/ state # settled /\ Fire(Own(p), e) /\ Reply(p, pc)
  \/ state # settled /\ Illegal(state, e) /\ Stay /\ Refused(p)

RecordOutcome(f, res) ==
  outcome' = IF f \in opened /\ outcome[f] = "unset"
               THEN [outcome EXCEPT ![f] = res] ELSE outcome

\* publication.reconcile_requested for the attempt of claim f (0: none).
RequestReconcile(f, c) ==
  run' = [run EXCEPT ![Rec(f)] = [Idle EXCEPT !.pc = "requested", !.claim = c]]

AttemptOf(f) == IF f \in opened THEN f ELSE 0

ClaimUnchanged == UNCHANGED <<fence, claimant, gen>>
OnlyMarked ==
  /\ ClaimUnchanged
  /\ UNCHANGED <<ledgerVars, remoteVars, eventVars, cleared, byPerson,
                 limitVars>>

-----------------------------------------------------------------------------
(* publicationWorkflowV1: the wait, the claim and the release check *)

\* readSchedule: not scheduled any more ends the run; due goes on to the claim.
\* (A row that is not due yet leaves the run waiting.)
ReadSchedule(g) ==
  /\ At(g, "wait")
  /\ run' = [run EXCEPT ![g] = IF state = "scheduled"
                                 THEN [run[g] EXCEPT !.pc = "claim"]
                                 ELSE Ended(g, "completed")]
  /\ UNCHANGED <<rowVars, ledgerVars, remoteVars, eventVars, historyVars,
                 budgetVars>>

CancelIfNotStarted(g) ==
  /\ At(g, "wait") /\ run[g].cancel
  /\ IF state = "scheduled" THEN Fire(run[g].claim, "user_cancel") ELSE Stay
  /\ Reply(g, "completed")
  /\ OnlyMarked

ClaimForDispatch(g) ==
  /\ At(g, "claim")
  /\ \/ /\ state = "dispatching" /\ claimant = <<g, run[g].n>>
        /\ Stay
        /\ UNCHANGED <<fence, claimant>>
        /\ ReplyWith(g, "evaluate", fence)
     \/ /\ state = "scheduled" /\ fence < MaxFence
        /\ Fire(run[g].claim, "claim")
        /\ fence' = fence + 1
        /\ claimant' = <<g, run[g].n>>
        /\ ReplyWith(g, "evaluate", fence + 1)
     \/ /\ state # "scheduled"
        /\ ~(state = "dispatching" /\ claimant = <<g, run[g].n>>)
        /\ Stay
        /\ UNCHANGED <<fence, claimant>>
        /\ Reply(g, "completed")
  /\ UNCHANGED <<gen, ledgerVars, remoteVars, eventVars, cleared, byPerson,
                 limitVars>>

\* The decision is the review module's; the fence is read without a lock.
EvaluateRelease(g) ==
  /\ At(g, "evaluate")
  /\ IF fence = run[g].claim
       THEN \E verdict \in {"deny", "allowed"} : Reply(g, verdict)
       ELSE Refused(g)
  /\ UNCHANGED <<rowVars, ledgerVars, remoteVars, eventVars, historyVars,
                 limitVars>>

Hold(g) ==
  /\ At(g, "deny")
  /\ Mark(g, "held", "release_policy_failed", "completed")
  /\ OnlyMarked

\* The claim is given back and the row cancelled, in one transaction.
ReleaseClaimAndCancel(g) ==
  /\ At(g, "allowed") /\ run[g].cancel
  /\ \/ /\ state = "cancelled"
        /\ Stay /\ UNCHANGED claimant
        /\ Reply(g, "completed")
     \/ /\ state = "dispatching"
        /\ fence = run[g].claim /\ fence \notin opened
        /\ state' = "cancelled" /\ UNCHANGED trespassed
        /\ claimant' = <<claimant[1], 0>>
        /\ Reply(g, "completed")
     \/ /\ state # "cancelled"
        /\ state = "dispatching" => (fence # run[g].claim \/ fence \in opened)
        /\ Stay /\ UNCHANGED claimant
        /\ Refused(g)
  /\ UNCHANGED <<fence, gen, ledgerVars, remoteVars, eventVars, cleared,
                 byPerson, limitVars>>

\* openAttempt, idempotent per fence; the workflow then calls publishOnce.
OpenAttempt(g) ==
  /\ At(g, "allowed") /\ ~run[g].cancel
  /\ IF fence = run[g].claim /\ (fence \in opened \/ state = "dispatching")
       THEN /\ opened' = opened \cup {fence}
            /\ \/ /\ run' = [run EXCEPT ![g].pc = "await"]
                  /\ call' = [call EXCEPT ![fence] = "load"]
                  /\ UNCHANGED faults
               \/ /\ faults > 0 /\ faults' = faults - 1
                  /\ UNCHANGED <<run, call>>
       ELSE Refused(g) /\ UNCHANGED <<opened, call>>
  /\ UNCHANGED <<rowVars, sent, outcome, post, eventVars, historyVars,
                 limitVars>>

-----------------------------------------------------------------------------
(* publishOnce: an activity of its own, which a dead workflow leaves behind *)

CallGoes(f, pc) == call' = [call EXCEPT ![f] = pc]
OnlyCall ==
  UNCHANGED <<rowVars, ledgerVars, run, post, eventVars, historyVars,
              budgetVars>>

\* The activity ends: the run that still waits for it goes on with the result.
Return(f, res) ==
  /\ CallGoes(f, "none")
  /\ run' = [p \in Procs |-> IF At(p, "await") /\ run[p].claim = f
                              THEN [run[p] EXCEPT !.pc = res] ELSE run[p]]
  /\ UNCHANGED <<rowVars, opened, sent, post, eventVars, historyVars,
                 budgetVars>>

\* loadForProvider, then what the ledger already knows of the attempt.
CallLoad(f) ==
  /\ call[f] = "load"
  /\ \/ fence # f /\ Return(f, "unknown") /\ UNCHANGED outcome
     \/ /\ fence = f /\ outcome[f] # "unset"
        /\ Return(f, outcome[f]) /\ UNCHANGED outcome
     \/ /\ fence = f /\ outcome[f] = "unset"
        /\ CallGoes(f, IF f \in sent THEN "unknown" ELSE "send")
        /\ OnlyCall

\* Before the mutation: rate limiter or transport (retryable), a lost
\* certification or credential (rejected), anything else (thrown).
CallFailsBeforeSend(f) ==
  /\ call[f] = "send"
  /\ \/ \E res \in {"retryable", "rejected"} : CallGoes(f, res) /\ OnlyCall
     \/ Return(f, "unknown") /\ UNCHANGED outcome

\* ReleaseIntegrityError: the export bytes changed; a dispatching row is held.
CallFindsHashMismatch(f) ==
  /\ call[f] = "send"
  /\ IF state = "dispatching" THEN Fire(f, "release_policy_failed") ELSE Stay
  /\ CallGoes(f, "rejected")
  /\ ClaimUnchanged
  /\ UNCHANGED <<ledgerVars, run, post, eventVars, cleared, byPerson,
                 budgetVars>>

\* Mutants: the fence forgets the state, or the token.
InForceByToken(f) == fence = f
InForceByState(f) == state = "dispatching"

\* Claim f is in force: what preSendFence asserts under the row lock.
InForce(f) == state = "dispatching" /\ fence = f

\* sentAt commits, and the mutation leaves, only while the claim is in force.
PreSendFence(f) ==
  /\ call[f] = "send"
  /\ IF InForce(f)
       THEN sent' = sent \cup {f} /\ CallGoes(f, "out")
       ELSE UNCHANGED sent /\ CallGoes(f, "retryable")
  /\ UNCHANGED <<rowVars, opened, outcome, run, post, eventVars, historyVars,
                 budgetVars>>

\* The mutation takes effect or not, and the adapter classifies the answer.
ProviderAnswers(f) ==
  /\ call[f] = "out"
  /\ \E effect \in {"none", "job", "live"}, res \in Outcomes :
       /\ res = "accepted" => effect = "live"
       /\ res = "pending" => effect = "job"
       /\ res \in {"rejected", "retryable"} => effect = "none"
       /\ post' = [post EXCEPT ![f] = effect]
       /\ CallGoes(f, res)
  /\ UNCHANGED <<rowVars, ledgerVars, run, eventVars, historyVars, budgetVars>>

\* Mutants: an ambiguous answer is taken for an acceptance, or a rejection.
CallRecordsAccepted(f) ==
  /\ call[f] \in Outcomes
  /\ RecordOutcome(f, call[f])
  /\ Return(f, IF call[f] = "unknown" THEN "accepted" ELSE call[f])
CallRecordsRejected(f) ==
  /\ call[f] \in Outcomes
  /\ RecordOutcome(f, call[f])
  /\ Return(f, IF call[f] = "unknown" THEN "rejected" ELSE call[f])

\* recordOutcome writes once; the result returned is the call's own.
CallRecords(f) ==
  /\ call[f] \in Outcomes
  /\ RecordOutcome(f, call[f])
  /\ Return(f, call[f])

\* The platform finishes a job it accepted, by itself or on finalize.
JobSettles(f) ==
  /\ post[f] = "job"
  /\ \E p \in {"live", "none"} : post' = [post EXCEPT ![f] = p]
  /\ UNCHANGED <<rowVars, ledgerVars, run, call, eventVars, historyVars,
                 budgetVars>>

\* Start-to-close or heartbeat timeout: unknown, while the call may go on.
PublishTimesOut(g) ==
  /\ At(g, "await")
  /\ run' = [run EXCEPT ![g].pc = "unknown"]
  /\ UNCHANGED <<rowVars, ledgerVars, remoteVars, eventVars, historyVars,
                 budgetVars>>

-----------------------------------------------------------------------------
(* The switch on the classified outcome *)

PublishedEvent ==
  CASE state = "dispatching" -> "provider_accepted"
    [] state = "processing" -> "poll_published"
    [] OTHER -> "reconcile_found"

MarkPublished(p) ==
  /\ run[p].pc \in {"accepted", "found"}
  /\ Mark(p, "published", PublishedEvent, "completed")
  /\ OnlyMarked

\* A row already failed or held is left as it is.
MarkFailed(g) ==
  /\ At(g, "rejected")
  /\ Mark(g, IF state = "held" THEN "held" ELSE "failed",
          IF state = "processing" THEN "poll_failed" ELSE "provider_rejected",
          "completed")
  /\ OnlyMarked

MarkProcessing(g) ==
  /\ At(g, "pending")
  /\ Mark(g, "processing", "provider_pending", "poll")
  /\ OnlyMarked

AttemptNumber(f) == Cardinality({a \in opened : a <= f})

\* retryAfterProvenNoEffect: only an attempt without sentAt goes back to
\* scheduled, and only while its budget of pre-send attempts lasts.
RetryAfterProvenNoEffect(g) ==
  LET f == run[g].claim IN
  /\ At(g, "retryable")
  /\ \/ /\ f \in sent
        /\ Stay /\ UNCHANGED claimant /\ Reply(g, "unknown")
     \/ /\ f \notin sent /\ state = "scheduled" /\ fence = f
        /\ Stay /\ UNCHANGED claimant /\ Reply(g, "wait")
     \/ /\ f \notin sent /\ state # "dispatching"
        /\ ~(state = "scheduled" /\ fence = f)
        /\ Stay /\ UNCHANGED claimant /\ Reply(g, "completed")
     \/ /\ f \notin sent /\ state = "dispatching"
        /\ AttemptNumber(f) >= MaxPreSend
        /\ Fire(f, "release_policy_failed")
        /\ UNCHANGED claimant /\ Reply(g, "completed")
     \/ /\ f \notin sent /\ state = "dispatching"
        /\ AttemptNumber(f) < MaxPreSend
        /\ Fire(f, "retryable_pre_send")
        /\ claimant' = <<claimant[1], 0>>
        /\ Reply(g, "wait")
  /\ UNCHANGED <<fence, gen, ledgerVars, remoteVars, eventVars, cleared,
                 byPerson, limitVars>>

\* pollUntilSettled: checkStatus and finalize assert the fence and need the
\* recorded pendingState; a throw or the spent budget is unknown.
Poll(g) ==
  LET f == run[g].claim IN
  /\ At(g, "poll")
  /\ \E res \in {"accepted", "rejected", "unknown"} :
       /\ res # "unknown" => fence = f
       /\ res = "accepted" => outcome[f] = "pending" /\ post[f] = "live"
       /\ res = "rejected" => outcome[f] # "pending" \/ post[f] = "none"
       /\ run' = [run EXCEPT ![g].pc = res]
  /\ UNCHANGED <<rowVars, ledgerVars, remoteVars, eventVars, historyVars,
                 budgetVars>>

-----------------------------------------------------------------------------
(* runReconcile, in the publication workflow or in a workflow of its own *)

UnknownEvent ==
  IF state = "processing" THEN "poll_unknown" ELSE "ambiguous_failure"

\* An attempt still open is closed as unknown in the transaction of the move.
MarkOutcomeUnknown(p) ==
  /\ At(p, "unknown")
  /\ Mark(p, "outcome_unknown", UnknownEvent, "look")
  /\ IF state # "outcome_unknown" /\ Illegal(state, UnknownEvent)
       THEN UNCHANGED outcome ELSE RecordOutcome(run[p].claim, "unknown")
  /\ ClaimUnchanged
  /\ UNCHANGED <<opened, sent, remoteVars, eventVars, cleared, byPerson,
                 limitVars>>

\* The attempts a lookup covers: from the start of its own attempt, or from
\* the latest claim when it has none.
Covered(p) ==
  {f \in Claims : f >= (IF run[p].claim = 0 THEN fence ELSE run[p].claim)}

\* findRemotePost: an answer of cannot_determine is looked up again until the
\* schedule is spent.  A request that left is over before the first look, a
\* minute later; a post still processed is seen where the platform lists it.
FindRemotePost(p) ==
  /\ At(p, "look")
  /\ \E answer \in {"found", "absent", "exhausted"} :
       /\ answer = "found" => \E f \in Covered(p) : post[f] = "live"
       /\ answer = "absent" => \A f \in Covered(p) :
            /\ post[f] # "live" /\ call[f] # "out"
            /\ JobsListed => post[f] # "job"
       /\ run' = [run EXCEPT ![p].pc = answer]
  /\ UNCHANGED <<rowVars, ledgerVars, remoteVars, eventVars, historyVars,
                 budgetVars>>

\* Absence is proven for the process's own claim and those before it.
MarkRetryEligible(p) ==
  /\ At(p, "absent")
  /\ Mark(p, "retry_eligible", "reconcile_absent", "completed")
  /\ cleared' = IF state' = state THEN cleared
                ELSE cleared \cup {f \in sent : f <= Own(p)}
  /\ ClaimUnchanged
  /\ UNCHANGED <<ledgerVars, remoteVars, eventVars, byPerson, limitVars>>

HoldForHuman(p) ==
  /\ At(p, "exhausted")
  /\ Mark(p, "held", "reconcile_exhausted", "completed")
  /\ OnlyMarked

-----------------------------------------------------------------------------
(* Outbox deliveries, workflow death, the sweeper *)

\* USE_EXISTING and ALLOW_DUPLICATE_FAILED_ONLY: a running or completed
\* execution absorbs the start, a failed one is run again.
DeliverStart(g) ==
  /\ g \in starts
  /\ starts' = starts \ {g}
  /\ run' = IF run[g].pc \in {"none", "failed"}
              THEN [run EXCEPT ![g] = [Idle EXCEPT !.pc = "wait",
                                                   !.n = run[g].n + 1]]
              ELSE run
  /\ UNCHANGED <<rowVars, ledgerVars, remoteVars, relays, sweepRef,
                 historyVars, budgetVars>>

DeliverReconcile(f) ==
  /\ At(Rec(f), "requested")
  /\ run' = [run EXCEPT ![Rec(f)].pc = "unknown"]
  /\ UNCHANGED <<rowVars, ledgerVars, remoteVars, eventVars, historyVars,
                 budgetVars>>

\* The signal relay: a run that already ended is not signalled.
DeliverCancel(g) ==
  /\ g \in relays
  /\ relays' = relays \ {g}
  /\ run' = IF Running(g) THEN [run EXCEPT ![g].cancel = TRUE] ELSE run
  /\ UNCHANGED <<rowVars, ledgerVars, remoteVars, starts, sweepRef,
                 historyVars, budgetVars>>

\* Five failed tries of a control activity, or an operator's termination.
RunDies(p) ==
  /\ Running(p) /\ ~At(p, "requested") /\ faults > 0
  /\ run' = [run EXCEPT ![p] = Ended(p, "failed")]
  /\ faults' = faults - 1
  /\ UNCHANGED <<rowVars, ledgerVars, remoteVars, eventVars, historyVars,
                 limitVars>>

\* Mutants: the sweeper looks at one of the two states only.
StuckClaim == state = "dispatching" /\ ~Running(claimant[1])
StuckDue == state = "scheduled" /\ ~Running(claimant[1])

\* findStuck and workflowRunning read the row without a lock.
Stuck == state \in {"scheduled", "dispatching"} /\ ~Running(claimant[1])

\* The transaction on a row read as stuck: what it finds decides.  A past-due
\* row has the start of the generation that was read emitted again; a claim
\* is worker loss.
SweepRow(g) ==
  /\ starts' = IF state = "scheduled" THEN starts \cup {g} ELSE starts
  /\ IF state = "dispatching"
       THEN /\ Fire(fence, "ambiguous_failure")
            /\ RecordOutcome(fence, "unknown")
            /\ RequestReconcile(fence, AttemptOf(fence))
       ELSE Stay /\ UNCHANGED <<outcome, run>>
  /\ ClaimUnchanged
  /\ UNCHANGED <<opened, sent, remoteVars, relays, cleared, byPerson, faults,
                 restores, cancels>>

SweepNow ==
  /\ sweepRef = 0 /\ Stuck
  /\ SweepRow(claimant[1])
  /\ UNCHANGED <<sweepRef, slowSweeps>>

SweepFind ==
  /\ sweepRef = 0 /\ Stuck /\ slowSweeps > 0
  /\ sweepRef' = claimant[1]
  /\ slowSweeps' = slowSweeps - 1
  /\ UNCHANGED <<rowVars, ledgerVars, run, remoteVars, starts, relays,
                 historyVars, faults, restores, cancels>>

SweepApply ==
  /\ sweepRef # 0
  /\ SweepRow(sweepRef)
  /\ sweepRef' = 0
  /\ UNCHANGED slowSweeps

-----------------------------------------------------------------------------
(* Commands *)

OnlyRow == UNCHANGED <<ledgerVars, run, remoteVars, sweepRef, trespassed,
                       faults, restores, slowSweeps>>

InFlightStates == {"dispatching", "processing", "outcome_unknown"}

\* In flight a cancel is a signal to the workflow; otherwise the row is closed.
Cancel ==
  /\ \/ /\ state \in InFlightStates
        /\ cancels > 0 /\ cancels' = cancels - 1
        /\ relays' = relays \cup {claimant[1]}
        /\ UNCHANGED <<state, cleared, byPerson>>
     \/ /\ state \notin InFlightStates
        /\ state' \in To(state, IF state = "held" THEN "hold_resolved_cancel"
                                                  ELSE "user_cancel")
        /\ cleared' = IF state = "held" THEN cleared \cup sent ELSE cleared
        /\ byPerson' = IF state = "held" THEN byPerson \cup sent ELSE byPerson
        /\ UNCHANGED <<relays, cancels>>
  /\ ClaimUnchanged
  /\ UNCHANGED starts
  /\ OnlyRow

\* A held or retry_eligible row is released to a new workflow generation.
Release ==
  /\ gen < MaxGen
  /\ \/ /\ state = "held" /\ state' \in To(state, "hold_resolved_schedule")
        /\ cleared' = cleared \cup sent
        /\ byPerson' = byPerson \cup sent
     \/ /\ state = "retry_eligible" /\ state' \in To(state, "reschedule")
        /\ UNCHANGED <<cleared, byPerson>>
  /\ gen' = gen + 1
  /\ claimant' = <<gen + 1, 0>>
  /\ starts' = starts \cup {gen + 1}
  /\ UNCHANGED <<fence, relays, cancels>>
  /\ OnlyRow

\* A fact, asset or approval the content depends on is revoked.
RevokeDependency ==
  /\ state' \in To(state, "dependency_revoked")
  /\ ClaimUnchanged
  /\ UNCHANGED <<starts, relays, cleared, byPerson, cancels>>
  /\ OnlyRow

\* Reconciliation by hand: a person looks at the account and confirms.
ConfirmPublished ==
  /\ state = "outcome_unknown"
  /\ \E f \in Claims : post[f] = "live"
  /\ state' \in To(state, "reconcile_found")
  /\ ClaimUnchanged
  /\ UNCHANGED <<starts, relays, cleared, byPerson, cancels>>
  /\ OnlyRow

ConfirmAbsent ==
  /\ state = "outcome_unknown"
  /\ \A f \in Claims : post[f] # "live"
  /\ state' \in To(state, "reconcile_absent")
  /\ cleared' = cleared \cup sent
  /\ byPerson' = byPerson \cup sent
  /\ ClaimUnchanged
  /\ UNCHANGED <<starts, relays, cancels>>
  /\ OnlyRow

\* holdRestored (one row): never sent is held, maybe sent is outcome_unknown
\* with a reconcile request; the token of a claimed row moves on.
HoldRestored ==
  /\ restores > 0
  /\ state # "scheduled" => fence < MaxFence
  /\ restores' = restores - 1
  /\ IF state = "processing" \/ (state = "dispatching" /\ fence \in sent)
       THEN /\ state' \in To(state, IF state = "processing" THEN "poll_unknown"
                                                     ELSE "ambiguous_failure")
            /\ RecordOutcome(fence, "unknown")
            /\ RequestReconcile(fence, AttemptOf(fence))
       ELSE /\ state' \in To(state, "restored_from_backup")
            /\ UNCHANGED <<outcome, run>>
  /\ fence' = IF state = "scheduled" THEN fence ELSE fence + 1
  /\ UNCHANGED <<claimant, gen, opened, sent, remoteVars, eventVars,
                 historyVars, faults, cancels, slowSweeps>>

-----------------------------------------------------------------------------

Workflow(g) ==
  \/ ReadSchedule(g) \/ CancelIfNotStarted(g) \/ ClaimForDispatch(g)
  \/ EvaluateRelease(g) \/ Hold(g) \/ ReleaseClaimAndCancel(g) \/ OpenAttempt(g)
  \/ PublishTimesOut(g) \/ MarkFailed(g) \/ MarkProcessing(g)
  \/ RetryAfterProvenNoEffect(g) \/ Poll(g)

Reconcile(p) ==
  \/ MarkPublished(p) \/ MarkOutcomeUnknown(p) \/ FindRemotePost(p)
  \/ MarkRetryEligible(p) \/ HoldForHuman(p)

PublishOnce(f) ==
  \/ CallLoad(f) \/ CallFailsBeforeSend(f) \/ CallFindsHashMismatch(f)
  \/ PreSendFence(f) \/ ProviderAnswers(f) \/ CallRecords(f) \/ JobSettles(f)

Sweep == SweepNow \/ SweepFind \/ SweepApply
Person ==
  \/ Cancel \/ Release \/ RevokeDependency \/ ConfirmPublished
  \/ ConfirmAbsent \/ HoldRestored

Next ==
  \/ \E g \in Gens : Workflow(g) \/ DeliverStart(g) \/ DeliverCancel(g)
  \/ \E p \in Procs : Reconcile(p) \/ RunDies(p)
  \/ \E f \in Claims : PublishOnce(f) \/ DeliverReconcile(f)
  \/ Sweep
  \/ Person

Spec == Init /\ [][Next]_vars

\* Temporal drives every execution and times its activities out, the outbox is
\* polled, the sweeper passes every minute.  A provider call, the platform and
\* people owe nothing.
Fairness ==
  /\ \A g \in Gens : WF_vars(Workflow(g)) /\ WF_vars(DeliverStart(g))
  /\ \A p \in Procs : WF_vars(Reconcile(p))
  /\ \A f \in Claims : WF_vars(DeliverReconcile(f))
  /\ WF_vars(SweepNow) /\ WF_vars(SweepApply)

FairSpec == Spec /\ Fairness

-----------------------------------------------------------------------------
(* Properties *)

\* Sends whose effect on the platform is neither proven nor judged by a person.
Unsettled == sent \ cleared

\* While no superseded workflow has moved the row: a row that waits for its
\* dispatch, is open to a re-release or was cancelled has no send whose outcome
\* is still open, and a claim in force faces no open send but its own.  It
\* crosses every way back to scheduled: the pre-send retry, the reconcile loop,
\* a person's release and the restore hold, against a publishOnce in progress.
SettledBeforeRelease ==
  ~trespassed =>
    /\ state \in {"scheduled", "retry_eligible", "cancelled"} => Unsettled = {}
    /\ state = "dispatching" => Unsettled \subseteq {fence}

\* The inductive strengthening of SettledBeforeRelease: a claim in force has its
\* token, and a publishOnce, like a sentAt, belongs to an attempt opened before.
Inductive ==
  /\ TypeOK
  /\ state = "dispatching" => fence \in Claims
  /\ \A f \in Claims : call[f] # "none" => f \in opened
  /\ sent \subseteq opened
  /\ SettledBeforeRelease

\* Two live posts of one publication: a person judged the first one absent.
SecondPostNeedsPerson ==
  ~trespassed =>
    \A f, h \in Claims :
      f < h /\ post[f] = "live" /\ post[h] = "live" => f \in byPerson

\* A failed publication has no post, live or still processed, of a send that
\* nobody has judged: a definitive rejection is one, late answers included.
FailedHasNoPost ==
  ~trespassed /\ state = "failed" => \A f \in Unsettled : post[f] = "none"

\* A published row has a post on the platform, whichever of the workflow, the
\* poll, a reconcile loop or a person moved it, and whichever claim they held.
PublishedHasPost == state = "published" => \E f \in Claims : post[f] = "live"

\* The attempt ledger keeps its promise: every send finds the earlier ones
\* settled, through every retry, takeover, restore and re-release.
Ledger == INSTANCE SendLedger WITH
            Attempts <- Claims, settled <- cleared, disowned <- trespassed
LedgerRefined == Ledger!Spec

\* A due row is claimed, held or cancelled in the end: no start is lost for
\* good, because the sweeper emits it again.
DueRowIsTaken ==
  state = "scheduled" ~> (state # "scheduled" \/ fence = MaxFence)

\* A claim is always resolved: its workflow goes on, or the sweeper finds it.
ClaimIsResolved == state = "dispatching" ~> state # "dispatching"

\* An unknown or pending outcome is settled or handed to a person, unless a
\* workflow died or had a reply lost: the sweeper looks at neither state.
InDoubt == state \in {"processing", "outcome_unknown"}
OutcomeIsSought == InDoubt ~> (~InDoubt \/ faults # MaxFaults)

=============================================================================
