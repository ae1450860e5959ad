------------------------------ MODULE AgentRun ------------------------------
(***************************************************************************)
(* Agent runs: agentRunWorkflowV1 and its activities, the people who       *)
(* cancel a run or decide on its proposals, the outbox relays that signal  *)
(* the workflow, and the budget every call is charged to.  An activity is  *)
(* cut at its transactions: between two of them, and before its answer     *)
(* arrives, the attempt can be lost and Temporal tries again.              *)
(***************************************************************************)
EXTENDS Budgets

CONSTANTS
  ActTries,    \* attempts of an activity; maximumAttempts is 3
  ModelTries,  \* attempts of planNextStep; maximumAttempts is 2
  MaxFaults,   \* bound: attempts or answers that are lost, over all runs
  MayCancel,   \* whether people cancel runs
  MayRevoke    \* whether the runs' principal can be revoked

ASSUME AgentRunAssumption ==
  /\ ActTries \in Nat \ {0} /\ ModelTries \in Nat \ {0}
  /\ ActTries <= MaxReservations
  /\ MaxFaults \in Nat
  /\ MayCancel \in BOOLEAN /\ MayRevoke \in BOOLEAN

VARIABLES
  state, linked, recorded, proposed, decided,  \* the run's rows
  cancelSeen, heard,                           \* signals the workflow has
  at, tries, goal,                             \* where the workflow is
  turn, step, todo,                            \* its loop over steps and calls
  revoked, faults,
  accepted, applied        \* what a person accepted, how often it was applied

runVars == <<state, linked, recorded, proposed, decided>>
signalVars == <<cancelSeen, heard>>
flowVars == <<at, tries, goal>>
loopVars == <<turn, step, todo>>
ghostVars == <<accepted, applied>>
vars == <<budgetVars, runVars, signalVars, flowVars, loopVars, revoked, faults,
          ghostVars>>

States == {"planned", "running", "waiting_for_review", "completed", "failed",
           "cancelled", "budget_exhausted", "policy_denied", "waiting_expired"}
Terminal == States \ {"planned", "running", "waiting_for_review"}

\* The states finishRun can end a run in, from each state it may find.
Ends ==
  [s \in States |->
     CASE s = "planned" ->
            {"failed", "cancelled", "budget_exhausted", "policy_denied"}
       [] s = "running" ->
            {"completed", "failed", "cancelled", "budget_exhausted", "policy_denied"}
       [] s = "waiting_for_review" -> {"cancelled", "waiting_expired", "failed"}
       [] OTHER -> {}]

\* The stages of an activity, by its first.
Entry ==
  [idle |-> "idle", resolve |-> "resolve", start |-> "resolve",
   reserve |-> "reserve", link |-> "reserve", plan |-> "plan", call |-> "plan",
   charge |-> "plan", dispatch |-> "dispatch", tool |-> "dispatch",
   record |-> "dispatch", wait |-> "wait", decide |-> "decide",
   apply |-> "decide", conclude |-> "conclude", finish |-> "finish",
   settle |-> "settle", over |-> "over"]
Places == DOMAIN Entry
Working(r) == at[r] \notin {"idle", "wait", "over"}

TypeOK ==
  /\ BudgetsTypeOK
  /\ state \in [Runs -> States]
  /\ linked \in [Runs -> 0..MaxReservations]
  /\ recorded \in [Runs -> 0..MaxSteps]
  /\ proposed \subseteq Keys
  /\ decided \in [Runs \X Steps -> {"none", "accept", "reject", "modify"}]
  /\ cancelSeen \in [Runs -> BOOLEAN]
  /\ heard \subseteq Runs \X Steps
  /\ at \in [Runs -> Places]
  /\ tries \in [Runs -> Nat]
  /\ goal \in [Runs -> States]
  /\ turn \in [Runs -> 0..MaxSteps]
  /\ step \in [Runs -> 0..MaxSteps]
  /\ todo \in [Runs -> Calls]
  /\ revoked \in BOOLEAN
  /\ faults \in 0..MaxFaults
  /\ accepted \subseteq Keys
  /\ applied \in [Keys -> Nat]

Init ==
  /\ BudgetsInit
  /\ state = [r \in Runs |-> "planned"]
  /\ linked = [r \in Runs |-> 0]
  /\ recorded = [r \in Runs |-> 0]
  /\ proposed = {}
  /\ decided = [d \in Runs \X Steps |-> "none"]
  /\ cancelSeen = [r \in Runs |-> FALSE]
  /\ heard = {}
  /\ at = [r \in Runs |-> "idle"]
  /\ tries = [r \in Runs |-> ActTries]
  /\ goal = [r \in Runs |-> "completed"]
  /\ turn = [r \in Runs |-> 0]
  /\ step = [r \in Runs |-> 0]
  /\ todo = [r \in Runs |-> 0]
  /\ revoked = FALSE /\ faults = MaxFaults
  /\ accepted = {}
  /\ applied = [k \in Keys |-> 0]

-----------------------------------------------------------------------------
(* The workflow between its activities *)

Stage(r, where) == at' = [at EXCEPT ![r] = where] /\ UNCHANGED <<tries, goal>>

Enter(r, activity) ==
  /\ at' = [at EXCEPT ![r] = activity]
  /\ tries' = [tries EXCEPT ![r] =
                 IF activity = "plan" THEN ModelTries ELSE ActTries]

Then(r, activity) == Enter(r, activity) /\ UNCHANGED goal

\* Mutant: nothing is caught, and there is no finally.
FailsUncaught(r, as) == Then(r, "over")

\* The catch of runAgentRun ends the run in the state the failure names.  A
\* finish that is already in the catch, or was returned and not awaited, is
\* not caught: the workflow goes to its finally, and fails after it.
Fails(r, as) ==
  CASE at[r] = "settle" -> Then(r, "over")
    [] at[r] = "finish" -> Then(r, "settle")
    [] OTHER -> Enter(r, "finish") /\ goal' = [goal EXCEPT ![r] = as]

\* The attempt or its answer is lost; the last one fails the activity.
Lost(r) ==
  /\ faults > 0 /\ faults' = faults - 1
  /\ IF tries[r] > 1
       THEN /\ at' = [at EXCEPT ![r] = Entry[at[r]]]
            /\ tries' = [tries EXCEPT ![r] = @ - 1]
            /\ UNCHANGED goal
       ELSE Fails(r, "failed")

\* The last transaction of an activity: its answer arrives, or is lost.
Answers(r, next) ==
  \/ Then(r, next) /\ UNCHANGED faults
  \/ Lost(r)

LoopEnds(r) ==
  /\ Enter(r, "conclude")
  /\ goal' = [goal EXCEPT ![r] = IF cancelSeen[r] THEN "cancelled" ELSE "completed"]

Turn(r, n) ==
  /\ turn' = [turn EXCEPT ![r] = n]
  /\ IF n < MaxSteps /\ ~cancelSeen[r] THEN Then(r, "plan") ELSE LoopEnds(r)

NextCall(r) ==
  IF todo[r] > 1
    THEN /\ todo' = [todo EXCEPT ![r] = @ - 1]
         /\ Then(r, "dispatch")
         /\ UNCHANGED <<turn, step>>
    ELSE /\ todo' = [todo EXCEPT ![r] = 0]
         /\ Turn(r, turn[r] + 1)
         /\ UNCHANGED step

-----------------------------------------------------------------------------
(* The activities *)

Begin(r) ==
  /\ at[r] = "idle"
  /\ Then(r, "resolve")
  /\ UNCHANGED <<budgetVars, runVars, signalVars, loopVars, revoked, faults,
                 ghostVars>>

LoseAttempt(r) ==
  /\ Working(r) /\ Lost(r)
  /\ UNCHANGED <<budgetVars, runVars, signalVars, loopVars, revoked, ghostVars>>

ResolveContext(r) ==
  /\ at[r] = "resolve"
  /\ IF revoked THEN Fails(r, "policy_denied")
     ELSE IF state[r] \in Terminal THEN Fails(r, "failed")
     ELSE Stage(r, "start")
  /\ UNCHANGED <<budgetVars, runVars, signalVars, loopVars, revoked, faults,
                 ghostVars>>

\* The transaction: a run that was cancelled meanwhile stays cancelled.
StartRun(r) ==
  /\ at[r] = "start"
  /\ state' = [state EXCEPT ![r] = IF @ = "planned" THEN "running" ELSE @]
  /\ Answers(r, "reserve")
  /\ UNCHANGED <<budgetVars, linked, recorded, proposed, decided, signalVars,
                 loopVars, revoked, ghostVars>>

ReserveBudget(r) ==
  /\ at[r] = "reserve"
  /\ IF revoked
       THEN Fails(r, "policy_denied") /\ UNCHANGED <<budgetVars, turn>>
     ELSE IF linked[r] # 0
       THEN Turn(r, 0) /\ UNCHANGED budgetVars
     ELSE IF ~Affordable(r)
       THEN Fails(r, "budget_exhausted") /\ UNCHANGED <<budgetVars, turn>>
     ELSE ReserveSpend(r) /\ Stage(r, "link") /\ UNCHANGED turn
  /\ UNCHANGED <<runVars, signalVars, step, todo, revoked, faults, ghostVars>>

\* The run's row names the reservation in a transaction of its own.
LinkReservation(r) ==
  /\ at[r] = "link"
  /\ linked' = [linked EXCEPT ![r] = Cardinality(OwnedBy(r))]
  /\ \/ Turn(r, 0) /\ UNCHANGED faults
     \/ Lost(r) /\ UNCHANGED turn
  /\ UNCHANGED <<budgetVars, state, recorded, proposed, decided, signalVars,
                 step, todo, revoked, ghostVars>>

\* Up to the model call.  The deadline, the token limit and the tenant's model
\* routing may refuse a run the other checks let through.
PlanNextStep(r) ==
  /\ at[r] = "plan"
  /\ IF revoked THEN Fails(r, "policy_denied")
     ELSE IF state[r] \in Terminal THEN LoopEnds(r)
     ELSE IF state[r] # "running" THEN Fails(r, "failed")
     ELSE IF linked[r] = 0 \/ recorded[r] >= MaxSteps
       THEN Fails(r, "budget_exhausted")
     ELSE \/ Stage(r, "call")
          \/ \E as \in {"budget_exhausted", "policy_denied"} : Fails(r, as)
  /\ UNCHANGED <<budgetVars, runVars, signalVars, loopVars, revoked, faults,
                 ghostVars>>

\* The answer is recorded as a step of the run, whatever the run's state is now.
ModelAnswers(r) ==
  /\ at[r] = "call"
  /\ recorded' = [recorded EXCEPT ![r] = @ + 1]
  /\ step' = [step EXCEPT ![r] = recorded[r] + 1]
  /\ \E n \in Calls : todo' = [todo EXCEPT ![r] = n]
  /\ Stage(r, "charge")
  /\ UNCHANGED <<budgetVars, state, linked, proposed, decided, signalVars, turn,
                 revoked, faults, ghostVars>>

BillStep(r) ==
  LET i == <<r, linked[r]>> IN
  /\ at[r] = "charge"
  /\ Charge(i, <<r, step[r], 0>>)
  /\ \/ /\ IF Closed(i) \/ ExceededAfter(i) THEN Fails(r, "budget_exhausted")
          ELSE IF todo[r] = 0 THEN LoopEnds(r)
          ELSE Then(r, "dispatch")
        /\ UNCHANGED faults
     \/ Lost(r)
  /\ UNCHANGED <<runVars, signalVars, loopVars, revoked, ghostVars>>

\* A run that is not running has its calls denied.
DispatchTool(r) ==
  /\ at[r] = "dispatch"
  /\ IF revoked THEN Fails(r, "policy_denied") /\ UNCHANGED loopVars
     ELSE IF state[r] # "running" THEN NextCall(r)
     ELSE Stage(r, "tool") /\ UNCHANGED loopVars
  /\ UNCHANGED <<budgetVars, runVars, signalVars, revoked, faults, ghostVars>>

\* A costed tool is charged before it runs; a closed reservation refuses.
RunTool(r) ==
  LET i == <<r, linked[r]>> IN
  /\ at[r] = "tool"
  /\ \/ UNCHANGED budgetVars /\ Stage(r, "record")
     \/ /\ Closed(i)
        /\ Fails(r, "budget_exhausted") /\ UNCHANGED budgetVars
     \/ /\ ~Closed(i)
        /\ Charge(i, <<r, step[r], todo[r]>>)
        /\ IF ExceededAfter(i) THEN Fails(r, "budget_exhausted")
           ELSE Stage(r, "record")
  /\ UNCHANGED <<runVars, signalVars, loopVars, revoked, faults, ghostVars>>

\* The tool's result is ok, invalid or a denial.
RecordResult(r) ==
  /\ at[r] = "record"
  /\ \/ NextCall(r) /\ UNCHANGED faults
     \/ Lost(r) /\ UNCHANGED loopVars
  /\ UNCHANGED <<budgetVars, runVars, signalVars, revoked, ghostVars>>

\* The tool's result is a proposal: it is recorded and the run is parked, in
\* one transaction that fails when the run has been cancelled.
RecordProposal(r) ==
  /\ at[r] = "record"
  /\ IF state[r] = "running"
       THEN /\ state' = [state EXCEPT ![r] = "waiting_for_review"]
            /\ proposed' = proposed \cup {<<r, step[r], todo[r]>>}
            /\ Answers(r, "wait")
       ELSE Fails(r, "failed") /\ UNCHANGED <<state, proposed, faults>>
  /\ UNCHANGED <<budgetVars, linked, recorded, decided, signalVars, loopVars,
                 revoked, ghostVars>>

\* The wait is for a decision on the step, not on one of its proposals.
WaitEnds(r) ==
  /\ at[r] = "wait"
  /\ IF cancelSeen[r]
       THEN Enter(r, "finish") /\ goal' = [goal EXCEPT ![r] = "cancelled"]
       ELSE <<r, step[r]>> \in heard /\ Then(r, "decide")
  /\ UNCHANGED <<budgetVars, runVars, signalVars, loopVars, revoked, faults,
                 ghostVars>>

\* Mutant: the expired wait goes straight to the settlement.
WaitExpiresOpen(r) ==
  /\ at[r] = "wait" /\ ~cancelSeen[r] /\ <<r, step[r]>> \notin heard
  /\ Then(r, "settle")
  /\ UNCHANGED <<budgetVars, runVars, signalVars, loopVars, revoked, faults,
                 ghostVars>>

\* The 72 hours pass.
WaitExpires(r) ==
  /\ at[r] = "wait" /\ ~cancelSeen[r] /\ <<r, step[r]>> \notin heard
  /\ Enter(r, "finish") /\ goal' = [goal EXCEPT ![r] = "waiting_expired"]
  /\ UNCHANGED <<budgetVars, runVars, signalVars, loopVars, revoked, faults,
                 ghostVars>>

LoadDecision(r) ==
  /\ at[r] = "decide"
  /\ IF revoked THEN Fails(r, "policy_denied") /\ UNCHANGED loopVars
     ELSE IF state[r] \in Terminal THEN NextCall(r)
     ELSE IF state[r] # "waiting_for_review"
       THEN Fails(r, "failed") /\ UNCHANGED loopVars
     ELSE Stage(r, "apply") /\ UNCHANGED loopVars
  /\ UNCHANGED <<budgetVars, runVars, signalVars, revoked, faults, ghostVars>>

\* findProposal: the newest of the step; its calls are numbered downwards.
Newest(r, s) ==
  <<r, s, CHOOSE c \in Calls :
            /\ <<r, s, c>> \in proposed
            /\ \A b \in Calls : <<r, s, b>> \in proposed => c <= b>>

\* Mutant: the batch is applied in a transaction of its own.
ApplyApart(r) ==
  /\ at[r] = "apply" /\ state[r] = "waiting_for_review"
  /\ applied' = IF decided[<<r, step[r]>>] = "accept"
                  THEN [applied EXCEPT ![Newest(r, step[r])] = @ + 1]
                  ELSE applied
  /\ \/ /\ state' = [state EXCEPT ![r] = "running"]
        /\ NextCall(r) /\ UNCHANGED faults
     \/ Lost(r) /\ UNCHANGED <<state, loopVars>>
  /\ UNCHANGED <<budgetVars, linked, recorded, proposed, decided, signalVars,
                 revoked, accepted>>

\* Mutant: the decision is not looked at.
ApplyAnyDecision(r) ==
  /\ at[r] = "apply" /\ state[r] = "waiting_for_review"
  /\ state' = [state EXCEPT ![r] = "running"]
  /\ applied' = [applied EXCEPT ![Newest(r, step[r])] = @ + 1]
  /\ NextCall(r)
  /\ UNCHANGED <<budgetVars, linked, recorded, proposed, decided, signalVars,
                 revoked, faults, accepted>>

\* An accepted batch is applied, unless it is stale or a person completes it;
\* a run that is no longer parked rolls everything back.
ApplyDecision(r) ==
  /\ at[r] = "apply"
  /\ IF state[r] = "waiting_for_review"
       THEN /\ state' = [state EXCEPT ![r] = "running"]
            /\ \/ UNCHANGED applied
               \/ /\ decided[<<r, step[r]>>] = "accept"
                  /\ applied' = [applied EXCEPT ![Newest(r, step[r])] = @ + 1]
            /\ \/ NextCall(r) /\ UNCHANGED faults
               \/ Lost(r) /\ UNCHANGED loopVars
       ELSE Fails(r, "failed") /\ UNCHANGED <<state, applied, loopVars, faults>>
  /\ UNCHANGED <<budgetVars, linked, recorded, proposed, decided, signalVars,
                 revoked, accepted>>

\* finishRun, awaited at the end of the loop ("conclude") or not.
FinishRun(r) ==
  /\ at[r] \in {"conclude", "finish"}
  /\ IF revoked
       THEN Fails(r, "policy_denied") /\ UNCHANGED <<state, faults>>
     ELSE IF state[r] \in Terminal \/ goal[r] \in Ends[state[r]]
       THEN /\ state' = [state EXCEPT ![r] = IF @ \in Terminal THEN @ ELSE goal[r]]
            /\ Answers(r, "settle")
     ELSE Fails(r, "failed") /\ UNCHANGED <<state, faults>>
  /\ UNCHANGED <<budgetVars, linked, recorded, proposed, decided, signalVars,
                 loopVars, revoked, ghostVars>>

SettleBudget(r) ==
  /\ at[r] = "settle"
  /\ IF revoked
       THEN Fails(r, "policy_denied") /\ UNCHANGED <<budgetVars, faults>>
       ELSE /\ CloseOne(r, "settled")
            /\ Answers(r, "over")
  /\ UNCHANGED <<runVars, signalVars, loopVars, revoked, ghostVars>>

-----------------------------------------------------------------------------
(* People and relays *)

Cancel(r) ==
  /\ MayCancel /\ state[r] \notin Terminal
  /\ state' = [state EXCEPT ![r] = "cancelled"]
  /\ CloseOne(r, "released")
  /\ UNCHANGED <<linked, recorded, proposed, decided, signalVars, flowVars,
                 loopVars, revoked, faults, ghostVars>>

\* A person decides on a step that has a proposal, once.
ApproveProposal(r, s) ==
  /\ state[r] = "waiting_for_review"
  /\ \E c \in Calls : <<r, s, c>> \in proposed
  /\ decided[<<r, s>>] = "none"
  /\ \E d \in {"accept", "reject", "modify"} :
       /\ decided' = [decided EXCEPT ![<<r, s>>] = d]
       /\ accepted' = IF d = "accept" THEN accepted \cup {Newest(r, s)}
                        ELSE accepted
  /\ UNCHANGED <<budgetVars, state, linked, recorded, proposed, signalVars,
                 flowVars, loopVars, revoked, faults, applied>>

\* The relays signal a workflow that has started and has not ended.
Alive(r) == at[r] \notin {"idle", "over"}

RelayCancel(r) ==
  /\ Alive(r) /\ state[r] = "cancelled" /\ ~cancelSeen[r]
  /\ cancelSeen' = [cancelSeen EXCEPT ![r] = TRUE]
  /\ UNCHANGED <<budgetVars, runVars, heard, flowVars, loopVars, revoked, faults,
                 ghostVars>>

RelayDecision(r, s) ==
  /\ Alive(r) /\ decided[<<r, s>>] # "none" /\ <<r, s>> \notin heard
  /\ heard' = heard \cup {<<r, s>>}
  /\ UNCHANGED <<budgetVars, runVars, cancelSeen, flowVars, loopVars, revoked,
                 faults, ghostVars>>

\* revokeServicePrincipal: from now on every activity of its runs is refused.
Revoke ==
  /\ MayRevoke /\ ~revoked
  /\ revoked' = TRUE
  /\ UNCHANGED <<budgetVars, runVars, signalVars, flowVars, loopVars, faults,
                 ghostVars>>

-----------------------------------------------------------------------------

Workflow(r) ==
  \/ Begin(r) \/ ResolveContext(r) \/ StartRun(r)
  \/ ReserveBudget(r) \/ LinkReservation(r)
  \/ PlanNextStep(r) \/ ModelAnswers(r) \/ BillStep(r)
  \/ DispatchTool(r) \/ RunTool(r) \/ RecordResult(r) \/ RecordProposal(r)
  \/ WaitEnds(r) \/ WaitExpires(r) \/ LoadDecision(r) \/ ApplyDecision(r)
  \/ FinishRun(r) \/ SettleBudget(r)

Next ==
  \/ \E r \in Runs : Workflow(r) \/ LoseAttempt(r) \/ Cancel(r) \/ RelayCancel(r)
  \/ \E r \in Runs, s \in Steps : ApproveProposal(r, s) \/ RelayDecision(r, s)
  \/ Revoke

Spec == Init /\ [][Next]_vars

\* Temporal drives a workflow it has accepted to its end, timers included, and
\* the outbox starts it.  People and relays owe nothing.
FairSpec == Spec /\ \A r \in Runs : WF_vars(Workflow(r))

-----------------------------------------------------------------------------
(* Properties *)

\* A call is in the ledger once, however often its activity is tried again.
ChargedOnce == \A k \in Keys : ledger[k] <= 1

\* An accepted proposal is applied once, however often its activity is tried.
AppliedOnce == \A k \in Keys : applied[k] <= 1

OnlyProposal(k) ==
  \A c \in Calls : <<k[1], k[2], c>> \in proposed => c = k[3]

\* A proposal that is the only one of its step is applied after a person has
\* accepted this proposal, not another one and not another answer.
AppliedWasAccepted ==
  \A k \in Keys : applied[k] > 0 /\ OnlyProposal(k) => k \in accepted

\* While its principal stands, a run whose workflow has ended holds no
\* reservation any more, if it only ever made one.
NothingHeldAtEnd ==
  ~revoked /\ MaxFaults < ActTries =>
    \A r \in Runs :
      at[r] = "over" /\ Cardinality(OwnedBy(r)) <= 1 =>
        \A i \in OwnedBy(r) : held[i] # "held"

\* A run that has ended, by a person's cancel too, stays ended, and an activity
\* that was under way then neither proposes nor applies anything any more.
EndedIsFinal ==
  [][\A r \in Runs :
       state[r] \in Terminal =>
         /\ state'[r] = state[r]
         /\ \A k \in {r} \X Steps \X Calls :
              applied'[k] = applied[k] /\ (k \in proposed' => k \in proposed)]_vars

\* A run that is requested ends: its workflow does, and while its principal
\* stands the run is in a terminal state then.
RunEnds ==
  \A r \in Runs :
    state[r] = "planned" ~> at[r] = "over" /\ (revoked \/ state[r] \in Terminal)

=============================================================================
