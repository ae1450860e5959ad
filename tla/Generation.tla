------------------------------ MODULE Generation ------------------------------
(***************************************************************************)
(* Studio generation jobs: modules/creative, studioGenerationWorkflowV1    *)
(* with one workflow per attempt, and Budgets, whose reservations belong   *)
(* to attempts here.  A cancel moves the job at once and a retry starts    *)
(* the next attempt, while the old attempt's workflow and its model call   *)
(* may go on.  As in AgentRun an activity is cut at its transactions, and  *)
(* an attempt of it, or its answer, can be lost at any of them.            *)
(***************************************************************************)
EXTENDS Naturals, FiniteSets

CONSTANTS
  Jobs,             \* jobs on one document, from one base revision
  OtherBrand,       \* the jobs that spend another brand's money
  None,
  MaxRetries,       \* bound: retries of all jobs
  MaxCancels,       \* bound: cancels of all jobs
  MaxReservations,  \* bound: rows one attempt can come to own
  Estimate, DayLimit, MonthLimit,
  ActTries,         \* attempts of a control activity
  ModelTries,       \* attempts of callGenerationModel
  MaxFaults         \* bound: activities denied, attempts or answers lost

MaxAttempts == MaxRetries + 1
Attempts == Jobs \X (1..MaxAttempts)

ASSUME GenerationAssumption ==
  /\ IsFiniteSet(Jobs) /\ OtherBrand \subseteq Jobs
  /\ None \notin Attempts \X (1..MaxReservations)
  /\ MaxRetries \in Nat /\ MaxCancels \in Nat /\ MaxFaults \in Nat
  /\ MaxReservations \in Nat
  /\ Estimate \in Nat /\ DayLimit \in Nat /\ MonthLimit \in Nat
  /\ ActTries \in 1..MaxReservations /\ ModelTries \in Nat \ {0}

VARIABLES
  held, reserved, consumed, ledger, unplanned,  \* see Budgets
  state, attempt, linked, output,  \* the job's row
  at, tries,       \* each attempt's workflow
  asked, told,     \* cancels to be relayed to it, and those it has
  faults

budgetVars == <<held, reserved, consumed, ledger, unplanned>>
jobVars == <<state, attempt, linked, output>>
flowVars == <<at, tries>>
signalVars == <<asked, told>>
vars == <<budgetVars, jobVars, flowVars, signalVars, faults>>

\* A reservation is keyed by attempt; every model call is a charge of its own.
B == INSTANCE Budgets WITH
  Runs <- Attempts, SecondBrand <- OtherBrand \X (1..MaxAttempts),
  MaxSteps <- ModelTries, MaxCalls <- 0

Live == {"queued", "generating", "validating"}
States == Live \cup {"none", "completed", "failed", "cancelled"}

\* The stages of an activity, by its first.
Entry ==
  [idle |-> "idle", begin |-> "begin", reserve |-> "reserve", link |-> "reserve",
   model |-> "model", ask |-> "model", bill |-> "model", closed |-> "model",
   refused |-> "model", record |-> "model", save |-> "save", fail |-> "fail",
   settle |-> "settle", over |-> "over"]

TypeOK ==
  /\ B!BudgetsTypeOK
  /\ state \in [Jobs -> States]
  /\ attempt \in [Jobs -> 1..MaxAttempts]
  /\ linked \in [Jobs -> B!Ids \cup {None}]
  /\ output \in [Jobs -> BOOLEAN]
  /\ at \in [Attempts -> DOMAIN Entry]
  /\ tries \in [Attempts -> 0..(ActTries + ModelTries)]
  /\ told \subseteq asked /\ asked \subseteq Attempts
  /\ faults \in 0..MaxFaults

Init ==
  /\ B!BudgetsInit
  /\ state = [j \in Jobs |-> "none"]
  /\ attempt = [j \in Jobs |-> 1]
  /\ linked = [j \in Jobs |-> None]
  /\ output = [j \in Jobs |-> FALSE]
  /\ at = [a \in Attempts |-> "idle"]
  /\ tries = [a \in Attempts |-> 0]
  /\ asked = {} /\ told = {}
  /\ faults = MaxFaults

-----------------------------------------------------------------------------
(* People.  A document that moved refuses a start and a retry; it may move *)
(* or not at any time, and people may do either or not.                    *)

Start(j) ==
  /\ state[j] = "none"
  /\ state' = [state EXCEPT ![j] = "queued"]
  /\ UNCHANGED <<budgetVars, attempt, linked, output, flowVars, signalVars,
                 faults>>

\* release by the job's budget key, if it has one.
ReleaseLinked(j) ==
  IF linked[j] = None THEN UNCHANGED budgetVars
  ELSE B!CloseOne(linked[j][1], "released")

Cancel(j) ==
  /\ state[j] \in Live /\ Cardinality(asked) < MaxCancels
  /\ state' = [state EXCEPT ![j] = "cancelled"]
  /\ ReleaseLinked(j)
  /\ asked' = asked \cup {<<j, attempt[j]>>}
  /\ UNCHANGED <<attempt, linked, output, flowVars, told, faults>>

Retry(j) ==
  /\ state[j] \in {"failed", "cancelled"}
  /\ Cardinality({a \in Attempts : a[2] < attempt[a[1]]}) < MaxRetries
  /\ state' = [state EXCEPT ![j] = "queued"]
  /\ attempt' = [attempt EXCEPT ![j] = @ + 1]
  /\ ReleaseLinked(j)
  /\ linked' = [linked EXCEPT ![j] = None]
  /\ output' = [output EXCEPT ![j] = FALSE]
  /\ UNCHANGED <<flowVars, signalVars, faults>>

\* The relay signals the attempt's workflow, if it runs.
RelayCancel(a) ==
  /\ a \in asked \ told /\ at[a] \notin {"idle", "over"}
  /\ told' = told \cup {a}
  /\ UNCHANGED <<budgetVars, jobVars, flowVars, asked, faults>>

-----------------------------------------------------------------------------
(* The workflow between its activities *)

\* outcomeFor: the attempt is the job's, and the job is not over.
Proceeds(a) == attempt[a[1]] = a[2] /\ state[a[1]] \in Live

Stage(a, where) == at' = [at EXCEPT ![a] = where] /\ UNCHANGED tries

Enter(a, activity) ==
  /\ at' = [at EXCEPT ![a] = activity]
  /\ tries' = [tries EXCEPT ![a] = IF activity = "model" THEN ModelTries ELSE ActTries]

\* goOn: an attempt that is to stop goes to its finally.
GoOn(a, proceed, next) == Enter(a, IF proceed /\ a \notin told THEN next ELSE "settle")

\* The catch fails the job; a failure in the catch or the finally is not caught.
Fails(a) ==
  Enter(a, IF at[a] = "settle" THEN "over"
           ELSE IF at[a] = "fail" THEN "settle" ELSE "fail")

Again(a) ==
  IF tries[a] > 1
    THEN /\ at' = [at EXCEPT ![a] = Entry[at[a]]]
         /\ tries' = [tries EXCEPT ![a] = @ - 1]
    ELSE Fails(a)

Lost(a) == faults > 0 /\ faults' = faults - 1 /\ Again(a)

\* The last transaction of an activity: its answer arrives, or is lost.
Answers(a, proceed, next) ==
  \/ GoOn(a, proceed, next) /\ UNCHANGED faults
  \/ Lost(a)

LoseAttempt(a) ==
  /\ at[a] \notin {"idle", "over"} /\ Lost(a)
  /\ UNCHANGED <<budgetVars, jobVars, signalVars>>

-----------------------------------------------------------------------------
(* The activities *)

\* inTenant: without the person's membership or grants, which may come back, an
\* activity is denied at its start; PrepareCall and Save have more refusals.
Denied(a) ==
  /\ at[a] \in {"begin", "reserve", "fail", "settle"} /\ Fails(a)
  /\ faults > 0 /\ faults' = faults - 1
  /\ UNCHANGED <<budgetVars, jobVars, signalVars>>

\* The outbox starts the workflow of each attempt that was asked for.
Deliver(a) ==
  /\ at[a] = "idle"
  /\ state[a[1]] # "none" /\ a[2] <= attempt[a[1]]
  /\ Enter(a, "begin")
  /\ UNCHANGED <<budgetVars, jobVars, signalVars, faults>>

Begin(a) ==
  /\ at[a] = "begin"
  /\ state' = IF Proceeds(a) /\ state[a[1]] = "queued"
                THEN [state EXCEPT ![a[1]] = "generating"] ELSE state
  /\ Answers(a, Proceeds(a), "reserve")
  /\ UNCHANGED <<budgetVars, attempt, linked, output, signalVars>>

\* Mutant: the budget key names the job, not its attempt.
KeyOfJob(a) == <<a[1], 1>>

\* budgetRunIdFor
BudgetKey(a) == a

\* The row the attempt would charge: the newest under its key.
Own(a) == <<BudgetKey(a), Cardinality(B!OwnedBy(BudgetKey(a)))>>

Linked(a) ==
  linked[a[1]] # None /\ linked[a[1]][1] = BudgetKey(a)

Reserve(a) ==
  /\ at[a] = "reserve"
  /\ IF ~Proceeds(a) \/ Linked(a)
       THEN GoOn(a, Proceeds(a), "model") /\ UNCHANGED budgetVars
     ELSE IF ~B!Affordable(BudgetKey(a))
       THEN Fails(a) /\ UNCHANGED budgetVars
     ELSE B!ReserveSpend(BudgetKey(a)) /\ Stage(a, "link")
  /\ UNCHANGED <<jobVars, signalVars, faults>>

\* The job names its reservation in a transaction of its own, or gives it back.
Link(a) ==
  /\ at[a] = "link"
  /\ IF Proceeds(a)
       THEN linked' = [linked EXCEPT ![a[1]] = Own(a)] /\ UNCHANGED budgetVars
       ELSE B!CloseOne(BudgetKey(a), "released") /\ UNCHANGED linked
  /\ Answers(a, Proceeds(a), "model")
  /\ UNCHANGED <<state, attempt, output, signalVars>>

\* modelContext: whether the model is to be called.
Calls(a) == Proceeds(a) /\ ~output[a[1]]

\* The person's permissions, the request or the model's routing may refuse.
PrepareCall(a) ==
  /\ at[a] = "model"
  /\ IF ~Calls(a) THEN GoOn(a, Proceeds(a), "save")
     ELSE Fails(a) \/ (Linked(a) /\ Stage(a, "ask"))
  /\ UNCHANGED <<budgetVars, jobVars, signalVars, faults>>

ModelAnswers(a) ==
  /\ at[a] = "ask"
  /\ Stage(a, "bill") \/ Again(a)
  /\ UNCHANGED <<budgetVars, jobVars, signalVars, faults>>

\* The key of a charge is made up for each call.
NewCharge(a) ==
  <<a, 1 + Cardinality({k \in B!Keys : k[1] = a /\ ledger[k] > 0}), 0>>

\* consumeIncurred: charged whatever has become of the reservation.
Bill(a) ==
  /\ at[a] = "bill"
  /\ B!Charge(Own(a), NewCharge(a))
  /\ IF B!Closed(Own(a)) THEN Stage(a, "closed")
     ELSE IF B!ExceededAfter(Own(a)) THEN Fails(a)
     ELSE Stage(a, "refused") \/ Stage(a, "record")
  /\ UNCHANGED <<jobVars, signalVars, faults>>

\* addSpend, and the attempt stops: it was cancelled, or the answer is no use.
StopCall(a) ==
  /\ at[a] \in {"closed", "refused"}
  /\ \/ /\ IF at[a] = "closed" /\ ~Proceeds(a) THEN GoOn(a, FALSE, "save")
           ELSE Fails(a)
        /\ UNCHANGED faults
     \/ Lost(a)
  /\ UNCHANGED <<budgetVars, jobVars, signalVars>>

RecordOutput(a) ==
  /\ at[a] = "record"
  /\ IF Proceeds(a) /\ ~output[a[1]]
       THEN /\ state' = [state EXCEPT ![a[1]] = "validating"]
            /\ output' = [output EXCEPT ![a[1]] = TRUE]
       ELSE UNCHANGED <<state, output>>
  /\ Answers(a, Proceeds(a), "save")
  /\ UNCHANGED <<budgetVars, attempt, linked, signalVars>>

\* One transaction: revisions of the document, or a proposal.  A document that
\* moved, a person who may no longer edit and blocking findings refuse.
Save(a) ==
  /\ at[a] = "save"
  /\ \/ /\ ~Proceeds(a)
        /\ Enter(a, "settle") /\ UNCHANGED <<state, faults>>
     \/ /\ Proceeds(a)
        /\ Fails(a) /\ UNCHANGED <<state, faults>>
     \/ /\ Proceeds(a) /\ state[a[1]] = "validating" /\ output[a[1]]
        /\ state' = [state EXCEPT ![a[1]] = "completed"]
        /\ Answers(a, FALSE, "save")
  /\ UNCHANGED <<budgetVars, attempt, linked, output, signalVars>>

Fail(a) ==
  /\ at[a] = "fail"
  /\ state' = IF Proceeds(a) THEN [state EXCEPT ![a[1]] = "failed"] ELSE state
  /\ Answers(a, FALSE, "fail")
  /\ UNCHANGED <<budgetVars, attempt, linked, output, signalVars>>

Settle(a) ==
  /\ at[a] = "settle"
  /\ B!CloseOne(BudgetKey(a), "settled")
  /\ \/ Enter(a, "over") /\ UNCHANGED faults
     \/ Lost(a)
  /\ UNCHANGED <<jobVars, signalVars>>

-----------------------------------------------------------------------------

Workflow(a) ==
  \/ Deliver(a) \/ Denied(a) \/ Begin(a) \/ Reserve(a) \/ Link(a)
  \/ PrepareCall(a) \/ ModelAnswers(a) \/ Bill(a) \/ StopCall(a) \/ RecordOutput(a)
  \/ Save(a) \/ Fail(a) \/ Settle(a)

Next ==
  \/ \E j \in Jobs : Start(j) \/ Cancel(j) \/ Retry(j)
  \/ \E a \in Attempts : Workflow(a) \/ LoseAttempt(a) \/ RelayCancel(a)

Spec == Init /\ [][Next]_vars

-----------------------------------------------------------------------------
(* Properties *)

\* What a brand and the company have spent or promised never passes the cap by
\* more than one model call per attempt: the one that was under way when its
\* reservation was closed, or that cost more than was reserved.
SpendWithinCap ==
  LET over(R) == Cardinality({a \in R : unplanned[a] > 0})
      taken(R) == B!Spent(R) + B!Promised(R)
  IN
  /\ taken(Attempts) <= MonthLimit + over(Attempts)
  /\ \A R \in {B!SameBrand(a) : a \in Attempts} :
       taken(R) <= DayLimit + over(R)

\* While a job goes on, its reservation is its attempt's own and stays open
\* until that attempt itself settles it: no late step of an earlier attempt, no
\* cancel or retry of before, closes or replaces it.
LiveAttemptHolds ==
  \A j \in Jobs :
    state[j] \in Live /\ linked[j] # None =>
      /\ linked[j][1] = <<j, attempt[j]>>
      /\ held[linked[j]] = "held" \/ at[<<j, attempt[j]>>] \in {"settle", "over"}

=============================================================================
