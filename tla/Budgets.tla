------------------------------ MODULE Budgets ------------------------------
(***************************************************************************)
(* Spend reservations of modules/billing: reserveSpend against the brand's *)
(* day and the company's month, charges keyed by the call they pay for,    *)
(* and the settle or release that closes a run's reservation.  Every       *)
(* operation is one transaction that holds the rows it decides on, and is  *)
(* one step here; AgentRun and Generation say who calls them and when.     *)
(* Money counts in units, every charge is one unit, and all happens on one *)
(* day.                                                                    *)
(***************************************************************************)
EXTENDS Naturals, FiniteSets

CONSTANTS
  Runs,             \* agent runs or generation attempts, the runId of a reservation
  SecondBrand,      \* the runs of a second brand of the same company
  MaxReservations,  \* bound: rows one run can come to own
  Estimate,         \* micros a run reserves
  DayLimit,         \* spend_limits: each brand's day
  MonthLimit,       \* spend_limits and entitlement: the company's month
  MaxSteps,         \* budget.maxSteps: model calls of a run
  MaxCalls          \* bound: tool calls of a step

ASSUME BudgetsAssumption ==
  /\ SecondBrand \subseteq Runs
  /\ MaxReservations \in Nat \ {0} /\ Estimate \in Nat
  /\ DayLimit \in Nat /\ MonthLimit \in Nat
  /\ MaxSteps \in Nat \ {0} /\ MaxCalls \in Nat

VARIABLES
  held,      \* budget_reservations.state, "none" before the row exists
  reserved,  \* reserved_micros
  consumed,  \* consumed_micros
  ledger,    \* usage_ledger: rows per key
  unplanned  \* units charged past a reservation or after it closed, per run

budgetVars == <<held, reserved, consumed, ledger, unplanned>>

Ids == Runs \X (1..MaxReservations)

\* A step records a model call; its call 0 is the model call itself.
Steps == 1..MaxSteps
Calls == 0..MaxCalls

\* A charge is keyed by the model call (its step) or the tool call it pays for.
Keys == Runs \X Steps \X Calls

BudgetsTypeOK ==
  /\ held \in [Ids -> {"none", "held", "settled", "released"}]
  /\ reserved \in [Ids -> Nat]
  /\ consumed \in [Ids -> Nat]
  /\ ledger \in [Keys -> Nat]
  /\ unplanned \in [Runs -> Nat]

BudgetsInit ==
  /\ held = [i \in Ids |-> "none"]
  /\ reserved = [i \in Ids |-> 0]
  /\ consumed = [i \in Ids |-> 0]
  /\ ledger = [k \in Keys |-> 0]
  /\ unplanned = [r \in Runs |-> 0]

-----------------------------------------------------------------------------

\* A sum, as the number of the units summed: proofs can count a set, and cannot
\* unfold a recursive sum.
Total(amount) ==
  Cardinality(UNION {{x} \X (1..amount[x]) : x \in DOMAIN amount})

RowsOf(R) == R \X (1..MaxReservations)

\* Mutant: a released reservation counts nothing.
CommittedHeld(R) ==
  Total([i \in RowsOf(R) |->
    IF held[i] \in {"none", "released"} THEN 0
    ELSE IF reserved[i] < consumed[i] THEN consumed[i] ELSE reserved[i]])

\* What the reservations of a set of runs take from a cap: a released one what
\* it consumed, any other the greater of reserved and consumed.
Committed(R) ==
  Total([i \in RowsOf(R) |->
    IF held[i] = "none" THEN 0
    ELSE IF held[i] = "released" \/ reserved[i] < consumed[i] THEN consumed[i]
    ELSE reserved[i]])

\* The runs that draw on the same brand's day.
SameBrand(r) == IF r \in SecondBrand THEN SecondBrand ELSE Runs \ SecondBrand

Affordable(r) ==
  /\ Committed(Runs) + Estimate <= MonthLimit
  /\ Committed(SameBrand(r)) + Estimate <= DayLimit

\* The rows of a run; a new one is the next of them.
OwnedBy(r) == {i \in Ids : i[1] = r /\ held[i] # "none"}
Fresh(r) == <<r, Cardinality(OwnedBy(r)) + 1>>

ReserveSpend(r) ==
  /\ Affordable(r)
  /\ held' = [held EXCEPT ![Fresh(r)] = "held"]
  /\ reserved' = [reserved EXCEPT ![Fresh(r)] = Estimate]
  /\ UNCHANGED <<consumed, ledger, unplanned>>

\* Mutant: the key is not looked up.
SeenNever(k) == FALSE

Seen(k) == ledger[k] > 0

\* One unit on the reservation and one row in the ledger; a closed reservation
\* keeps reserved = consumed.
Book(i, k) ==
  LET total == consumed[i] + 1 IN
  /\ consumed' = [consumed EXCEPT ![i] = total]
  /\ reserved' = IF held[i] = "held" THEN reserved
                   ELSE [reserved EXCEPT ![i] = total]
  /\ ledger' = [ledger EXCEPT ![k] = @ + 1]
  /\ unplanned' = IF held[i] = "held" /\ total <= reserved[i] THEN unplanned
                    ELSE [unplanned EXCEPT ![i[1]] = @ + 1]
  /\ UNCHANGED held

\* consume and consumeIncurred: a key that is in the ledger charges nothing.
Charge(i, k) == IF Seen(k) THEN UNCHANGED budgetVars ELSE Book(i, k)

Closed(i) == held[i] # "held"
ExceededAfter(i) == consumed'[i] > reserved'[i]

\* settle and release close one row of the run, whichever byRun finds, and
\* leave it alone when it is not held.
CloseOne(r, as) ==
  \/ OwnedBy(r) = {} /\ UNCHANGED budgetVars
  \/ \E i \in OwnedBy(r) :
       IF held[i] = "held"
         THEN /\ held' = [held EXCEPT ![i] = as]
              /\ reserved' = [reserved EXCEPT ![i] = consumed[i]]
              /\ UNCHANGED <<consumed, ledger, unplanned>>
         ELSE UNCHANGED budgetVars

-----------------------------------------------------------------------------

Spent(R) == Total([k \in R \X Steps \X Calls |-> ledger[k]])
Promised(R) ==
  Total([i \in RowsOf(R) |->
    IF held[i] = "held" /\ reserved[i] > consumed[i]
      THEN reserved[i] - consumed[i] ELSE 0])

=============================================================================
