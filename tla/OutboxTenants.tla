---------------------------- MODULE OutboxTenants ----------------------------
(***************************************************************************)
(* The dispatcher's fairness between tenants: batches smaller than what is *)
(* ready, ranked per tenant by the pick, and the round-robin of a pass.    *)
(* What can go wrong with one row is in Outbox; here a start is one step,  *)
(* and a lease runs out only when its worker is gone.                      *)
(***************************************************************************)
EXTENDS Naturals, Sequences, FiniteSets

CONSTANTS
  Dispatchers, Tenants,
  Batch,      \* batchSize
  NoClaim,
  MaxRows,    \* bound: events
  MaxLosses   \* bound: passes that end with their claims standing

Numbers == 1..MaxRows

ASSUME TenantsAssumption ==
  /\ IsFiniteSet(Dispatchers) /\ IsFiniteSet(Tenants) /\ NoClaim \notin Dispatchers
  /\ MaxRows \in Nat /\ MaxLosses \in Nat /\ Batch \in Nat

VARIABLES
  line,     \* the tenants of the events that came due, by availableAt and id
  keeper,   \* whose running lease a row is under
  gone,     \* rows that are dispatched
  stage, choice, queue,  \* each worker's pass
  waited,   \* history: others' starts while a tenant waits for a claim
  losses    \* what is left of the budget

turnVars == <<stage, choice, queue>>
lineVars == <<line, keeper, gone, turnVars, waited, losses>>

LineInit ==
  /\ line = <<>>
  /\ keeper = [i \in Numbers |-> NoClaim]
  /\ gone = {}
  /\ stage = [w \in Dispatchers |-> "idle"]
  /\ choice = [w \in Dispatchers |-> {}]
  /\ queue = [w \in Dispatchers |-> <<>>]
  /\ waited = [t \in Tenants |-> 0]
  /\ losses = MaxLosses

-----------------------------------------------------------------------------

StageIs(w, where) == stage' = [stage EXCEPT ![w] = where]

\* The rows that a pick may take.
Free == {i \in 1..Len(line) : i \notin gone /\ keeper[i] = NoClaim}

\* How many rows of its tenant come before i in a set: row_number() and `seen`.
Rank(i, rows) == Cardinality({j \in rows : line[j] = line[i] /\ j < i})

\* The oldest of each tenant, then the second oldest of each, and so on.
InTurn(i, j, rows) ==
  \/ Rank(i, rows) < Rank(j, rows)
  \/ Rank(i, rows) = Rank(j, rows) /\ i < j

\* Mutant: the oldest rows, whosever they are.
ChosenOldest(rows) == {i \in rows : Cardinality({j \in rows : j < i}) < Batch}

Chosen(rows) ==
  {i \in rows : Cardinality({j \in rows : InTurn(j, i, rows)}) < Batch}

\* An event of t comes due.
Add(t) ==
  /\ Len(line) < MaxRows
  /\ line' = Append(line, t)
  /\ UNCHANGED <<keeper, gone, turnVars, waited, losses>>

PickBatch(w) ==
  /\ stage[w] = "idle"
  /\ choice' = [choice EXCEPT ![w] = Chosen(Free)]
  /\ StageIs(w, IF Free = {} THEN "list" ELSE "claim")
  /\ UNCHANGED <<line, keeper, gone, queue, waited, losses>>

\* t has an event that is free to be claimed.
Waits(t) == \E i \in Free : line[i] = t

ClaimBatch(w) ==
  LET won == choice[w] \cap Free IN
  /\ stage[w] = "claim"
  /\ keeper' = [i \in Numbers |-> IF i \in won THEN w ELSE keeper[i]]
  /\ waited' = [t \in Tenants |->
       IF \E i \in won : line[i] = t THEN 0 ELSE waited[t]]
  /\ choice' = [choice EXCEPT ![w] = {}]
  /\ StageIs(w, "list")
  /\ UNCHANGED <<line, gone, queue, losses>>

\* roundRobinByTenant
Order(rows) ==
  CHOOSE s \in [1..Cardinality(rows) -> rows] :
    \A m, n \in DOMAIN s : m < n => InTurn(s[m], s[n], rows)

Kept(w) == {i \in Numbers : keeper[i] = w /\ i \notin gone}

ListBatch(w) ==
  /\ stage[w] = "list"
  /\ queue' = [queue EXCEPT ![w] = Order(Kept(w))]
  /\ StageIs(w, IF Kept(w) = {} THEN "idle" ELSE "work")
  /\ UNCHANGED <<line, keeper, gone, choice, waited, losses>>

StartNext(w) ==
  LET i == Head(queue[w])
      last == Len(queue[w]) = 1
  IN
  /\ stage[w] = "work"
  /\ gone' = gone \cup {i}
  /\ queue' = [queue EXCEPT ![w] = Tail(@)]
  /\ waited' = [t \in Tenants |->
       IF t # line[i] /\ Waits(t) THEN waited[t] + 1 ELSE waited[t]]
  /\ StageIs(w, IF last THEN "idle" ELSE "work")
  /\ UNCHANGED <<line, keeper, choice, losses>>

\* The worker dies, and comes back under its name.
WorkerDies(w) ==
  /\ stage[w] # "idle" /\ losses > 0
  /\ losses' = losses - 1
  /\ StageIs(w, "idle")
  /\ choice' = [choice EXCEPT ![w] = {}]
  /\ queue' = [queue EXCEPT ![w] = <<>>]
  /\ UNCHANGED <<line, keeper, gone, waited>>

\* A row whose worker has no pass with it any more is free again.
ClaimLapses(i) ==
  /\ keeper[i] # NoClaim /\ i \notin gone
  /\ stage[keeper[i]] \in {"idle", "claim"}
  /\ keeper' = [keeper EXCEPT ![i] = NoClaim]
  /\ UNCHANGED <<line, gone, turnVars, waited, losses>>

DispatchTurn(w) == PickBatch(w) \/ ClaimBatch(w) \/ ListBatch(w) \/ StartNext(w)

LineNext ==
  \/ \E t \in Tenants : Add(t)
  \/ \E w \in Dispatchers : DispatchTurn(w) \/ WorkerDies(w)
  \/ \E i \in Numbers : ClaimLapses(i)

LineSpec == LineInit /\ [][LineNext]_lineVars

-----------------------------------------------------------------------------
(* Properties *)

\* Whatever other tenants have due, one of a waiting tenant's events is claimed
\* before more of others' are started than a batch for each worker, and one for
\* each pass that left its claims standing.  (With more tenants than a batch has
\* rows, the oldest event of each does not fit into one.)
TurnComes ==
  Cardinality(Tenants) <= Batch =>
    \A t \in Tenants :
      waited[t] <= (Cardinality(Dispatchers) + MaxLosses - losses) * Batch

=============================================================================
