--------------------------- MODULE AgentRunProofs ---------------------------
(***************************************************************************)
(* Theorems about AgentRun, for any number of runs, steps, calls, attempts *)
(* and losses, and every limit.                                            *)
(***************************************************************************)
EXTENDS AgentRun, FiniteSetTheorems, WellFoundedInduction, TLAPS

Before == {"idle", "resolve", "start"}
InStep == {"charge", "dispatch", "tool", "record"}
InReview == {"wait", "decide", "apply"}
InLoop == {"plan", "call"} \cup InStep \cup InReview
AtEnd == {"finish", "settle", "over"}

\* A run owns at most one reservation for each attempt to make one.
Reservations(r) ==
  \E n \in 0..MaxReservations :
    /\ OwnedBy(r) = {r} \X (1..n)
    /\ at[r] \in Before => n = 0
    /\ at[r] = "reserve" => n + tries[r] <= ActTries
    /\ at[r] = "link" => n + tries[r] <= ActTries + 1

\* Where the workflow is, it has what it uses there.
Loop(r) ==
  /\ tries[r] >= 1
  /\ at[r] \in InLoop => turn[r] < MaxSteps
  /\ at[r] = "call" => recorded[r] < MaxSteps
  /\ at[r] \in InLoop \ {"plan"} => linked[r] # 0
  /\ at[r] \in InStep \cup InReview => step[r] # 0
  /\ step[r] <= recorded[r]

\* A running run has no proposal of the calls before it; a parked one waits for
\* the newest proposal of its step, which is not applied.
Proposals(r) ==
  /\ \A k \in proposed : k[1] = r => k[2] <= recorded[r]
  /\ at[r] \in InStep /\ state[r] = "running" =>
       \A c \in 0..todo[r] : <<r, step[r], c>> \notin proposed
  /\ at[r] \in InReview /\ state[r] = "waiting_for_review" =>
       /\ <<r, step[r], todo[r]>> \in proposed
       /\ applied[<<r, step[r], todo[r]>>] = 0
       /\ \A c \in Calls : c < todo[r] => <<r, step[r], c>> \notin proposed

\* An accepted step has an accepted proposal.
Decisions(r) ==
  \A s \in Steps : decided[<<r, s>>] = "accept" =>
    \E c \in Calls : <<r, s, c>> \in proposed /\ <<r, s, c>> \in accepted

\* While its principal stands, a run that is over has closed its reservation.
Settled(r) ==
  ~revoked /\ MaxFaults < ActTries =>
    /\ at[r] \notin {"plan", "call", "charge", "over"} =>
         tries[r] + MaxFaults >= ActTries + faults
    /\ at[r] = "over" /\ Cardinality(OwnedBy(r)) <= 1 =>
         \A i \in OwnedBy(r) : held[i] # "held"

RunInv(r) == Reservations(r) /\ Loop(r) /\ Proposals(r) /\ Decisions(r)

\* What is applied has been proposed, and applied and charged once.
Once ==
  \A k \in Keys : /\ ledger[k] <= 1
                  /\ applied[k] <= 1
                  /\ applied[k] > 0 => k \in proposed

AgentInv ==
  /\ TypeOK
  /\ Once /\ AppliedWasAccepted
  /\ \A r \in Runs : RunInv(r)

-----------------------------------------------------------------------------
(* Where the workflow goes *)

\* The workflow of r moves, and no other.
Moves(r) ==
  /\ at' = [at EXCEPT ![r] = at'[r]] /\ at'[r] \in Places
  /\ tries' = [tries EXCEPT ![r] = tries'[r]] /\ tries'[r] \in Nat \ {0}
  /\ goal' \in [Runs -> States]

LEMMA EnterMoves ==
  ASSUME TypeOK, NEW r \in Runs, NEW w \in Places, Enter(r, w),
         goal' \in [Runs -> States]
  PROVE  Moves(r) /\ at'[r] = w /\ (w # "plan" => tries'[r] = ActTries)
BY AgentRunAssumption DEF AgentRunAssumption, TypeOK, Enter, Moves

LEMMA StageMoves ==
  ASSUME TypeOK, NEW r \in Runs, Loop(r), NEW w \in Places, Stage(r, w)
  PROVE  Moves(r) /\ at'[r] = w /\ tries'[r] = tries[r] /\ goal' = goal
BY DEF TypeOK, Loop, Stage, Moves

LEMMA FailsMoves ==
  ASSUME TypeOK, NEW r \in Runs, NEW as \in States, Fails(r, as)
  PROVE  /\ Moves(r) /\ at'[r] \in AtEnd /\ tries'[r] = ActTries
         /\ at'[r] = "over" => at[r] = "settle"
<1>1. "over" \in Places /\ "settle" \in Places /\ "finish" \in Places
  BY DEF Places, Entry
<1>2. CASE at[r] = "settle"
  <2>1. Enter(r, "over") /\ goal' = goal
    BY <1>2 DEF Fails, Then
  <2> QED
    BY <1>1, <1>2, <2>1, EnterMoves DEF AtEnd, TypeOK
<1>3. CASE at[r] = "finish"
  <2>1. Enter(r, "settle") /\ goal' = goal
    BY <1>3 DEF Fails, Then
  <2> QED
    BY <1>1, <2>1, EnterMoves DEF AtEnd, TypeOK
<1>4. CASE at[r] \notin {"settle", "finish"}
  <2>1. Enter(r, "finish") /\ goal' = [goal EXCEPT ![r] = as]
    BY <1>4 DEF Fails
  <2>2. goal' \in [Runs -> States]
    BY <2>1 DEF TypeOK
  <2> QED
    BY <1>1, <2>1, <2>2, EnterMoves DEF AtEnd
<1> QED
  BY <1>2, <1>3, <1>4

LEMMA LostMoves ==
  ASSUME TypeOK, NEW r \in Runs, Loop(r), Lost(r)
  PROVE  /\ Moves(r)
         /\ faults \in 1..MaxFaults /\ faults' = faults - 1
         /\ \/ /\ at'[r] = Entry[at[r]] /\ tries'[r] = tries[r] - 1
            \/ /\ tries[r] = 1
               /\ at'[r] \in AtEnd /\ tries'[r] = ActTries
               /\ at'[r] = "over" => at[r] = "settle"
<1>1. faults \in 1..MaxFaults /\ faults' = faults - 1
  BY AgentRunAssumption DEF AgentRunAssumption, TypeOK, Lost
<1>2. CASE tries[r] > 1
  <2>1. Entry[at[r]] \in Places
    BY DEF TypeOK, Places, Entry
  <2> QED
    BY <1>1, <1>2, <2>1 DEF TypeOK, Lost, Moves
<1>3. CASE ~(tries[r] > 1)
  <2>1. Fails(r, "failed") /\ tries[r] = 1
    BY <1>3 DEF Lost, TypeOK, Loop
  <2>2. "failed" \in States
    BY DEF States
  <2> QED
    BY <1>1, <2>1, <2>2, FailsMoves
<1> QED
  BY <1>2, <1>3

LEMMA LoopEndsMoves ==
  ASSUME TypeOK, NEW r \in Runs, LoopEnds(r)
  PROVE  Moves(r) /\ at'[r] = "conclude" /\ tries'[r] = ActTries
<1>1. goal' \in [Runs -> States]
  BY DEF TypeOK, LoopEnds, States
<1>2. "conclude" \in Places /\ Enter(r, "conclude")
  BY DEF Places, Entry, LoopEnds
<1> QED
  BY <1>1, <1>2, EnterMoves

LEMMA TurnMoves ==
  ASSUME TypeOK, NEW r \in Runs, NEW n \in 0..MaxSteps, Turn(r, n)
  PROVE  /\ Moves(r)
         /\ turn' = [turn EXCEPT ![r] = n]
         /\ \/ at'[r] = "plan" /\ n < MaxSteps
            \/ at'[r] = "conclude" /\ tries'[r] = ActTries
<1>1. turn' = [turn EXCEPT ![r] = n]
  BY DEF Turn
<1>2. CASE n < MaxSteps /\ ~cancelSeen[r]
  <2>1. Enter(r, "plan") /\ goal' = goal /\ "plan" \in Places
    BY <1>2 DEF Turn, Then, Places, Entry
  <2> QED
    BY <1>1, <1>2, <2>1, EnterMoves DEF TypeOK
<1>3. CASE ~(n < MaxSteps /\ ~cancelSeen[r])
  <2>1. LoopEnds(r)
    BY <1>3 DEF Turn
  <2> QED
    BY <1>1, <2>1, LoopEndsMoves
<1> QED
  BY <1>2, <1>3

LEMMA NextCallMoves ==
  ASSUME TypeOK, NEW r \in Runs, Loop(r), at[r] \in InLoop, NextCall(r)
  PROVE  /\ Moves(r) /\ step' = step
         /\ turn' \in [Runs -> 0..MaxSteps] /\ turn' = [turn EXCEPT ![r] = turn'[r]]
         /\ todo' \in [Runs -> Calls] /\ todo' = [todo EXCEPT ![r] = todo'[r]]
         /\ \/ /\ at'[r] = "dispatch" /\ tries'[r] = ActTries
               /\ turn'[r] = turn[r] /\ todo'[r] = todo[r] - 1
            \/ at'[r] = "plan" /\ turn'[r] < MaxSteps
            \/ at'[r] = "conclude" /\ tries'[r] = ActTries
<1> USE BudgetsAssumption DEF BudgetsAssumption
<1>1. CASE todo[r] > 1
  <2>1. /\ Enter(r, "dispatch") /\ goal' = goal /\ "dispatch" \in Places
        /\ todo' = [todo EXCEPT ![r] = @ - 1] /\ turn' = turn /\ step' = step
    BY <1>1 DEF NextCall, Then, Places, Entry
  <2>2. Moves(r) /\ at'[r] = "dispatch" /\ tries'[r] = ActTries
    BY <2>1, EnterMoves DEF TypeOK
  <2>3. todo' \in [Runs -> Calls]
    BY <1>1, <2>1 DEF TypeOK, Calls
  <2> QED
    BY <2>1, <2>2, <2>3 DEF TypeOK
<1>2. CASE ~(todo[r] > 1)
  <2>1. /\ todo' = [todo EXCEPT ![r] = 0] /\ step' = step
        /\ Turn(r, turn[r] + 1)
    BY <1>2 DEF NextCall
  <2>2. turn[r] + 1 \in 0..MaxSteps
    BY DEF TypeOK, Loop
  <2>3. todo' \in [Runs -> Calls]
    BY <2>1 DEF TypeOK, Calls
  <2>4. /\ Moves(r) /\ turn' = [turn EXCEPT ![r] = turn[r] + 1]
        /\ \/ at'[r] = "plan" /\ turn[r] + 1 < MaxSteps
           \/ at'[r] = "conclude" /\ tries'[r] = ActTries
    BY <2>1, <2>2, TurnMoves
  <2> QED
    BY <2>1, <2>2, <2>3, <2>4 DEF TypeOK
<1> QED
  BY <1>1, <1>2

-----------------------------------------------------------------------------
(* The money *)

LEMMA OwnedCount ==
  ASSUME NEW r, NEW n \in Nat, OwnedBy(r) = {r} \X (1..n)
  PROVE  Cardinality(OwnedBy(r)) = n
<1>1. IsFiniteSet({r}) /\ Cardinality({r}) = 1
  BY FS_Singleton
<1>2. IsFiniteSet(1..n) /\ Cardinality(1..n) = n
  BY FS_Interval
<1>3. Cardinality({r} \X (1..n)) = Cardinality({r}) * Cardinality(1..n)
  BY <1>1, <1>2, FS_Product
<1> QED
  BY <1>1, <1>2, <1>3

\* The types of the budget stay, and so do the rows of every run but r.
Budgeted(r) ==
  /\ BudgetsTypeOK'
  /\ \A q \in Runs : q # r => OwnedBy(q)' = OwnedBy(q)
  /\ \A k \in Keys : ledger'[k] <= 1

LEMMA BudgetIdle ==
  ASSUME TypeOK, Once, NEW r \in Runs, UNCHANGED budgetVars
  PROVE  Budgeted(r) /\ OwnedBy(r)' = OwnedBy(r)
BY DEF TypeOK, BudgetsTypeOK, Once, budgetVars, Budgeted, OwnedBy

LEMMA ChargeBudget ==
  ASSUME TypeOK, Once, NEW r \in Runs, NEW i \in Ids, NEW k \in Keys, Charge(i, k)
  PROVE  Budgeted(r) /\ OwnedBy(r)' = OwnedBy(r)
<1>1. CASE Seen(k)
  BY <1>1, BudgetIdle DEF Charge
<1>2. CASE ~Seen(k)
  <2>1. Book(i, k) /\ ledger[k] = 0
    BY <1>2 DEF Charge, Seen, TypeOK, BudgetsTypeOK
  <2> DEFINE total == consumed[i] + 1
  <2>2. total \in Nat
    BY DEF TypeOK, BudgetsTypeOK
  <2>3. /\ consumed' = [consumed EXCEPT ![i] = total]
        /\ reserved' = reserved \/ reserved' = [reserved EXCEPT ![i] = total]
        /\ ledger' = [ledger EXCEPT ![k] = @ + 1]
        /\ unplanned' = unplanned \/ unplanned' = [unplanned EXCEPT ![i[1]] = @ + 1]
        /\ held' = held
    BY <2>1 DEF Book
  <2> HIDE DEF total
  <2>4. /\ consumed' \in [Ids -> Nat] /\ reserved' \in [Ids -> Nat]
        /\ held' \in [Ids -> {"none", "held", "settled", "released"}]
    BY <2>2, <2>3 DEF TypeOK, BudgetsTypeOK
  <2>5. ledger' \in [Keys -> Nat] /\ \A l \in Keys : ledger'[l] <= 1
    BY <2>1, <2>3 DEF TypeOK, BudgetsTypeOK, Once
  <2>6. unplanned' \in [Runs -> Nat]
    BY <2>3 DEF TypeOK, BudgetsTypeOK, Ids
  <2> QED
    BY <2>3, <2>4, <2>5, <2>6 DEF BudgetsTypeOK, Budgeted, OwnedBy
<1> QED
  BY <1>1, <1>2

LEMMA CloseBudget ==
  ASSUME TypeOK, Once, NEW r \in Runs, NEW as \in {"settled", "released"},
         CloseOne(r, as)
  PROVE  Budgeted(r) /\ OwnedBy(r)' = OwnedBy(r)
<1>1. CASE UNCHANGED budgetVars
  BY <1>1, BudgetIdle
<1>2. CASE ~UNCHANGED budgetVars
  <2>1. PICK i \in OwnedBy(r) :
          /\ held[i] = "held"
          /\ held' = [held EXCEPT ![i] = as]
          /\ reserved' = [reserved EXCEPT ![i] = consumed[i]]
          /\ UNCHANGED <<consumed, ledger, unplanned>>
    BY <1>2 DEF CloseOne
  <2>2. i \in Ids
    BY DEF OwnedBy
  <2>3. BudgetsTypeOK'
    BY <2>1, <2>2 DEF TypeOK, BudgetsTypeOK
  <2>4. \A j \in Ids : held'[j] # "none" <=> held[j] # "none"
    BY <2>1, <2>2 DEF TypeOK, BudgetsTypeOK
  <2>5. \A q : OwnedBy(q)' = OwnedBy(q)
    BY <2>4 DEF OwnedBy
  <2> QED
    BY <2>1, <2>3, <2>5 DEF Budgeted, Once
<1> QED
  BY <1>1, <1>2

\* A new reservation is the next row of its run.
LEMMA ReserveBudgets ==
  ASSUME TypeOK, Once, NEW r \in Runs, NEW n \in Nat, n < MaxReservations,
         OwnedBy(r) = {r} \X (1..n), ReserveSpend(r)
  PROVE  Budgeted(r) /\ OwnedBy(r)' = {r} \X (1..(n + 1))
<1> USE BudgetsAssumption DEF BudgetsAssumption
<1>1. Fresh(r) = <<r, n + 1>>
  BY OwnedCount DEF Fresh
<1>2. <<r, n + 1>> \in Ids
  BY DEF Ids
<1>3. /\ held' = [held EXCEPT ![<<r, n + 1>>] = "held"]
      /\ reserved' = [reserved EXCEPT ![<<r, n + 1>>] = Estimate]
      /\ UNCHANGED <<consumed, ledger, unplanned>>
  BY <1>1 DEF ReserveSpend
<1>4. BudgetsTypeOK'
  BY <1>2, <1>3 DEF TypeOK, BudgetsTypeOK
<1>5. \A j \in Ids : held'[j] # "none" <=> held[j] # "none" \/ j = <<r, n + 1>>
  BY <1>2, <1>3 DEF TypeOK, BudgetsTypeOK
<1>6. \A q \in Runs : q # r => OwnedBy(q)' = OwnedBy(q)
  BY <1>5 DEF OwnedBy
<1>7. OwnedBy(r)' = OwnedBy(r) \cup {<<r, n + 1>>}
  BY <1>2, <1>5 DEF OwnedBy
<1>8. (1..n) \cup {n + 1} = 1..(n + 1)
  OBVIOUS
<1>9. OwnedBy(r)' = {r} \X (1..(n + 1))
  BY <1>7, <1>8
<1> QED
  BY <1>3, <1>4, <1>6, <1>9 DEF Budgeted, Once

-----------------------------------------------------------------------------
(* A step of one run *)

\* Nothing that the invariant says of q changes.
Same(q) ==
  /\ at'[q] = at[q] /\ tries'[q] = tries[q] /\ turn'[q] = turn[q]
  /\ step'[q] = step[q] /\ todo'[q] = todo[q] /\ state'[q] = state[q]
  /\ linked'[q] = linked[q] /\ recorded'[q] = recorded[q]
  /\ OwnedBy(q)' = OwnedBy(q)
  /\ \A k \in Keys : k[1] = q =>
       /\ k \in proposed' <=> k \in proposed
       /\ applied'[k] = applied[k]
       /\ k \in accepted => k \in accepted'
  /\ \A s \in Steps : decided'[<<q, s>>] = decided[<<q, s>>]

LEMMA SameKeeps ==
  ASSUME TypeOK, NEW q \in Runs, RunInv(q), Same(q), proposed' \subseteq Keys
  PROVE  RunInv(q)'
<1>1. Reservations(q)'
  BY DEF RunInv, Reservations, Same
<1>2. Loop(q)'
  BY DEF RunInv, Loop, Same
<1>3. Proposals(q)'
  <2>1. \A c : <<q, step[q], c>> \in Keys => <<q, step[q], c>> \in proposed'
                  <=> <<q, step[q], c>> \in proposed
    BY DEF Same
  <2>2. \A k \in proposed' : k[1] = q => k[2] <= recorded'[q]
    BY DEF RunInv, Proposals, Same
  <2>3. at'[q] \in InStep /\ state'[q] = "running" =>
          \A c \in 0..todo'[q] : <<q, step'[q], c>> \notin proposed'
    BY <2>1 DEF RunInv, Proposals, Same
  <2>4. ASSUME at'[q] \in InReview, state'[q] = "waiting_for_review"
        PROVE  /\ <<q, step'[q], todo'[q]>> \in proposed'
               /\ applied'[<<q, step'[q], todo'[q]>>] = 0
               /\ \A c \in Calls : c < todo'[q] => <<q, step'[q], c>> \notin proposed'
    <3>1. /\ <<q, step[q], todo[q]>> \in proposed
          /\ applied[<<q, step[q], todo[q]>>] = 0
          /\ \A c \in Calls : c < todo[q] => <<q, step[q], c>> \notin proposed
      BY <2>4 DEF RunInv, Proposals, Same
    <3>2. <<q, step[q], todo[q]>> \in Keys
      BY <3>1 DEF TypeOK
    <3> QED
      BY <2>1, <3>1, <3>2 DEF Same
  <2> QED
    BY <2>2, <2>3, <2>4 DEF Proposals
<1>4. Decisions(q)'
  <2> SUFFICES ASSUME NEW s \in Steps, decided'[<<q, s>>] = "accept"
               PROVE  \E c \in Calls : <<q, s, c>> \in proposed' /\ <<q, s, c>> \in accepted'
    BY DEF Decisions
  <2>1. PICK c \in Calls : <<q, s, c>> \in proposed /\ <<q, s, c>> \in accepted
    BY DEF RunInv, Decisions, Same
  <2>2. <<q, s, c>> \in Keys
    BY DEF Keys
  <2> QED
    BY <2>1, <2>2 DEF Same
<1> QED
  BY <1>1, <1>2, <1>3, <1>4 DEF RunInv

LEMMA RunStep ==
  ASSUME AgentInv, NEW r \in Runs, TypeOK', Once', AppliedWasAccepted', RunInv(r)',
         \A q \in Runs : q # r => Same(q)
  PROVE  AgentInv'
<1>1. \A q \in Runs : RunInv(q)'
  BY SameKeeps DEF AgentInv, TypeOK
<1> QED
  BY <1>1 DEF AgentInv

\* A step of the workflow of r that leaves proposals and decisions alone.
OwnStep(r) ==
  /\ Moves(r) /\ Budgeted(r)
  /\ state' \in [Runs -> States] /\ state' = [state EXCEPT ![r] = state'[r]]
  /\ linked' \in [Runs -> 0..MaxReservations] /\ linked' = [linked EXCEPT ![r] = linked'[r]]
  /\ recorded' \in [Runs -> 0..MaxSteps] /\ recorded' = [recorded EXCEPT ![r] = recorded'[r]]
  /\ turn' \in [Runs -> 0..MaxSteps] /\ turn' = [turn EXCEPT ![r] = turn'[r]]
  /\ step' \in [Runs -> 0..MaxSteps] /\ step' = [step EXCEPT ![r] = step'[r]]
  /\ todo' \in [Runs -> Calls] /\ todo' = [todo EXCEPT ![r] = todo'[r]]
  /\ revoked' = revoked /\ faults' \in 0..MaxFaults
  /\ UNCHANGED <<signalVars, proposed, decided, ghostVars>>

\* The run's rows and its loop stay as they are.
Stays(r) ==
  UNCHANGED <<runVars, signalVars, loopVars, revoked, ghostVars>>

LEMMA StaysOwnStep ==
  ASSUME TypeOK, NEW r \in Runs, Moves(r), Budgeted(r), Stays(r),
         faults' \in 0..MaxFaults
  PROVE  OwnStep(r)
BY DEF TypeOK, Stays, OwnStep, runVars, loopVars

LEMMA OwnStepInv ==
  ASSUME AgentInv, NEW r \in Runs, OwnStep(r),
         Reservations(r)', Loop(r)', Proposals(r)'
  PROVE  AgentInv'
<1>1. TypeOK'
  <2>1. at' \in [Runs -> Places] /\ tries' \in [Runs -> Nat]
    BY DEF AgentInv, TypeOK, OwnStep, Moves
  <2> QED
    BY <2>1 DEF AgentInv, TypeOK, OwnStep, Moves, Budgeted, signalVars, ghostVars
<1>2. Once' /\ AppliedWasAccepted'
  BY DEF AgentInv, Once, AppliedWasAccepted, OnlyProposal, OwnStep, Budgeted, ghostVars
<1>3. Decisions(r)'
  BY DEF AgentInv, RunInv, Decisions, OwnStep, ghostVars
<1>4. \A q \in Runs : q # r => Same(q)
  BY DEF AgentInv, TypeOK, OwnStep, Moves, Budgeted, Same, ghostVars
<1> QED
  BY <1>1, <1>2, <1>3, <1>4, RunStep DEF RunInv

\* Out of the loop, and at its first place, the invariant asks for little.
LEMMA Outside ==
  ASSUME AgentInv, NEW r \in Runs, OwnStep(r), Reservations(r)',
         at'[r] \notin InLoop \/ (at'[r] = "plan" /\ turn'[r] < MaxSteps),
         step' = step, recorded' = recorded
  PROVE  AgentInv'
<1>1. Loop(r)'
  BY DEF AgentInv, RunInv, Loop, OwnStep, Moves, InLoop, InStep, InReview
<1>2. Proposals(r)'
  BY DEF AgentInv, RunInv, Proposals, OwnStep, InLoop, InStep, InReview
<1> QED
  BY <1>1, <1>2, OwnStepInv

LEMMA Leaves ==
  ASSUME AgentInv, NEW r \in Runs, OwnStep(r), OwnedBy(r)' = OwnedBy(r),
         \/ at'[r] \in AtEnd \cup {"conclude"}
         \/ at'[r] = "plan" /\ turn'[r] < MaxSteps,
         step' = step, recorded' = recorded
  PROVE  AgentInv'
<1>1. Reservations(r)'
  BY DEF AgentInv, RunInv, Reservations, Before, AtEnd
<1>2. at'[r] \notin InLoop \/ (at'[r] = "plan" /\ turn'[r] < MaxSteps)
  BY DEF AtEnd, InLoop, InStep, InReview
<1> QED
  BY <1>1, <1>2, Outside

LEMMA FailsInv ==
  ASSUME AgentInv, NEW r \in Runs, NEW as \in States, Fails(r, as), Stays(r),
         Budgeted(r), OwnedBy(r)' = OwnedBy(r), faults' = faults
  PROVE  AgentInv'
<1>1. Moves(r) /\ at'[r] \in AtEnd
  BY FailsMoves DEF AgentInv
<1>2. OwnStep(r)
  BY <1>1, StaysOwnStep DEF AgentInv, TypeOK
<1> QED
  BY <1>1, <1>2, Leaves DEF Stays, runVars, loopVars

\* An attempt that is lost is made again from its beginning, or is the last.
LEMMA LostInv ==
  ASSUME AgentInv, NEW r \in Runs, Working(r), Lost(r), Stays(r),
         Budgeted(r), OwnedBy(r)' = OwnedBy(r)
  PROVE  AgentInv'
<1>1. /\ Moves(r) /\ faults' \in 0..MaxFaults
      /\ \/ at'[r] = Entry[at[r]] /\ tries'[r] = tries[r] - 1
         \/ at'[r] \in AtEnd
  BY LostMoves, AgentRunAssumption DEF AgentInv, RunInv, AgentRunAssumption, TypeOK
<1>2. OwnStep(r) /\ tries'[r] >= 1
  BY <1>1, StaysOwnStep DEF AgentInv, Moves
<1>3. CASE at'[r] \in AtEnd
  BY <1>2, <1>3, Leaves DEF Stays, runVars, loopVars
<1>4. CASE at'[r] = Entry[at[r]] /\ tries'[r] = tries[r] - 1
  <2> USE <1>4 DEF AgentInv, RunInv, Stays, runVars, loopVars, ghostVars, signalVars
  <2>1. /\ at[r] \in Before => at'[r] \in Before
        /\ at[r] \in {"reserve", "link"} => at'[r] = "reserve"
        /\ at[r] \in {"plan", "call", "charge"} => at'[r] = "plan"
        /\ at[r] \in {"dispatch", "tool", "record"} => at'[r] = "dispatch"
        /\ at[r] \in {"decide", "apply"} => at'[r] = "decide"
        /\ at[r] \in {"conclude", "finish", "settle"} => at'[r] = at[r]
    BY DEF TypeOK, Places, Entry, Before, Working
  <2>2. at[r] \in Places \ {"idle", "wait", "over"}
    BY DEF TypeOK, Working
  <2>3. Reservations(r)'
    <3>1. PICK n \in 0..MaxReservations :
            /\ OwnedBy(r) = {r} \X (1..n)
            /\ at[r] \in Before => n = 0
            /\ at[r] = "reserve" => n + tries[r] <= ActTries
            /\ at[r] = "link" => n + tries[r] <= ActTries + 1
      BY DEF Reservations
    <3>2. /\ at'[r] \in Before => n = 0
          /\ at'[r] = "reserve" => n + tries'[r] <= ActTries
          /\ at'[r] # "link"
      <4>1. tries[r] \in Nat /\ n \in Nat /\ ActTries \in Nat
        BY AgentRunAssumption, BudgetsAssumption
           DEF AgentRunAssumption, BudgetsAssumption, TypeOK
      <4>2. /\ at'[r] \in Before => at[r] \in Before
            /\ at'[r] = "reserve" => at[r] \in {"reserve", "link"}
            /\ at'[r] # "link"
        BY <2>1, <2>2 DEF Before, Places, Entry
      <4> QED
        BY <3>1, <4>1, <4>2
    <3> QED
      BY <3>1, <3>2 DEF Reservations
  <2>4. Loop(r)'
    <3>1. tries'[r] >= 1
      BY <1>2
    <3>2. /\ at'[r] \in InLoop => at[r] \in InLoop
          /\ at'[r] # "call"
          /\ at'[r] \in InLoop \ {"plan"} => at[r] \in InLoop \ {"plan"}
          /\ at'[r] \in InStep \cup InReview => at[r] \in InStep \cup InReview
      BY <2>1, <2>2 DEF InLoop, InStep, InReview, Before, Places, Entry
    <3> QED
      BY <3>1, <3>2 DEF Loop
  <2>5. Proposals(r)'
    BY <2>1, <2>2 DEF Proposals, InStep, InReview, Before, Places, Entry
  <2> QED
    BY <1>2, <2>3, <2>4, <2>5, OwnStepInv
<1> QED
  BY <1>1, <1>3, <1>4

\* The loop goes on with its next call or turn, where the run may go on.
LEMMA NextCallInv ==
  ASSUME AgentInv, NEW r \in Runs, at[r] \in InLoop \ {"plan", "call"}, NextCall(r),
         UNCHANGED <<budgetVars, runVars, signalVars, revoked, ghostVars>>,
         faults' = faults,
         state[r] = "running" =>
           \A c \in 0..(todo[r] - 1) : <<r, step[r], c>> \notin proposed
  PROVE  AgentInv'
<1>1. /\ Moves(r) /\ step' = step
      /\ turn' \in [Runs -> 0..MaxSteps] /\ turn' = [turn EXCEPT ![r] = turn'[r]]
      /\ todo' \in [Runs -> Calls] /\ todo' = [todo EXCEPT ![r] = todo'[r]]
      /\ \/ at'[r] = "dispatch" /\ turn'[r] = turn[r] /\ todo'[r] = todo[r] - 1
         \/ at'[r] = "plan" /\ turn'[r] < MaxSteps
         \/ at'[r] = "conclude"
  BY NextCallMoves DEF AgentInv, RunInv
<1>2. Budgeted(r) /\ OwnedBy(r)' = OwnedBy(r)
  BY BudgetIdle DEF AgentInv
<1>3. OwnStep(r)
  BY <1>1, <1>2 DEF AgentInv, TypeOK, OwnStep, runVars
<1> USE DEF AgentInv, RunInv, runVars, ghostVars
<1>4. Reservations(r)'
  BY <1>1, <1>2 DEF Reservations, Before
<1>5. Loop(r)'
  BY <1>1 DEF Loop, Moves, InLoop, InStep, InReview
<1>6. Proposals(r)'
  BY <1>1 DEF Proposals, InStep, InReview
<1> QED
  BY <1>3, <1>4, <1>5, <1>6, OwnStepInv

-----------------------------------------------------------------------------
(* The activities, one by one *)

LEMMA BeginInv ==
  ASSUME AgentInv, NEW r \in Runs, Begin(r)
  PROVE  AgentInv'
<1>1. Moves(r) /\ at'[r] = "resolve" /\ tries'[r] = ActTries
  BY EnterMoves DEF AgentInv, TypeOK, Begin, Then, Places, Entry
<1>2. Budgeted(r) /\ OwnedBy(r)' = OwnedBy(r)
  BY BudgetIdle DEF AgentInv, Begin
<1>3. OwnStep(r)
  BY <1>1, <1>2, StaysOwnStep DEF AgentInv, TypeOK, Begin, Stays
<1>4. Reservations(r)'
  BY <1>1, <1>2 DEF AgentInv, RunInv, Reservations, Begin, Before
<1> QED
  BY <1>1, <1>3, <1>4, Outside DEF Begin, runVars, loopVars, InLoop, InStep, InReview

LEMMA LoseAttemptInv ==
  ASSUME AgentInv, NEW r \in Runs, LoseAttempt(r)
  PROVE  AgentInv'
BY BudgetIdle, LostInv DEF AgentInv, LoseAttempt, Stays

LEMMA ResolveContextInv ==
  ASSUME AgentInv, NEW r \in Runs, ResolveContext(r)
  PROVE  AgentInv'
<1>1. /\ at[r] = "resolve" /\ Stays(r) /\ faults' = faults
      /\ Budgeted(r) /\ OwnedBy(r)' = OwnedBy(r)
  BY BudgetIdle DEF AgentInv, ResolveContext, Stays
<1>2. CASE \E as \in States : Fails(r, as)
  BY <1>1, <1>2, FailsInv
<1>3. CASE Stage(r, "start")
  <2>1. Moves(r) /\ at'[r] = "start"
    BY <1>3, StageMoves DEF AgentInv, RunInv, Places, Entry
  <2>2. OwnStep(r)
    BY <1>1, <2>1, StaysOwnStep DEF AgentInv, TypeOK
  <2>3. Reservations(r)'
    BY <1>1, <2>1 DEF AgentInv, RunInv, Reservations, Before
  <2> QED
    BY <1>1, <2>1, <2>2, <2>3, Outside
       DEF Stays, runVars, loopVars, InLoop, InStep, InReview
<1> QED
  BY <1>2, <1>3 DEF ResolveContext, States

\* Before the reservation, an activity is tried again with no row made.
LEMMA BeforeReservations ==
  ASSUME AgentInv, NEW r \in Runs, at[r] \in Before, Moves(r),
         OwnedBy(r)' = OwnedBy(r),
         at'[r] \in Before \cup AtEnd \/ (at'[r] = "reserve" /\ tries'[r] = ActTries)
  PROVE  Reservations(r)'
<1>1. 0 \in 0..MaxReservations /\ OwnedBy(r) = {r} \X (1..0)
  BY BudgetsAssumption DEF AgentInv, RunInv, Reservations, BudgetsAssumption
<1>2. ActTries \in Nat
  BY AgentRunAssumption DEF AgentRunAssumption
<1> QED
  BY <1>1, <1>2 DEF Reservations, Before, AtEnd

LEMMA StartRunInv ==
  ASSUME AgentInv, NEW r \in Runs, StartRun(r)
  PROVE  AgentInv'
<1>1. at[r] = "start" /\ Budgeted(r) /\ OwnedBy(r)' = OwnedBy(r)
  BY BudgetIdle DEF AgentInv, StartRun
<1>2. /\ Moves(r) /\ faults' \in 0..MaxFaults
      /\ at'[r] \in Before \cup AtEnd \/ (at'[r] = "reserve" /\ tries'[r] = ActTries)
  <2>1. CASE Then(r, "reserve") /\ faults' = faults
    BY <2>1, EnterMoves DEF AgentInv, TypeOK, Then, Places, Entry
  <2>2. CASE Lost(r)
    <3>1. Entry["start"] = "resolve"
      BY DEF Entry
    <3> QED
      BY <1>1, <2>2, <3>1, LostMoves, AgentRunAssumption
         DEF AgentInv, RunInv, Before, AgentRunAssumption, TypeOK
  <2> QED
    BY <2>1, <2>2 DEF StartRun, Answers
<1>3. state' \in [Runs -> States] /\ state' = [state EXCEPT ![r] = state'[r]]
  BY DEF AgentInv, TypeOK, StartRun, States
<1>4. OwnStep(r)
  BY <1>1, <1>2, <1>3 DEF AgentInv, TypeOK, StartRun, OwnStep, loopVars
<1>5. Reservations(r)'
  BY <1>1, <1>2, BeforeReservations DEF Before
<1>6. at'[r] \notin InLoop
  BY <1>2 DEF Before, AtEnd, InLoop, InStep, InReview
<1> QED
  BY <1>4, <1>5, <1>6, Outside DEF StartRun, loopVars

LEMMA ReserveBudgetInv ==
  ASSUME AgentInv, NEW r \in Runs, ReserveBudget(r)
  PROVE  AgentInv'
<1>1. at[r] = "reserve" /\ step' = step /\ recorded' = recorded /\ faults' = faults
  BY DEF ReserveBudget, runVars
<1>2. CASE \E as \in States : Fails(r, as) /\ UNCHANGED <<budgetVars, turn>>
  BY <1>2, BudgetIdle, FailsInv DEF AgentInv, ReserveBudget, Stays, loopVars
<1>3. CASE Turn(r, 0) /\ UNCHANGED budgetVars
  <2>1. /\ Moves(r) /\ turn' = [turn EXCEPT ![r] = 0] /\ 0 \in 0..MaxSteps
        /\ (at'[r] = "plan" /\ 0 < MaxSteps) \/ at'[r] = "conclude"
    BY <1>3, TurnMoves, BudgetsAssumption DEF AgentInv, BudgetsAssumption
  <2>2. turn' \in [Runs -> 0..MaxSteps] /\ turn'[r] = 0
    BY <2>1 DEF AgentInv, TypeOK
  <2>3. Budgeted(r) /\ OwnedBy(r)' = OwnedBy(r)
    BY <1>3, BudgetIdle DEF AgentInv
  <2>4. OwnStep(r)
    BY <1>1, <2>1, <2>2, <2>3 DEF AgentInv, TypeOK, ReserveBudget, OwnStep, runVars
  <2> QED
    BY <1>1, <2>1, <2>2, <2>3, <2>4, Leaves
<1>4. CASE ReserveSpend(r) /\ Stage(r, "link") /\ UNCHANGED turn
  <2>1. PICK n \in 0..MaxReservations :
          OwnedBy(r) = {r} \X (1..n) /\ n + tries[r] <= ActTries
    BY <1>1 DEF AgentInv, RunInv, Reservations
  <2>2. n \in Nat /\ n < MaxReservations /\ n + 1 \in 0..MaxReservations
    BY <2>1, AgentRunAssumption, BudgetsAssumption
       DEF AgentRunAssumption, BudgetsAssumption, AgentInv, RunInv, Loop, TypeOK
  <2>3. Budgeted(r) /\ OwnedBy(r)' = {r} \X (1..(n + 1))
    BY <1>4, <2>1, <2>2, ReserveBudgets DEF AgentInv
  <2>4. Moves(r) /\ at'[r] = "link" /\ tries'[r] = tries[r]
    BY <1>4, StageMoves DEF AgentInv, RunInv, Places, Entry
  <2>5. OwnStep(r)
    BY <1>1, <1>4, <2>3, <2>4
       DEF AgentInv, TypeOK, ReserveBudget, OwnStep, runVars
  <2>6. (n + 1) + tries'[r] <= ActTries + 1
    BY <2>1, <2>2, <2>4, AgentRunAssumption DEF AgentRunAssumption, AgentInv, TypeOK
  <2>7. Reservations(r)'
    BY <2>2, <2>3, <2>4, <2>6 DEF Reservations, Before
  <2> QED
    BY <1>1, <2>4, <2>5, <2>7, Outside DEF InLoop, InStep, InReview
<1> QED
  BY <1>2, <1>3, <1>4 DEF ReserveBudget, States

LEMMA LinkReservationInv ==
  ASSUME AgentInv, NEW r \in Runs, LinkReservation(r)
  PROVE  AgentInv'
<1>1. /\ at[r] = "link" /\ step' = step /\ recorded' = recorded
      /\ Budgeted(r) /\ OwnedBy(r)' = OwnedBy(r)
  BY BudgetIdle DEF AgentInv, LinkReservation
<1>2. PICK n \in 0..MaxReservations :
        OwnedBy(r) = {r} \X (1..n) /\ n + tries[r] <= ActTries + 1
  BY <1>1 DEF AgentInv, RunInv, Reservations
<1>3. n \in Nat /\ ActTries \in Nat /\ tries[r] \in Nat
  BY <1>2, AgentRunAssumption DEF AgentRunAssumption, AgentInv, TypeOK
<1>4. linked' \in [Runs -> 0..MaxReservations] /\ linked' = [linked EXCEPT ![r] = linked'[r]]
  <2>1. Cardinality(OwnedBy(r)) = n
    BY <1>2, <1>3, OwnedCount
  <2>2. linked' = [linked EXCEPT ![r] = n]
    BY <2>1 DEF LinkReservation
  <2> QED
    BY <1>2, <2>2 DEF AgentInv, TypeOK
<1>5. CASE Turn(r, 0) /\ faults' = faults
  <2>1. /\ Moves(r) /\ turn' = [turn EXCEPT ![r] = 0] /\ 0 \in 0..MaxSteps
        /\ (at'[r] = "plan" /\ 0 < MaxSteps) \/ at'[r] = "conclude"
    BY <1>5, TurnMoves, BudgetsAssumption DEF AgentInv, BudgetsAssumption
  <2>2. turn' \in [Runs -> 0..MaxSteps] /\ turn'[r] = 0
    BY <2>1 DEF AgentInv, TypeOK
  <2>3. OwnStep(r)
    BY <1>1, <1>4, <1>5, <2>1, <2>2 DEF AgentInv, TypeOK, LinkReservation, OwnStep
  <2> QED
    BY <1>1, <2>1, <2>2, <2>3, Leaves
<1>6. CASE Lost(r) /\ turn' = turn
  <2>1. Entry["link"] = "reserve"
    BY DEF Entry
  <2>2. /\ Moves(r) /\ faults' \in 0..MaxFaults
        /\ \/ at'[r] = "reserve" /\ tries'[r] = tries[r] - 1
           \/ at'[r] \in AtEnd
    BY <1>1, <1>6, <2>1, LostMoves, AgentRunAssumption
       DEF AgentInv, RunInv, AgentRunAssumption, TypeOK
  <2>3. OwnStep(r)
    BY <1>1, <1>4, <1>6, <2>2 DEF AgentInv, TypeOK, LinkReservation, OwnStep
  <2>4. Reservations(r)'
    BY <1>1, <1>2, <1>3, <2>2 DEF Reservations, Before, AtEnd
  <2>5. at'[r] \notin InLoop
    BY <2>2 DEF AtEnd, InLoop, InStep, InReview
  <2> QED
    BY <1>1, <2>3, <2>4, <2>5, Outside
<1> QED
  BY <1>5, <1>6 DEF LinkReservation

\* A step inside the loop keeps the reservations as they are.
LEMMA InLoopReservations ==
  ASSUME AgentInv, NEW r \in Runs, OwnedBy(r)' = OwnedBy(r),
         at'[r] \in InLoop
  PROVE  Reservations(r)'
BY DEF AgentInv, RunInv, Reservations, Before, InLoop, InStep, InReview

LEMMA PlanNextStepInv ==
  ASSUME AgentInv, NEW r \in Runs, PlanNextStep(r)
  PROVE  AgentInv'
<1>1. /\ at[r] = "plan" /\ Stays(r) /\ faults' = faults
      /\ Budgeted(r) /\ OwnedBy(r)' = OwnedBy(r)
  BY BudgetIdle DEF AgentInv, PlanNextStep, Stays
<1>2. CASE \E as \in States : Fails(r, as)
  BY <1>1, <1>2, FailsInv
<1>3. CASE LoopEnds(r)
  <2>1. Moves(r) /\ at'[r] = "conclude"
    BY <1>3, LoopEndsMoves DEF AgentInv
  <2> QED
    BY <1>1, <2>1, StaysOwnStep, Leaves DEF AgentInv, TypeOK, Stays, runVars, loopVars
<1>4. CASE Stage(r, "call") /\ ~(linked[r] = 0 \/ recorded[r] >= MaxSteps)
  <2>1. Moves(r) /\ at'[r] = "call"
    BY <1>4, StageMoves DEF AgentInv, RunInv, Places, Entry
  <2>2. OwnStep(r) /\ tries'[r] >= 1
    BY <1>1, <2>1, StaysOwnStep DEF AgentInv, TypeOK, Moves
  <2>3. Reservations(r)'
    BY <1>1, <2>1, InLoopReservations DEF InLoop
  <2>4. recorded[r] < MaxSteps
    BY <1>4, BudgetsAssumption DEF AgentInv, TypeOK, BudgetsAssumption
  <2>5. Loop(r)'
    BY <1>1, <1>4, <2>1, <2>2, <2>4
       DEF AgentInv, RunInv, Loop, Stays, runVars, loopVars, InLoop, InStep, InReview
  <2>6. Proposals(r)'
    BY <1>1, <2>1 DEF AgentInv, RunInv, Proposals, Stays, runVars, InStep, InReview
  <2> QED
    BY <2>2, <2>3, <2>5, <2>6, OwnStepInv
<1> QED
  BY <1>2, <1>3, <1>4 DEF PlanNextStep, States

LEMMA ModelAnswersInv ==
  ASSUME AgentInv, NEW r \in Runs, ModelAnswers(r)
  PROVE  AgentInv'
<1>1. at[r] = "call" /\ Budgeted(r) /\ OwnedBy(r)' = OwnedBy(r)
  BY BudgetIdle DEF AgentInv, ModelAnswers
<1>2. Moves(r) /\ at'[r] = "charge"
  BY StageMoves DEF AgentInv, RunInv, ModelAnswers, Places, Entry
<1>3. recorded[r] \in Nat /\ recorded[r] < MaxSteps /\ MaxSteps \in Nat
  BY <1>1, BudgetsAssumption DEF AgentInv, TypeOK, RunInv, Loop, BudgetsAssumption
<1>4. /\ recorded' \in [Runs -> 0..MaxSteps] /\ recorded' = [recorded EXCEPT ![r] = recorded'[r]]
      /\ step' \in [Runs -> 0..MaxSteps] /\ step' = [step EXCEPT ![r] = step'[r]]
      /\ recorded'[r] = recorded[r] + 1 /\ step'[r] = recorded[r] + 1
  BY <1>3 DEF AgentInv, TypeOK, ModelAnswers
<1>5. todo' \in [Runs -> Calls] /\ todo' = [todo EXCEPT ![r] = todo'[r]]
  BY DEF AgentInv, TypeOK, ModelAnswers
<1>6. OwnStep(r) /\ tries'[r] >= 1
  BY <1>1, <1>2, <1>4, <1>5 DEF AgentInv, TypeOK, ModelAnswers, OwnStep, Moves
<1>7. Reservations(r)'
  BY <1>1, <1>2, InLoopReservations DEF InLoop, InStep
<1>8. Loop(r)'
  BY <1>1, <1>2, <1>3, <1>4, <1>6
     DEF AgentInv, RunInv, Loop, ModelAnswers, InLoop, InStep, InReview
<1>9. Proposals(r)'
  <2>1. \A k \in proposed : k[1] = r => k[2] <= recorded[r] /\ k[2] \in Nat
    <3>1. \A k \in Keys : k[2] \in Nat
      BY DEF Keys, Steps
    <3>2. proposed \subseteq Keys
      BY DEF AgentInv, TypeOK
    <3>3. \A k \in proposed : k[1] = r => k[2] <= recorded[r]
      BY DEF AgentInv, RunInv, Proposals
    <3> QED
      BY <3>1, <3>2, <3>3
  <2>2. \A c : <<r, recorded[r] + 1, c>> \notin proposed
    BY <1>3, <2>1
  <2>3. \A k \in proposed : k[1] = r => k[2] <= recorded[r] + 1
    BY <1>3, <2>1
  <2> QED
    BY <1>2, <1>4, <2>2, <2>3 DEF Proposals, ModelAnswers, InStep, InReview
<1> QED
  BY <1>6, <1>7, <1>8, <1>9, OwnStepInv

\* From one place in a step to another, or in a review, with all it relies on.
LEMMA GoesOn ==
  ASSUME AgentInv, NEW r \in Runs, Moves(r), Stays(r), faults' = faults,
         Budgeted(r), OwnedBy(r)' = OwnedBy(r),
         \/ at[r] \in InStep /\ at'[r] \in InStep
         \/ at[r] \in InReview /\ at'[r] \in InReview
  PROVE  AgentInv'
<1>1. OwnStep(r) /\ tries'[r] >= 1
  BY StaysOwnStep DEF AgentInv, TypeOK, Moves
<1>2. Reservations(r)'
  BY InLoopReservations DEF InLoop
<1>3. Loop(r)'
  BY <1>1 DEF AgentInv, RunInv, Loop, Stays, runVars, loopVars, InLoop, InStep, InReview
<1>4. Proposals(r)'
  BY DEF AgentInv, RunInv, Proposals, Stays, runVars, loopVars, ghostVars,
         InStep, InReview
<1> QED
  BY <1>1, <1>2, <1>3, <1>4, OwnStepInv

\* In a step, the run has a reservation and a key for each of its calls.
LEMMA HasReservation ==
  ASSUME AgentInv, NEW r \in Runs, at[r] \in InStep
  PROVE  /\ <<r, linked[r]>> \in Ids
         /\ <<r, step[r], 0>> \in Keys /\ <<r, step[r], todo[r]>> \in Keys
<1>1. linked[r] \in 1..MaxReservations /\ step[r] \in Steps
  BY BudgetsAssumption
     DEF AgentInv, RunInv, Loop, TypeOK, Steps, InLoop, BudgetsAssumption, InStep
<1>2. todo[r] \in Calls /\ 0 \in Calls
  BY BudgetsAssumption DEF AgentInv, TypeOK, Calls, BudgetsAssumption
<1> QED
  BY <1>1, <1>2 DEF Ids, Keys

LEMMA BillStepInv ==
  ASSUME AgentInv, NEW r \in Runs, BillStep(r)
  PROVE  AgentInv'
<1>1. at[r] = "charge" /\ Stays(r)
  BY DEF BillStep, Stays
<1>2. Budgeted(r) /\ OwnedBy(r)' = OwnedBy(r)
  BY <1>1, HasReservation, ChargeBudget DEF AgentInv, BillStep, InStep
<1>3. CASE Fails(r, "budget_exhausted") /\ faults' = faults
  BY <1>1, <1>2, <1>3, FailsInv DEF States
<1>4. CASE LoopEnds(r) /\ faults' = faults
  <2>1. Moves(r) /\ at'[r] = "conclude"
    BY <1>4, LoopEndsMoves DEF AgentInv
  <2> QED
    BY <1>1, <1>2, <1>4, <2>1, StaysOwnStep, Leaves
       DEF AgentInv, TypeOK, Stays, runVars, loopVars
<1>5. CASE Then(r, "dispatch") /\ faults' = faults
  <2>1. Moves(r) /\ at'[r] = "dispatch"
    BY <1>5, EnterMoves DEF AgentInv, TypeOK, Then, Places, Entry
  <2> QED
    BY <1>1, <1>2, <1>5, <2>1, GoesOn DEF InStep
<1>6. CASE Lost(r)
  BY <1>1, <1>2, <1>6, LostInv DEF Working
<1> QED
  BY <1>3, <1>4, <1>5, <1>6 DEF BillStep

LEMMA DispatchToolInv ==
  ASSUME AgentInv, NEW r \in Runs, DispatchTool(r)
  PROVE  AgentInv'
<1>1. /\ at[r] = "dispatch" /\ faults' = faults
      /\ Budgeted(r) /\ OwnedBy(r)' = OwnedBy(r)
  BY BudgetIdle DEF AgentInv, DispatchTool
<1>2. CASE Fails(r, "policy_denied") /\ UNCHANGED loopVars
  BY <1>1, <1>2, FailsInv DEF DispatchTool, Stays, States
<1>3. CASE state[r] # "running" /\ NextCall(r)
  BY <1>1, <1>3, NextCallInv DEF DispatchTool, InLoop, InStep
<1>4. CASE Stage(r, "tool") /\ UNCHANGED loopVars
  <2>1. Moves(r) /\ at'[r] = "tool"
    BY <1>4, StageMoves DEF AgentInv, RunInv, Places, Entry
  <2> QED
    BY <1>1, <1>4, <2>1, GoesOn DEF DispatchTool, Stays, InStep
<1> QED
  BY <1>2, <1>3, <1>4 DEF DispatchTool

LEMMA RunToolInv ==
  ASSUME AgentInv, NEW r \in Runs, RunTool(r)
  PROVE  AgentInv'
<1>1. at[r] = "tool" /\ Stays(r) /\ faults' = faults
  BY DEF RunTool, Stays
<1>2. Budgeted(r) /\ OwnedBy(r)' = OwnedBy(r)
  <2>1. UNCHANGED budgetVars \/ Charge(<<r, linked[r]>>, <<r, step[r], todo[r]>>)
    BY DEF RunTool
  <2> QED
    BY <1>1, <2>1, HasReservation, BudgetIdle, ChargeBudget DEF AgentInv, InStep
<1>3. CASE Fails(r, "budget_exhausted")
  BY <1>1, <1>2, <1>3, FailsInv DEF States
<1>4. CASE Stage(r, "record")
  <2>1. Moves(r) /\ at'[r] = "record"
    BY <1>4, StageMoves DEF AgentInv, RunInv, Places, Entry
  <2> QED
    BY <1>1, <1>2, <2>1, GoesOn DEF InStep
<1> QED
  BY <1>3, <1>4 DEF RunTool

LEMMA RecordResultInv ==
  ASSUME AgentInv, NEW r \in Runs, RecordResult(r)
  PROVE  AgentInv'
<1>1. at[r] = "record" /\ Budgeted(r) /\ OwnedBy(r)' = OwnedBy(r)
  BY BudgetIdle DEF AgentInv, RecordResult
<1>2. CASE NextCall(r) /\ faults' = faults
  <2>1. state[r] = "running" => \A c \in 0..(todo[r] - 1) : <<r, step[r], c>> \notin proposed
    <3>1. todo[r] \in Nat
      BY DEF AgentInv, TypeOK, Calls
    <3>2. \A c \in 0..(todo[r] - 1) : c \in 0..todo[r]
      BY <3>1
    <3> QED
      BY <1>1, <3>2 DEF AgentInv, RunInv, Proposals, InStep
  <2> QED
    BY <1>1, <1>2, <2>1, NextCallInv DEF RecordResult, InLoop, InStep
<1>3. CASE Lost(r) /\ UNCHANGED loopVars
  BY <1>1, <1>3, LostInv DEF RecordResult, Stays, Working
<1> QED
  BY <1>2, <1>3 DEF RecordResult

LEMMA WaitEndsInv ==
  ASSUME AgentInv, NEW r \in Runs, WaitEnds(r) \/ WaitExpires(r)
  PROVE  AgentInv'
<1>1. /\ at[r] = "wait" /\ Stays(r) /\ faults' = faults
      /\ Budgeted(r) /\ OwnedBy(r)' = OwnedBy(r)
  BY BudgetIdle DEF AgentInv, WaitEnds, WaitExpires, Stays
<1>2. CASE \E g \in States : Enter(r, "finish") /\ goal' = [goal EXCEPT ![r] = g]
  <2>1. Moves(r) /\ at'[r] = "finish"
    BY <1>2, EnterMoves DEF AgentInv, TypeOK, Places, Entry
  <2> QED
    BY <1>1, <2>1, StaysOwnStep, Leaves
       DEF AgentInv, TypeOK, Stays, runVars, loopVars, AtEnd
<1>3. CASE Then(r, "decide")
  <2>1. Moves(r) /\ at'[r] = "decide"
    BY <1>3, EnterMoves DEF AgentInv, TypeOK, Then, Places, Entry
  <2> QED
    BY <1>1, <2>1, GoesOn DEF InReview
<1> QED
  BY <1>2, <1>3 DEF WaitEnds, WaitExpires, States

LEMMA LoadDecisionInv ==
  ASSUME AgentInv, NEW r \in Runs, LoadDecision(r)
  PROVE  AgentInv'
<1>1. /\ at[r] = "decide" /\ faults' = faults
      /\ Budgeted(r) /\ OwnedBy(r)' = OwnedBy(r)
  BY BudgetIdle DEF AgentInv, LoadDecision
<1>2. CASE (\E as \in States : Fails(r, as)) /\ UNCHANGED loopVars
  BY <1>1, <1>2, FailsInv DEF LoadDecision, Stays
<1>3. CASE state[r] \in Terminal /\ NextCall(r)
  BY <1>1, <1>3, NextCallInv DEF LoadDecision, InLoop, InReview, Terminal
<1>4. CASE Stage(r, "apply") /\ UNCHANGED loopVars
  <2>1. Moves(r) /\ at'[r] = "apply"
    BY <1>4, StageMoves DEF AgentInv, RunInv, Places, Entry
  <2> QED
    BY <1>1, <1>4, <2>1, GoesOn DEF LoadDecision, Stays, InReview
<1> QED
  BY <1>2, <1>3, <1>4 DEF LoadDecision, States

LEMMA RecordProposalInv ==
  ASSUME AgentInv, NEW r \in Runs, RecordProposal(r)
  PROVE  AgentInv'
<1> DEFINE p == <<r, step[r], todo[r]>>
<1>1. at[r] = "record" /\ Budgeted(r) /\ OwnedBy(r)' = OwnedBy(r)
  BY BudgetIdle DEF AgentInv, RecordProposal
<1>2. CASE state[r] # "running"
  <2>1. Fails(r, "failed") /\ Stays(r) /\ faults' = faults
    BY <1>2 DEF RecordProposal, Stays, runVars, ghostVars
  <2> QED
    BY <1>1, <2>1, FailsInv DEF States
<1>3. CASE state[r] = "running"
  <2>1. /\ state' = [state EXCEPT ![r] = "waiting_for_review"]
        /\ proposed' = proposed \cup {p}
        /\ Answers(r, "wait")
        /\ UNCHANGED <<budgetVars, linked, recorded, decided, signalVars, loopVars,
                       revoked, ghostVars>>
    BY <1>3 DEF RecordProposal
  <2>2. p \in Keys /\ step[r] <= recorded[r] /\ \A c \in 0..todo[r] : <<r, step[r], c>> \notin proposed
    BY <1>1, <1>3, HasReservation DEF AgentInv, RunInv, Loop, Proposals, InStep
  <2>3. todo[r] \in Nat /\ todo[r] \in 0..todo[r]
    BY DEF AgentInv, TypeOK, Calls
  <2>4. p \notin proposed /\ applied[p] = 0
    BY <2>2, <2>3 DEF AgentInv, Once, TypeOK
  <2>5. /\ Moves(r) /\ faults' \in 0..MaxFaults
        /\ at'[r] \in {"wait", "dispatch"} \cup AtEnd
    <3>1. CASE Then(r, "wait") /\ faults' = faults
      BY <3>1, EnterMoves DEF AgentInv, TypeOK, Then, Places, Entry
    <3>2. CASE Lost(r)
      <4>1. Entry["record"] = "dispatch"
        BY DEF Entry
      <4> QED
        BY <1>1, <3>2, <4>1, LostMoves, AgentRunAssumption
           DEF AgentInv, RunInv, AgentRunAssumption, TypeOK
    <3> QED
      BY <2>1, <3>1, <3>2 DEF Answers
  <2>6. TypeOK'
    <3>1. at' \in [Runs -> Places] /\ tries' \in [Runs -> Nat] /\ goal' \in [Runs -> States]
      BY <2>5 DEF AgentInv, TypeOK, Moves
    <3>2. state' \in [Runs -> States] /\ proposed' \subseteq Keys
      BY <2>1, <2>2 DEF AgentInv, TypeOK, States
    <3> QED
      BY <1>1, <2>1, <2>5, <3>1, <3>2
         DEF AgentInv, TypeOK, Budgeted, signalVars, loopVars, ghostVars
  <2>7. Once'
    BY <1>1, <2>1 DEF AgentInv, Once, Budgeted, ghostVars
  <2>8. AppliedWasAccepted'
    BY <2>1 DEF AgentInv, AppliedWasAccepted, OnlyProposal, ghostVars
  <2>9. Reservations(r)'
    BY <1>1, <2>5 DEF AgentInv, RunInv, Reservations, Before, AtEnd
  <2>10. Loop(r)'
    <3>1. tries'[r] >= 1
      BY <2>5 DEF Moves
    <3>2. turn[r] < MaxSteps /\ linked[r] # 0 /\ step[r] # 0 /\ at'[r] # "call"
      BY <1>1, <2>5 DEF AgentInv, RunInv, Loop, InLoop, InStep, AtEnd
    <3> QED
      BY <2>1, <2>2, <3>1, <3>2 DEF Loop, loopVars
  <2>11. Proposals(r)'
    <3>1. \A k \in proposed' : k[1] = r => k[2] <= recorded[r]
      BY <2>1, <2>2 DEF AgentInv, RunInv, Proposals
    <3>2. state'[r] = "waiting_for_review"
      BY <2>1 DEF AgentInv, TypeOK
    <3>3. \A c \in Calls : c < todo[r] => <<r, step[r], c>> \notin proposed'
      <4>1. \A c \in Calls : c < todo[r] => c \in 0..todo[r] /\ c # todo[r]
        BY <2>3, BudgetsAssumption DEF Calls, BudgetsAssumption
      <4> QED
        BY <2>1, <2>2, <4>1
    <3> QED
      BY <2>1, <2>4, <3>1, <3>2, <3>3 DEF Proposals, loopVars, ghostVars
  <2>12. Decisions(r)'
    BY <2>1 DEF AgentInv, RunInv, Decisions, ghostVars
  <2>13. \A q \in Runs : q # r => Same(q)
    BY <1>1, <2>1, <2>5
       DEF AgentInv, TypeOK, Moves, Budgeted, Same, loopVars, ghostVars
  <2> HIDE DEF p
  <2> QED
    BY <2>6, <2>7, <2>8, <2>9, <2>10, <2>11, <2>12, <2>13, RunStep DEF RunInv
<1> QED
  BY <1>2, <1>3

\* In a review the newest proposal of the step is the one the run waits for.
LEMMA NewestIsLast ==
  ASSUME NEW r, NEW s, NEW c \in Calls, <<r, s, c>> \in proposed,
         \A b \in Calls : b < c => <<r, s, b>> \notin proposed
  PROVE  Newest(r, s) = <<r, s, c>>
<1>1. Calls \subseteq Nat
  BY BudgetsAssumption DEF Calls, BudgetsAssumption
<1>2. \A b \in Calls : <<r, s, b>> \in proposed => c <= b
  BY <1>1
<1>3. \A d \in Calls : (<<r, s, d>> \in proposed /\ \A b \in Calls : <<r, s, b>> \in proposed => d <= b)
                         => d = c
  BY <1>1, <1>2
<1> QED
  BY <1>2, <1>3 DEF Newest

LEMMA ApplyDecisionInv ==
  ASSUME AgentInv, NEW r \in Runs, ApplyDecision(r)
  PROVE  AgentInv'
<1> DEFINE p == <<r, step[r], todo[r]>>
<1>1. at[r] = "apply" /\ Budgeted(r) /\ OwnedBy(r)' = OwnedBy(r)
  BY BudgetIdle DEF AgentInv, ApplyDecision
<1>2. CASE state[r] # "waiting_for_review"
  <2>1. Fails(r, "failed") /\ Stays(r) /\ faults' = faults
    BY <1>2 DEF ApplyDecision, Stays, runVars, ghostVars
  <2> QED
    BY <1>1, <2>1, FailsInv DEF States
<1>3. CASE state[r] = "waiting_for_review"
  <2>1. /\ p \in proposed /\ applied[p] = 0
        /\ \A c \in Calls : c < todo[r] => <<r, step[r], c>> \notin proposed
    BY <1>1, <1>3 DEF AgentInv, RunInv, Proposals, InReview
  <2>2. p \in Keys /\ step[r] \in Steps /\ todo[r] \in Calls /\ todo[r] \in Nat
    BY <2>1 DEF AgentInv, TypeOK, Keys, Calls
  <2>3. Newest(r, step[r]) = p
    BY <2>1, <2>2, NewestIsLast
  <2>4. /\ state' = [state EXCEPT ![r] = "running"]
        /\ \/ applied' = applied
           \/ decided[<<r, step[r]>>] = "accept" /\ applied' = [applied EXCEPT ![p] = @ + 1]
        /\ UNCHANGED <<budgetVars, linked, recorded, proposed, decided, signalVars,
                       revoked, accepted>>
    BY <1>3, <2>3 DEF ApplyDecision
  <2>5. /\ Moves(r) /\ faults' \in 0..MaxFaults /\ step' = step
        /\ turn' \in [Runs -> 0..MaxSteps] /\ turn' = [turn EXCEPT ![r] = turn'[r]]
        /\ todo' \in [Runs -> Calls] /\ todo' = [todo EXCEPT ![r] = todo'[r]]
        /\ \/ at'[r] = "dispatch" /\ turn'[r] = turn[r] /\ todo'[r] = todo[r] - 1
           \/ at'[r] = "plan" /\ turn'[r] < MaxSteps
           \/ at'[r] = "conclude"
           \/ at'[r] = "decide" /\ turn' = turn
           \/ at'[r] \in AtEnd
    <3>1. CASE NextCall(r) /\ faults' = faults
      BY <1>1, <3>1, NextCallMoves DEF AgentInv, RunInv, TypeOK, InLoop, InReview
    <3>2. CASE Lost(r) /\ UNCHANGED loopVars
      <4>1. Entry["apply"] = "decide"
        BY DEF Entry
      <4> QED
        BY <1>1, <3>2, <4>1, LostMoves, AgentRunAssumption
           DEF AgentInv, RunInv, AgentRunAssumption, TypeOK, loopVars
    <3> QED
      BY <1>3, <3>1, <3>2 DEF ApplyDecision
  <2> HIDE DEF p
  <2>6. TypeOK'
    <3>1. at' \in [Runs -> Places] /\ tries' \in [Runs -> Nat] /\ goal' \in [Runs -> States]
      BY <2>5 DEF AgentInv, TypeOK, Moves
    <3>2. state' \in [Runs -> States] /\ applied' \in [Keys -> Nat]
      BY <2>2, <2>4 DEF AgentInv, TypeOK, States
    <3> QED
      BY <1>1, <2>4, <2>5, <3>1, <3>2 DEF AgentInv, TypeOK, Budgeted, signalVars
  <2>7. Once'
    <3>1. \A k \in Keys : ledger'[k] <= 1
      BY <1>1 DEF Budgeted
    <3>2. \A k \in Keys : applied'[k] = applied[k] \/ (k = p /\ applied'[k] = 1)
      BY <2>1, <2>2, <2>4 DEF AgentInv, TypeOK
    <3>3. \A k \in Keys : applied[k] <= 1 /\ (applied[k] > 0 => k \in proposed)
      BY DEF AgentInv, Once
    <3>4. \A k \in Keys : applied'[k] <= 1 /\ (applied'[k] > 0 => k \in proposed')
      BY <2>1, <2>4, <3>2, <3>3
    <3> QED
      BY <3>1, <3>4 DEF Once
  <2>8. decided[<<r, step[r]>>] = "accept" /\ OnlyProposal(p) => p \in accepted
    BY <2>2 DEF AgentInv, RunInv, Decisions, OnlyProposal, p
  <2>9. AppliedWasAccepted'
    BY <2>2, <2>4, <2>8 DEF AgentInv, TypeOK, AppliedWasAccepted, OnlyProposal
  <2>10. Reservations(r)'
    BY <1>1, <2>5 DEF AgentInv, RunInv, Reservations, Before, AtEnd
  <2>11. Loop(r)'
    BY <1>1, <2>4, <2>5
       DEF AgentInv, RunInv, Loop, Moves, InLoop, InStep, InReview, AtEnd
  <2>12. Proposals(r)'
    <3>1. state'[r] = "running"
      BY <2>4 DEF AgentInv, TypeOK
    <3>2. at'[r] \in InStep => \A c \in 0..todo'[r] : <<r, step[r], c>> \notin proposed
      <4>1. \A c \in 0..(todo[r] - 1) : c \in Calls /\ c < todo[r]
        BY <2>2, BudgetsAssumption DEF Calls, BudgetsAssumption
      <4> QED
        BY <2>1, <2>5, <4>1 DEF InStep, AtEnd
    <3> QED
      BY <2>4, <2>5, <3>1, <3>2 DEF AgentInv, RunInv, Proposals
  <2>13. Decisions(r)'
    BY <2>4 DEF AgentInv, RunInv, Decisions
  <2>14. \A q \in Runs : q # r => Same(q)
    <3>1. \A k \in Keys : k[1] # r => applied'[k] = applied[k]
      BY <2>2, <2>4 DEF AgentInv, TypeOK, p
    <3> QED
      BY <1>1, <2>4, <2>5, <3>1 DEF AgentInv, TypeOK, Moves, Budgeted, Same
  <2> QED
    BY <2>6, <2>7, <2>9, <2>10, <2>11, <2>12, <2>13, <2>14, RunStep DEF RunInv
<1> QED
  BY <1>2, <1>3

LEMMA FinishRunInv ==
  ASSUME AgentInv, NEW r \in Runs, FinishRun(r)
  PROVE  AgentInv'
<1>1. /\ at[r] \in {"conclude", "finish"}
      /\ Budgeted(r) /\ OwnedBy(r)' = OwnedBy(r)
  BY BudgetIdle DEF AgentInv, FinishRun
<1>2. CASE \E as \in States : Fails(r, as) /\ UNCHANGED <<state, faults>>
  BY <1>1, <1>2, FailsInv DEF FinishRun, Stays, runVars
<1>3. CASE /\ state' = [state EXCEPT ![r] = IF @ \in Terminal THEN @ ELSE goal[r]]
           /\ Answers(r, "settle")
  <2>1. /\ Moves(r) /\ faults' \in 0..MaxFaults
        /\ at'[r] \in AtEnd \cup {"conclude"}
    <3>1. CASE Then(r, "settle") /\ faults' = faults
      BY <3>1, EnterMoves DEF AgentInv, TypeOK, Then, Places, Entry, AtEnd
    <3>2. CASE Lost(r)
      <4>1. Entry["conclude"] = "conclude" /\ Entry["finish"] = "finish"
        BY DEF Entry
      <4> QED
        BY <1>1, <3>2, <4>1, LostMoves, AgentRunAssumption
           DEF AgentInv, RunInv, AgentRunAssumption, TypeOK, AtEnd
    <3> QED
      BY <1>3, <3>1, <3>2 DEF Answers
  <2>2. state' \in [Runs -> States] /\ state' = [state EXCEPT ![r] = state'[r]]
    BY <1>3 DEF AgentInv, TypeOK
  <2>3. OwnStep(r)
    BY <1>1, <2>1, <2>2 DEF AgentInv, TypeOK, FinishRun, OwnStep, loopVars
  <2> QED
    BY <1>1, <2>1, <2>3, Leaves DEF FinishRun, loopVars
<1> QED
  BY <1>2, <1>3 DEF FinishRun, States

LEMMA SettleBudgetInv ==
  ASSUME AgentInv, NEW r \in Runs, SettleBudget(r)
  PROVE  AgentInv'
<1>1. at[r] = "settle" /\ Stays(r)
  BY DEF SettleBudget, Stays
<1>2. Budgeted(r) /\ OwnedBy(r)' = OwnedBy(r)
  BY BudgetIdle, CloseBudget DEF AgentInv, SettleBudget
<1>3. CASE Fails(r, "policy_denied") /\ faults' = faults
  BY <1>1, <1>2, <1>3, FailsInv DEF States
<1>4. CASE Then(r, "over") /\ faults' = faults
  <2>1. Moves(r) /\ at'[r] = "over"
    BY <1>4, EnterMoves DEF AgentInv, TypeOK, Then, Places, Entry
  <2> QED
    BY <1>1, <1>2, <1>4, <2>1, StaysOwnStep, Leaves
       DEF AgentInv, TypeOK, Stays, runVars, loopVars, AtEnd
<1>5. CASE Lost(r)
  BY <1>1, <1>2, <1>5, LostInv DEF Working
<1> QED
  BY <1>3, <1>4, <1>5 DEF SettleBudget, Answers

-----------------------------------------------------------------------------
(* People and relays *)

\* A cancel takes the run where it is; its workflow does not move.
LEMMA CancelInv ==
  ASSUME AgentInv, NEW r \in Runs, Cancel(r)
  PROVE  AgentInv'
<1>1. Budgeted(r) /\ OwnedBy(r)' = OwnedBy(r)
  BY CloseBudget DEF AgentInv, Cancel
<1>2. Moves(r) /\ at'[r] = at[r] /\ tries'[r] = tries[r]
  BY DEF AgentInv, RunInv, Loop, TypeOK, Cancel, flowVars, Moves
<1>3. /\ state' \in [Runs -> States] /\ state' = [state EXCEPT ![r] = state'[r]]
      /\ state'[r] = "cancelled"
  BY DEF AgentInv, TypeOK, Cancel, States
<1>4. OwnStep(r)
  BY <1>1, <1>2, <1>3 DEF AgentInv, TypeOK, Cancel, OwnStep, loopVars
<1> USE DEF AgentInv, RunInv, Cancel, loopVars
<1>5. Reservations(r)'
  BY <1>1, <1>2 DEF Reservations
<1>6. Loop(r)'
  BY <1>2 DEF Loop
<1>7. Proposals(r)'
  BY <1>3 DEF Proposals
<1> QED
  BY <1>4, <1>5, <1>6, <1>7, OwnStepInv

\* The newest proposal of a step that has one is one of its proposals.
LEMMA NewestProposed ==
  ASSUME NEW r \in Runs, NEW s \in Steps, \E c \in Calls : <<r, s, c>> \in proposed
  PROVE  \E c \in Calls : Newest(r, s) = <<r, s, c>> /\ <<r, s, c>> \in proposed
<1> DEFINE T == {c \in Calls : <<r, s, c>> \in proposed}
<1>1. T # {} /\ T \subseteq Nat
  BY BudgetsAssumption DEF Calls, BudgetsAssumption
<1>2. PICK c \in T : \A b \in T : <<b, c>> \notin OpToRel(<, Nat)
  BY <1>1, NatLessThanWellFounded, WFMin, Zenon
<1>3. \A b \in T : ~(b < c)
  BY <1>1, <1>2 DEF OpToRel
<1>4. Newest(r, s) = <<r, s, c>>
  BY <1>3, NewestIsLast
<1> QED
  BY <1>4

LEMMA ApproveProposalInv ==
  ASSUME AgentInv, NEW r \in Runs, NEW s \in Steps, ApproveProposal(r, s)
  PROVE  AgentInv'
<1>1. PICK d \in {"accept", "reject", "modify"} :
        /\ decided' = [decided EXCEPT ![<<r, s>>] = d]
        /\ accepted' = IF d = "accept" THEN accepted \cup {Newest(r, s)}
                         ELSE accepted
  BY DEF ApproveProposal
<1>2. UNCHANGED <<budgetVars, state, linked, recorded, proposed, signalVars,
                  flowVars, loopVars, revoked, faults, applied>>
  BY DEF ApproveProposal
<1>3. PICK c \in Calls : Newest(r, s) = <<r, s, c>> /\ <<r, s, c>> \in proposed
  BY NewestProposed DEF ApproveProposal
<1>4. \A q \in Runs : OwnedBy(q)' = OwnedBy(q)
  BY <1>2 DEF OwnedBy, budgetVars
<1> USE <1>2 DEF AgentInv, signalVars, flowVars, loopVars
<1>5. TypeOK'
  <2>1. decided' \in [Runs \X Steps -> {"none", "accept", "reject", "modify"}]
    BY <1>1 DEF TypeOK
  <2>2. accepted' \subseteq Keys
    BY <1>1, <1>3 DEF TypeOK
  <2>3. BudgetsTypeOK'
    BY DEF TypeOK, BudgetsTypeOK, budgetVars
  <2> QED
    BY <2>1, <2>2, <2>3 DEF TypeOK
<1>6. Once'
  BY DEF Once, budgetVars
<1>7. AppliedWasAccepted'
  BY <1>1 DEF AppliedWasAccepted, OnlyProposal
<1>8. RunInv(r)'
  <2>1. Reservations(r)'
    BY <1>4 DEF RunInv, Reservations
  <2>2. Loop(r)'
    BY DEF RunInv, Loop
  <2>3. Proposals(r)'
    BY DEF RunInv, Proposals
  <2>4. Decisions(r)'
    <3> SUFFICES ASSUME NEW t \in Steps, decided'[<<r, t>>] = "accept"
                 PROVE  \E b \in Calls : <<r, t, b>> \in proposed' /\ <<r, t, b>> \in accepted'
      BY DEF Decisions
    <3>1. CASE t = s
      <4>1. d = "accept"
        BY <1>1, <3>1 DEF TypeOK
      <4> QED
        BY <1>1, <1>3, <3>1, <4>1
    <3>2. CASE t # s
      <4>1. decided[<<r, t>>] = "accept"
        BY <1>1, <3>2 DEF TypeOK
      <4> QED
        BY <1>1, <4>1 DEF RunInv, Decisions
    <3> QED
      BY <3>1, <3>2
  <2> QED
    BY <2>1, <2>2, <2>3, <2>4 DEF RunInv
<1>9. \A q \in Runs : q # r => Same(q)
  BY <1>1, <1>4 DEF TypeOK, Same
<1> QED
  BY <1>5, <1>6, <1>7, <1>8, <1>9, RunStep

\* A signal, a revocation and a step that changes nothing.
LEMMA SignalInv ==
  ASSUME AgentInv,
         UNCHANGED <<budgetVars, runVars, flowVars, loopVars, faults, ghostVars>>,
         cancelSeen' \in [Runs -> BOOLEAN], heard' \subseteq Runs \X Steps,
         revoked' \in BOOLEAN
  PROVE  AgentInv'
<1> USE DEF AgentInv, runVars, flowVars, loopVars, ghostVars
<1>1. TypeOK'
  BY DEF TypeOK, BudgetsTypeOK, budgetVars
<1>2. Once' /\ AppliedWasAccepted'
  BY DEF Once, AppliedWasAccepted, OnlyProposal, budgetVars
<1>3. \A q \in Runs : Same(q)
  BY DEF Same, OwnedBy, budgetVars
<1>4. \A q \in Runs : RunInv(q)'
  BY <1>3, SameKeeps DEF TypeOK
<1> QED
  BY <1>1, <1>2, <1>4

-----------------------------------------------------------------------------
(* The invariant *)

LEMMA AgentInit == Init => AgentInv
<1> SUFFICES ASSUME Init PROVE AgentInv
  OBVIOUS
<1> USE AgentRunAssumption, BudgetsAssumption
    DEF Init, BudgetsInit, AgentRunAssumption, BudgetsAssumption
<1>1. BudgetsTypeOK
  BY DEF BudgetsTypeOK
<1>2. "idle" \in Places /\ "planned" \in States /\ "completed" \in States
  BY DEF Places, Entry, States
<1>3. TypeOK
  <2>1. /\ at \in [Runs -> Places] /\ state \in [Runs -> States] /\ goal \in [Runs -> States]
        /\ decided \in [Runs \X Steps -> {"none", "accept", "reject", "modify"}]
    BY <1>2
  <2>2. todo \in [Runs -> Calls] /\ applied \in [Keys -> Nat]
    BY DEF Calls
  <2>3. /\ linked \in [Runs -> 0..MaxReservations] /\ recorded \in [Runs -> 0..MaxSteps]
        /\ turn \in [Runs -> 0..MaxSteps] /\ step \in [Runs -> 0..MaxSteps]
        /\ tries \in [Runs -> Nat] /\ cancelSeen \in [Runs -> BOOLEAN]
    OBVIOUS
  <2>4. /\ proposed \subseteq Keys /\ heard \subseteq Runs \X Steps
        /\ faults \in 0..MaxFaults /\ accepted \subseteq Keys
    OBVIOUS
  <2>5. revoked \in BOOLEAN
    BY Zenon
  <2> HIDE DEF Init, BudgetsInit
  <2> QED
    BY <1>1, <2>1, <2>2, <2>3, <2>4, <2>5 DEF TypeOK
<1>4. Once /\ AppliedWasAccepted
  BY DEF Once, AppliedWasAccepted
<1>5. ASSUME NEW r \in Runs PROVE RunInv(r)
  <2>1. OwnedBy(r) = {r} \X (1..0)
    BY DEF OwnedBy
  <2>2. Reservations(r)
    BY <2>1 DEF Reservations
  <2>3. Loop(r) /\ Proposals(r) /\ Decisions(r)
    BY DEF Loop, Proposals, Decisions, InLoop, InStep, InReview
  <2> QED
    BY <2>2, <2>3 DEF RunInv
<1> QED
  BY <1>3, <1>4, <1>5 DEF AgentInv

LEMMA AgentNext == AgentInv /\ [Next]_vars => AgentInv'
<1> SUFFICES ASSUME AgentInv, [Next]_vars PROVE AgentInv'
  OBVIOUS
<1>1. ASSUME NEW r \in Runs, Workflow(r) PROVE AgentInv'
  BY <1>1, BeginInv, ResolveContextInv, StartRunInv, ReserveBudgetInv,
     LinkReservationInv, PlanNextStepInv, ModelAnswersInv, BillStepInv,
     DispatchToolInv, RunToolInv, RecordResultInv, RecordProposalInv, WaitEndsInv,
     LoadDecisionInv, ApplyDecisionInv, FinishRunInv, SettleBudgetInv
     DEF Workflow
<1>2. ASSUME NEW r \in Runs, LoseAttempt(r) PROVE AgentInv'
  BY <1>2, LoseAttemptInv
<1>3. ASSUME NEW r \in Runs, Cancel(r) PROVE AgentInv'
  BY <1>3, CancelInv
<1>4. ASSUME NEW r \in Runs, RelayCancel(r) PROVE AgentInv'
  BY <1>4, SignalInv DEF AgentInv, TypeOK, RelayCancel
<1>5. ASSUME NEW r \in Runs, NEW s \in Steps, ApproveProposal(r, s) PROVE AgentInv'
  BY <1>5, ApproveProposalInv
<1>6. ASSUME NEW r \in Runs, NEW s \in Steps, RelayDecision(r, s) PROVE AgentInv'
  BY <1>6, SignalInv DEF AgentInv, TypeOK, RelayDecision
<1>7. CASE Revoke
  BY <1>7, SignalInv DEF AgentInv, TypeOK, Revoke, signalVars
<1>8. CASE UNCHANGED vars
  BY <1>8, SignalInv DEF AgentInv, TypeOK, vars, signalVars
<1> QED
  BY <1>1, <1>2, <1>3, <1>4, <1>5, <1>6, <1>7, <1>8 DEF Next

LEMMA AgentInvariant == Spec => []AgentInv
<1> QED
  BY AgentInit, AgentNext, PTL DEF Spec

\* Type correctness.
THEOREM AgentTypeCorrect == Spec => []TypeOK
<1>1. AgentInv => TypeOK
  BY DEF AgentInv
<1> QED
  BY <1>1, AgentInvariant, PTL

\* A model call or a tool call is charged once: Charge looks for its key.
THEOREM ChargesOnce == Spec => []ChargedOnce
<1>1. AgentInv => ChargedOnce
  BY DEF AgentInv, Once, ChargedOnce
<1> QED
  BY <1>1, AgentInvariant, PTL

\* An accepted proposal is applied once: applying it un-parks the run in the
\* same transaction, and only a parked run applies.
THEOREM AppliesOnce == Spec => []AppliedOnce
<1>1. AgentInv => AppliedOnce
  BY DEF AgentInv, Once, AppliedOnce
<1> QED
  BY <1>1, AgentInvariant, PTL

\* A step's only proposal is applied after a person accepted it.
THEOREM AppliesWhatWasAccepted == Spec => []AppliedWasAccepted
<1>1. AgentInv => AppliedWasAccepted
  BY DEF AgentInv
<1> QED
  BY <1>1, AgentInvariant, PTL

-----------------------------------------------------------------------------
(* Ended runs *)

\* What EndedIsFinal asks of one step.
KeepsEnded ==
  \A r \in Runs :
    state[r] \in Terminal =>
      /\ state'[r] = state[r]
      /\ \A k \in {r} \X Steps \X Calls :
           applied'[k] = applied[k] /\ (k \in proposed' => k \in proposed)

LEMMA IdleKeepsEnded ==
  ASSUME state' = state, proposed' = proposed, applied' = applied
  PROVE  KeepsEnded
BY DEF KeepsEnded

LEMMA NextKeepsEnded == AgentInv /\ [Next]_vars => KeepsEnded
<1> SUFFICES ASSUME AgentInv, [Next]_vars PROVE KeepsEnded
  OBVIOUS
<1> USE DEF AgentInv, TypeOK
<1>1. ASSUME NEW r \in Runs, StartRun(r) PROVE KeepsEnded
  BY <1>1 DEF StartRun, ghostVars, KeepsEnded, Terminal
<1>2. ASSUME NEW r \in Runs, RecordProposal(r) PROVE KeepsEnded
  <2>1. CASE UNCHANGED <<state, proposed>>
    BY <1>2, <2>1, IdleKeepsEnded DEF RecordProposal, ghostVars
  <2>2. CASE /\ state[r] = "running"
             /\ state' = [state EXCEPT ![r] = "waiting_for_review"]
             /\ proposed' = proposed \cup {<<r, step[r], todo[r]>>}
    <3>1. applied' = applied
      BY <1>2 DEF RecordProposal, ghostVars
    <3>2. \A q \in Runs : state[q] \in Terminal => q # r /\ state'[q] = state[q]
      BY <2>2 DEF Terminal
    <3> QED
      BY <2>2, <3>1, <3>2 DEF KeepsEnded
  <2> QED
    BY <1>2, <2>1, <2>2 DEF RecordProposal
<1>3. ASSUME NEW r \in Runs, ApplyDecision(r) PROVE KeepsEnded
  <2>1. CASE UNCHANGED <<state, applied>>
    BY <1>3, <2>1, IdleKeepsEnded DEF ApplyDecision
  <2>2. CASE /\ state[r] = "waiting_for_review"
             /\ state' = [state EXCEPT ![r] = "running"]
             /\ \/ applied' = applied
                \/ applied' = [applied EXCEPT ![Newest(r, step[r])] = @ + 1]
    <3>1. proposed' = proposed
      BY <1>3 DEF ApplyDecision
    <3>2. \A q \in Runs : state[q] \in Terminal => q # r /\ state'[q] = state[q]
      BY <2>2 DEF Terminal
    <3>3. \A q \in Runs : q # r =>
            \A k \in {q} \X Steps \X Calls : k \in Keys /\ k # Newest(r, step[r])
      BY DEF Newest, Keys
    <3>4. \A q \in Runs : q # r =>
            \A k \in {q} \X Steps \X Calls : applied'[k] = applied[k]
      BY <2>2, <3>3
    <3> QED
      BY <3>1, <3>2, <3>4 DEF KeepsEnded
  <2> QED
    BY <1>3, <2>1, <2>2 DEF ApplyDecision
<1>4. ASSUME NEW r \in Runs, FinishRun(r) PROVE KeepsEnded
  <2>1. proposed' = proposed /\ applied' = applied
    BY <1>4 DEF FinishRun, ghostVars
  <2>2. \/ state' = state
        \/ state' = [state EXCEPT ![r] = IF @ \in Terminal THEN @ ELSE goal[r]]
    BY <1>4 DEF FinishRun
  <2> QED
    BY <2>1, <2>2 DEF KeepsEnded
<1>5. ASSUME NEW r \in Runs, Cancel(r) PROVE KeepsEnded
  BY <1>5 DEF Cancel, ghostVars, KeepsEnded
<1>6. ASSUME NEW r \in Runs, Workflow(r) PROVE KeepsEnded
  BY <1>1, <1>2, <1>3, <1>4, <1>6, IdleKeepsEnded
     DEF Workflow, Begin, ResolveContext, ReserveBudget, LinkReservation, PlanNextStep,
         ModelAnswers, BillStep, DispatchTool, RunTool, RecordResult, WaitEnds,
         WaitExpires, LoadDecision, SettleBudget, runVars, ghostVars
<1>7. ASSUME NEW r \in Runs, LoseAttempt(r) \/ RelayCancel(r) PROVE KeepsEnded
  BY <1>7, IdleKeepsEnded DEF LoseAttempt, RelayCancel, runVars, ghostVars
<1>8. ASSUME NEW r \in Runs, NEW s \in Steps, ApproveProposal(r, s) \/ RelayDecision(r, s)
      PROVE  KeepsEnded
  BY <1>8, IdleKeepsEnded DEF ApproveProposal, RelayDecision, runVars, ghostVars
<1>9. CASE Revoke
  BY <1>9, IdleKeepsEnded DEF Revoke, runVars, ghostVars
<1>10. CASE UNCHANGED vars
  BY <1>10, IdleKeepsEnded DEF vars, runVars, ghostVars
<1> QED
  BY <1>5, <1>6, <1>7, <1>8, <1>9, <1>10 DEF Next

\* A run that has ended stays as it is, and nothing is proposed or applied for
\* it any more: every transaction of an activity reads the state it changes.
THEOREM EndedStaysEnded == Spec => EndedIsFinal
<1>1. AgentInv /\ [Next]_vars => KeepsEnded
  BY NextKeepsEnded
<1>2. AgentInv /\ [Next]_vars => [KeepsEnded]_vars
  BY <1>1
<1>3. Spec => [][KeepsEnded]_vars
  BY <1>2, AgentInvariant, PTL DEF Spec
<1> QED
  BY <1>3 DEF EndedIsFinal, KeepsEnded

-----------------------------------------------------------------------------
(* The reservation of a workflow that is over *)

\* A row that is not held is not held again.
StayClosed(q) ==
  /\ OwnedBy(q)' = OwnedBy(q)
  /\ \A i \in OwnedBy(q) : held'[i] = "held" => held[i] = "held"

LEMMA IdleStayClosed ==
  ASSUME held' = held, NEW q
  PROVE  StayClosed(q)
BY DEF StayClosed, OwnedBy

LEMMA ChargeStayClosed ==
  ASSUME NEW i, NEW k, Charge(i, k), NEW q
  PROVE  StayClosed(q)
BY IdleStayClosed DEF Charge, Book, budgetVars

LEMMA CloseStayClosed ==
  ASSUME TypeOK, NEW r \in Runs, NEW as \in {"settled", "released"}, CloseOne(r, as),
         NEW q
  PROVE  StayClosed(q)
<1>1. CASE held' = held
  BY <1>1, IdleStayClosed
<1>2. CASE held' # held
  <2>1. PICK i \in OwnedBy(r) : held[i] = "held" /\ held' = [held EXCEPT ![i] = as]
    BY <1>2 DEF CloseOne, budgetVars
  <2>2. \A j \in Ids : (held'[j] # "none" <=> held[j] # "none")
                         /\ (held'[j] = "held" => held[j] = "held")
    BY <2>1 DEF TypeOK, BudgetsTypeOK, OwnedBy
  <2> QED
    BY <2>2 DEF StayClosed, OwnedBy
<1> QED
  BY <1>1, <1>2

LEMMA ReserveStayClosed ==
  ASSUME TypeOK, NEW r \in Runs, ReserveSpend(r), NEW q \in Runs, q # r
  PROVE  StayClosed(q)
<1>1. held' = [held EXCEPT ![Fresh(r)] = "held"] /\ Fresh(r)[1] = r
  BY DEF ReserveSpend, Fresh
<1>2. \A j \in Ids : j[1] = q => held'[j] = held[j]
  BY <1>1 DEF TypeOK, BudgetsTypeOK
<1> QED
  BY <1>2 DEF StayClosed, OwnedBy

\* What keeps a run's tries ahead of the losses, whatever step it takes.
Ahead(r) ==
  \/ at'[r] \in {"plan", "call", "charge"}
  \/ at'[r] # "over" /\ tries'[r] = ActTries
  \/ /\ at[r] \notin {"plan", "call", "charge", "over"} /\ at'[r] # "over"
     /\ \/ tries'[r] = tries[r] /\ faults' = faults
        \/ tries'[r] = tries[r] - 1 /\ faults' = faults - 1
  \/ revoked'
  \/ ~(MaxFaults < ActTries)

LEMMA AheadSettled ==
  ASSUME AgentInv, NEW r \in Runs, Settled(r), Ahead(r), Moves(r), revoked' = revoked,
         faults' \in 0..MaxFaults
  PROVE  Settled(r)'
<1>1. /\ tries[r] \in Nat /\ tries'[r] \in Nat /\ ActTries \in Nat
      /\ MaxFaults \in Nat /\ faults \in Nat /\ faults' \in Nat /\ faults' <= MaxFaults
  BY AgentRunAssumption DEF AgentInv, TypeOK, AgentRunAssumption, Moves
<1> QED
  BY <1>1 DEF Settled, Ahead

LEMMA FailsAhead ==
  ASSUME AgentInv, NEW r \in Runs, \E as \in States : Fails(r, as),
         at[r] # "settle" \/ revoked'
  PROVE  Moves(r) /\ Ahead(r)
BY FailsMoves DEF AgentInv, Ahead

LEMMA LostAhead ==
  ASSUME AgentInv, NEW r \in Runs, Settled(r), Working(r), Lost(r), revoked' = revoked
  PROVE  Moves(r) /\ Ahead(r)
<1>1. /\ Moves(r) /\ faults \in 1..MaxFaults /\ faults' = faults - 1
      /\ \/ at'[r] = Entry[at[r]] /\ tries'[r] = tries[r] - 1
         \/ /\ tries[r] = 1
            /\ at'[r] \in AtEnd /\ tries'[r] = ActTries
            /\ at'[r] = "over" => at[r] = "settle"
  BY LostMoves DEF AgentInv, RunInv
<1>2. /\ at[r] \in {"plan", "call", "charge"} => Entry[at[r]] = "plan"
      /\ Entry[at[r]] # "over" /\ at[r] # "over"
  BY DEF AgentInv, TypeOK, Places, Entry, Working
<1>3. ActTries \in Nat /\ MaxFaults \in Nat
  BY AgentRunAssumption DEF AgentRunAssumption
<1>4. ~revoked /\ MaxFaults < ActTries /\ at[r] = "settle" => tries[r] # 1
  BY <1>1, <1>3 DEF Settled
<1> QED
  BY <1>1, <1>2, <1>4 DEF Ahead

LEMMA ThenAhead ==
  ASSUME AgentInv, NEW r \in Runs, NEW w \in Places \ {"over"}, Then(r, w)
  PROVE  Moves(r) /\ Ahead(r)
BY EnterMoves DEF AgentInv, TypeOK, Then, Ahead

LEMMA TurnAhead ==
  ASSUME AgentInv, NEW r \in Runs, NEW n \in 0..MaxSteps, Turn(r, n)
  PROVE  Moves(r) /\ Ahead(r)
BY TurnMoves DEF AgentInv, Ahead

LEMMA NextCallAhead ==
  ASSUME AgentInv, NEW r \in Runs, at[r] \in InLoop, NextCall(r)
  PROVE  Moves(r) /\ Ahead(r)
BY NextCallMoves DEF AgentInv, RunInv, Ahead

LEMMA LoopEndsAhead ==
  ASSUME AgentInv, NEW r \in Runs, LoopEnds(r)
  PROVE  Moves(r) /\ Ahead(r)
BY LoopEndsMoves DEF AgentInv, Ahead

LEMMA StageAhead ==
  ASSUME AgentInv, NEW r \in Runs, NEW w \in Places \ {"over"}, Stage(r, w),
         at[r] \notin {"plan", "call", "charge", "over"} \/ w \in {"call", "charge"},
         faults' = faults
  PROVE  Moves(r) /\ Ahead(r)
BY StageMoves DEF AgentInv, RunInv, Ahead

LEMMA WorkflowCloses ==
  ASSUME AgentInv, NEW r \in Runs, Workflow(r)
  PROVE  /\ revoked' = revoked /\ faults' \in 0..faults
         /\ \A q \in Runs : q # r => StayClosed(q)
<1>1. revoked' = revoked
  BY DEF Workflow, Begin, ResolveContext, StartRun, ReserveBudget, LinkReservation,
         PlanNextStep, ModelAnswers, BillStep, DispatchTool, RunTool, RecordResult,
         RecordProposal, WaitEnds, WaitExpires, LoadDecision, ApplyDecision, FinishRun,
         SettleBudget
<1>2. faults' \in 0..faults
  <2>1. faults' = faults \/ (faults > 0 /\ faults' = faults - 1)
    BY DEF Workflow, Begin, ResolveContext, StartRun, ReserveBudget, LinkReservation,
           PlanNextStep, ModelAnswers, BillStep, DispatchTool, RunTool, RecordResult,
           RecordProposal, WaitEnds, WaitExpires, LoadDecision, ApplyDecision,
           FinishRun, SettleBudget, Answers, Lost
  <2> QED
    BY <2>1, AgentRunAssumption DEF AgentInv, TypeOK, AgentRunAssumption
<1>3. \/ held' = held
      \/ \E i, k : Charge(i, k)
      \/ ReserveSpend(r)
      \/ CloseOne(r, "settled")
  BY DEF Workflow, Begin, ResolveContext, StartRun, ReserveBudget, LinkReservation,
         PlanNextStep, ModelAnswers, BillStep, DispatchTool, RunTool, RecordResult,
         RecordProposal, WaitEnds, WaitExpires, LoadDecision, ApplyDecision, FinishRun,
         SettleBudget, budgetVars
<1> QED
  BY <1>1, <1>2, <1>3, IdleStayClosed, ChargeStayClosed, CloseStayClosed,
     ReserveStayClosed DEF AgentInv

\* The workflow is over once the settlement closed the run's only reservation.
LEMMA SettlesOnly ==
  ASSUME AgentInv, NEW r \in Runs, CloseOne(r, "settled"), at'[r] = "over"
  PROVE  Settled(r)'
<1>1. PICK n \in 0..MaxReservations : OwnedBy(r) = {r} \X (1..n)
  BY DEF AgentInv, RunInv, Reservations
<1>2. n \in Nat /\ Cardinality(OwnedBy(r)) = n
  BY <1>1, OwnedCount
<1>3. StayClosed(r)
  BY CloseStayClosed DEF AgentInv
<1>4. ASSUME Cardinality(OwnedBy(r)) <= 1, NEW i \in OwnedBy(r)
      PROVE  held'[i] # "held"
  <2>1. PICK j \in OwnedBy(r) :
          IF held[j] = "held" THEN held' = [held EXCEPT ![j] = "settled"]
                              ELSE held' = held
    BY DEF CloseOne, budgetVars
  <2>2. i = <<r, 1>> /\ j = <<r, 1>>
    <3>1. \A m \in 1..n : m = 1
      BY <1>2, <1>4
    <3> QED
      BY <1>1, <3>1
  <2> QED
    BY <2>1, <2>2 DEF AgentInv, TypeOK, BudgetsTypeOK, OwnedBy
<1> QED
  BY <1>3, <1>4 DEF Settled, StayClosed

LEMMA WorkflowSettles ==
  ASSUME AgentInv, NEW r \in Runs, Settled(r), Workflow(r)
  PROVE  /\ \A q \in Runs : q # r => at'[q] = at[q] /\ tries'[q] = tries[q]
         /\ Settled(r)'
<1>1. revoked' = revoked /\ faults' \in 0..MaxFaults
  BY WorkflowCloses, AgentRunAssumption DEF AgentInv, TypeOK, AgentRunAssumption
<1>2. ASSUME Moves(r), Ahead(r) \/ Settled(r)' PROVE
             /\ \A q \in Runs : q # r => at'[q] = at[q] /\ tries'[q] = tries[q]
             /\ Settled(r)'
  BY <1>1, <1>2, AheadSettled DEF AgentInv, TypeOK, Moves
<1>3. ASSUME at[r] \notin {"idle", "wait", "over"}, Lost(r) PROVE Moves(r) /\ Ahead(r)
  BY <1>1, <1>3, LostAhead DEF Working
<1>4. /\ {"resolve", "start", "reserve", "link", "plan", "call", "charge", "dispatch",
          "tool", "record", "wait", "decide", "apply", "finish", "settle"}
            \subseteq Places \ {"over"}
      /\ {"failed", "policy_denied", "budget_exhausted"} \subseteq States
      /\ 0 \in 0..MaxSteps
  BY BudgetsAssumption DEF BudgetsAssumption, Places, Entry, States
<1>5. CASE Begin(r)
  BY <1>2, <1>4, <1>5, ThenAhead DEF Begin
<1>6. CASE ResolveContext(r)
  BY <1>2, <1>4, <1>6, FailsAhead, StageAhead DEF ResolveContext
<1>7. CASE StartRun(r)
  BY <1>2, <1>3, <1>4, <1>7, ThenAhead DEF StartRun, Answers
<1>8. CASE ReserveBudget(r)
  BY <1>2, <1>4, <1>8, FailsAhead, StageAhead, TurnAhead DEF ReserveBudget
<1>9. CASE LinkReservation(r)
  BY <1>2, <1>3, <1>4, <1>9, TurnAhead DEF LinkReservation
<1>10. CASE PlanNextStep(r)
  BY <1>2, <1>4, <1>10, FailsAhead, StageAhead, LoopEndsAhead DEF PlanNextStep
<1>11. CASE ModelAnswers(r)
  BY <1>2, <1>4, <1>11, StageAhead DEF ModelAnswers
<1>12. CASE BillStep(r)
  BY <1>2, <1>3, <1>4, <1>12, FailsAhead, LoopEndsAhead, ThenAhead DEF BillStep
<1>13. CASE DispatchTool(r)
  BY <1>2, <1>4, <1>13, FailsAhead, StageAhead, NextCallAhead
     DEF DispatchTool, InLoop, InStep
<1>14. CASE RunTool(r)
  BY <1>2, <1>4, <1>14, FailsAhead, StageAhead DEF RunTool
<1>15. CASE RecordResult(r)
  BY <1>2, <1>3, <1>4, <1>15, NextCallAhead DEF RecordResult, InLoop, InStep
<1>16. CASE RecordProposal(r)
  BY <1>2, <1>3, <1>4, <1>16, FailsAhead, ThenAhead DEF RecordProposal, Answers
<1>17. CASE WaitEnds(r) \/ WaitExpires(r)
  <2>1. CASE \E g \in States : Enter(r, "finish") /\ goal' = [goal EXCEPT ![r] = g]
    <3>1. Moves(r) /\ at'[r] = "finish" /\ tries'[r] = ActTries
      BY <1>4, <2>1, EnterMoves DEF AgentInv, TypeOK
    <3> QED
      BY <1>2, <3>1 DEF Ahead
  <2> QED
    BY <1>2, <1>4, <1>17, <2>1, ThenAhead DEF WaitEnds, WaitExpires, States
<1>18. CASE LoadDecision(r)
  BY <1>2, <1>4, <1>18, FailsAhead, StageAhead, NextCallAhead
     DEF LoadDecision, InLoop, InReview
<1>19. CASE ApplyDecision(r)
  BY <1>2, <1>3, <1>4, <1>19, FailsAhead, NextCallAhead
     DEF ApplyDecision, InLoop, InReview
<1>20. CASE FinishRun(r)
  BY <1>2, <1>3, <1>4, <1>20, FailsAhead, ThenAhead DEF FinishRun, Answers
<1>21. CASE SettleBudget(r)
  <2>1. CASE revoked /\ Fails(r, "policy_denied")
    BY <1>1, <1>2, <1>4, <2>1, FailsAhead
  <2>2. CASE CloseOne(r, "settled") /\ Then(r, "over")
    <3>1. Moves(r) /\ at'[r] = "over"
      BY <2>2, EnterMoves DEF AgentInv, TypeOK, Then, Places, Entry
    <3> QED
      BY <1>2, <2>2, <3>1, SettlesOnly
  <2>3. CASE at[r] = "settle" /\ Lost(r)
    BY <1>2, <1>3, <2>3
  <2> QED
    BY <1>21, <2>1, <2>2, <2>3 DEF SettleBudget, Answers
<1> QED
  BY <1>5, <1>6, <1>7, <1>8, <1>9, <1>10, <1>11, <1>12, <1>13, <1>14, <1>15, <1>16,
     <1>17, <1>18, <1>19, <1>20, <1>21 DEF Workflow

\* A step that leaves r's place, tries and rows alone keeps what was settled.
LEMMA IdleSettled ==
  ASSUME AgentInv, NEW r \in Runs, Settled(r), at'[r] = at[r], tries'[r] = tries[r],
         revoked => revoked', faults' \in 0..faults, StayClosed(r)
  PROVE  Settled(r)'
<1>1. /\ tries[r] \in Nat /\ ActTries \in Nat /\ MaxFaults \in Nat
      /\ faults \in Nat /\ faults' \in Nat /\ faults' <= faults
  BY AgentRunAssumption DEF AgentInv, TypeOK, AgentRunAssumption
<1> QED
  BY <1>1 DEF Settled, StayClosed

LEMMA NextSettled ==
  AgentInv /\ (\A r \in Runs : Settled(r)) /\ [Next]_vars => \A r \in Runs : Settled(r)'
<1> SUFFICES ASSUME AgentInv, \A r \in Runs : Settled(r), [Next]_vars
             PROVE  \A r \in Runs : Settled(r)'
  OBVIOUS
<1>1. ASSUME NEW r \in Runs, Workflow(r) PROVE \A q \in Runs : Settled(q)'
  BY <1>1, WorkflowCloses, WorkflowSettles, IdleSettled
<1>2. ASSUME NEW r \in Runs, LoseAttempt(r) PROVE \A q \in Runs : Settled(q)'
  <2>1. Moves(r) /\ Ahead(r) /\ revoked' = revoked /\ held' = held
    BY <1>2, LostAhead DEF LoseAttempt, budgetVars
  <2>2. faults' \in 0..MaxFaults /\ faults' \in 0..faults
    BY <1>2, LostMoves, AgentRunAssumption
       DEF LoseAttempt, AgentInv, RunInv, AgentRunAssumption
  <2>3. Settled(r)'
    BY <2>1, <2>2, AheadSettled
  <2>4. \A q \in Runs : q # r => at'[q] = at[q] /\ tries'[q] = tries[q]
    BY <2>1 DEF AgentInv, TypeOK, Moves
  <2> QED
    BY <2>1, <2>2, <2>3, <2>4, IdleStayClosed, IdleSettled
<1>3. CASE /\ UNCHANGED flowVars /\ faults' = faults /\ (revoked => revoked')
           /\ \/ held' = held
              \/ \E r \in Runs : CloseOne(r, "released")
  <2>1. faults' \in 0..faults /\ \A q \in Runs : at'[q] = at[q] /\ tries'[q] = tries[q]
    BY <1>3, AgentRunAssumption DEF AgentInv, TypeOK, AgentRunAssumption, flowVars
  <2>2. \A q \in Runs : StayClosed(q)
    BY <1>3, IdleStayClosed, CloseStayClosed DEF AgentInv
  <2> QED
    BY <1>3, <2>1, <2>2, IdleSettled
<1>4. ASSUME NEW r \in Runs, NEW s \in Steps,
             \/ Cancel(r) \/ RelayCancel(r) \/ ApproveProposal(r, s)
             \/ RelayDecision(r, s) \/ Revoke \/ UNCHANGED vars
      PROVE  \A q \in Runs : Settled(q)'
  BY <1>3, <1>4 DEF Cancel, RelayCancel, ApproveProposal, RelayDecision, Revoke,
     budgetVars, vars
<1>5. 1 \in Steps
  BY BudgetsAssumption DEF Steps, BudgetsAssumption
<1> QED
  BY <1>1, <1>2, <1>4, <1>5 DEF Next

LEMMA InitSettled == Init => \A r \in Runs : Settled(r)
BY AgentRunAssumption DEF AgentRunAssumption, Init, Settled

\* A workflow that is over has closed the one reservation of its run, while the
\* principal stands and fewer attempts are lost than an activity has.
THEOREM EndsWithNothingHeld == Spec => []NothingHeldAtEnd
<1> DEFINE AllSettled == \A r \in Runs : Settled(r)
<1>1. Init => AllSettled
  BY InitSettled
<1>2. AgentInv /\ AllSettled /\ [Next]_vars => AllSettled'
  BY NextSettled
<1>3. AllSettled => NothingHeldAtEnd
  BY DEF Settled, NothingHeldAtEnd
<1> HIDE DEF AllSettled
<1> QED
  BY <1>1, <1>2, <1>3, AgentInvariant, PTL DEF Spec

=============================================================================
