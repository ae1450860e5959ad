--------------------------- MODULE OperationsProofs ---------------------------
(***************************************************************************)
(* Theorems about the components of modules/operations: Outbox, for any    *)
(* number of events, workers and faults, Idempotency, for any number of    *)
(* requests, deaths, TTLs that run out and lost acknowledgements, and      *)
(* OutboxTenants, for any number of workers, tenants and events and any    *)
(* size of a batch.  The three have no variable in common.                 *)
(***************************************************************************)
EXTENDS Outbox, Idempotency, OutboxTenants, FiniteSetTheorems, TLAPS

-----------------------------------------------------------------------------
(* Outbox *)

\* No pass has begun and no row is claimed.
LEMMA InductiveInit == Init => Inductive
BY OutboxAssumption
   DEF Init, Inductive, TypeOK, HoldsTodo, CurrentIsTodo, MarksStarted,
       DispatchedWasStarted, OutboxAssumption

\* Whichever way a pass leaves its row, the pass stays well typed.
LEMMA NextRowType ==
  ASSUME TypeOK, NEW w \in Workers, NextRow(w)
  PROVE  /\ todo' \in [Workers -> SUBSET Events]
         /\ current' \in [Workers -> Events \cup {None}]
         /\ pc' \in [Workers -> {"idle", "claim", "list", "work", "mark", "fail"}]
         /\ picked' \in [Workers -> SUBSET Events]
BY DEF TypeOK, NextRow, Goes

\* Every step keeps rows, workflows, passes and budgets well typed.
LEMMA TypeStep ==
  ASSUME Inductive, [Next]_vars
  PROVE  TypeOK'
<1> USE OutboxAssumption DEF OutboxAssumption, rowVars, passVars, limitVars, Goes
<1>0. TypeOK /\ CurrentIsTodo
  BY DEF Inductive
<1>c. \A w \in Workers : pc[w] \in {"mark", "fail"} => current[w] \in Events
  BY <1>0 DEF TypeOK, CurrentIsTodo
<1>1. CASE UNCHANGED vars
  BY <1>0, <1>1 DEF vars, TypeOK
<1>2. ASSUME NEW w \in Workers, Pick(w) PROVE TypeOK'
  BY <1>0, <1>2 DEF Pick, TypeOK
<1>3. ASSUME NEW w \in Workers, Claim(w) PROVE TypeOK'
  BY <1>0, <1>3 DEF Claim, TypeOK
<1>4. ASSUME NEW w \in Workers, List(w) PROVE TypeOK'
  BY <1>0, <1>4 DEF List, Held, TypeOK
<1>5. ASSUME NEW w \in Workers, Start(w) PROVE TypeOK'
  <2>1. faults' \in 0..MaxFaults
    BY <1>0, <1>5 DEF Start, TypeOK
  <2>2. /\ pc' \in [Workers -> {"idle", "claim", "list", "work", "mark", "fail"}]
        /\ current' \in [Workers -> Events \cup {None}]
        /\ flow' \in [Events -> {"none", "running", "completed", "failed"}]
    BY <1>0, <1>5 DEF Start, TypeOK
  <2> QED
    BY <1>0, <1>5, <2>1, <2>2 DEF Start, TypeOK
<1>6. ASSUME NEW w \in Workers, MarkRow(w) PROVE TypeOK'
  <2>a. faults' \in 0..MaxFaults
    BY <1>0, <1>6 DEF MarkRow, TypeOK
  <2>b. dispatched' \in [Events -> BOOLEAN]
    BY <1>0, <1>6 DEF MarkRow, TypeOK
  <2>1. CASE NextRow(w)
    <3>1. /\ todo' \in [Workers -> SUBSET Events]
          /\ current' \in [Workers -> Events \cup {None}]
          /\ pc' \in [Workers -> {"idle", "claim", "list", "work", "mark", "fail"}]
          /\ picked' \in [Workers -> SUBSET Events]
      BY <1>0, <2>1, NextRowType
    <3> QED
      BY <1>0, <1>6, <2>a, <2>b, <3>1 DEF MarkRow, TypeOK
  <2>2. CASE ~NextRow(w)
    BY <1>0, <1>6, <2>2 DEF MarkRow, TypeOK
  <2> QED
    BY <2>1, <2>2
<1>7. ASSUME NEW w \in Workers, FailRow(w) PROVE TypeOK'
  <2>1. /\ attempts' \in [Events -> 0..DeadLetter]
        /\ claimedBy' \in [Events -> Workers \cup {None}]
        /\ live' \in [Events -> BOOLEAN]
        /\ due' \in [Events -> BOOLEAN]
    <3>1. CASE UNCHANGED <<attempts, claimedBy, live, due>>
      BY <1>0, <3>1 DEF TypeOK
    <3>2. CASE ~UNCHANGED <<attempts, claimedBy, live, due>>
      <4>1. current[w] \in Events
        BY <1>c, <1>7 DEF FailRow
      <4>2. attempts[current[w]] \in 0..DeadLetter
        BY <1>0, <4>1 DEF TypeOK
      <4> DEFINE n == IF attempts[current[w]] < DeadLetter
                        THEN attempts[current[w]] + 1 ELSE attempts[current[w]]
      <4>3. n \in 0..DeadLetter
        BY <4>2
      <4>4. attempts' = [attempts EXCEPT ![current[w]] = n]
        BY <1>7, <3>2 DEF FailRow
      <4>5. attempts' \in [Events -> 0..DeadLetter]
        BY <1>0, <4>3, <4>4 DEF TypeOK
      <4>6. /\ claimedBy' = [claimedBy EXCEPT ![current[w]] = None]
            /\ live' = [live EXCEPT ![current[w]] = FALSE]
            /\ due' = [due EXCEPT ![current[w]] = FALSE]
        BY <1>7, <3>2 DEF FailRow
      <4> QED
        BY <1>0, <4>5, <4>6 DEF TypeOK
    <3> QED
      BY <3>1, <3>2
  <2>2. CASE NextRow(w)
    BY <1>0, <1>7, <2>1, <2>2, NextRowType DEF FailRow, TypeOK
  <2>3. CASE ~NextRow(w)
    BY <1>0, <1>7, <2>1, <2>3 DEF FailRow, TypeOK
  <2> QED
    BY <2>2, <2>3
<1>8. ASSUME NEW w \in Workers, Crash(w) PROVE TypeOK'
  BY <1>0, <1>8 DEF Crash, TypeOK
<1>9. ASSUME NEW e \in Events, LeaseExpires(e) PROVE TypeOK'
  BY <1>0, <1>9 DEF LeaseExpires, TypeOK
<1>10. ASSUME NEW e \in Events, BecomesDue(e) PROVE TypeOK'
  BY <1>0, <1>10 DEF BecomesDue, TypeOK
<1>11. ASSUME NEW e \in Events, FlowEnds(e) PROVE TypeOK'
  BY <1>0, <1>11 DEF FlowEnds, TypeOK
<1>12. ASSUME NEW e \in Events, ReplayDeadLetter(e) PROVE TypeOK'
  BY <1>0, <1>12 DEF ReplayDeadLetter, TypeOK
<1> QED
  BY <1>1, <1>2, <1>3, <1>4, <1>5, <1>6, <1>7, <1>8, <1>9, <1>10, <1>11, <1>12
     DEF Next, DispatchBatch

\* A row is being worked on only inside the loop, and only while it is to do.
LEMMA CurrentStep ==
  ASSUME Inductive, [Next]_vars
  PROVE  CurrentIsTodo'
<1> USE DEF rowVars, passVars, limitVars, Goes
<1>0. TypeOK /\ CurrentIsTodo
  BY DEF Inductive
<1>1. CASE UNCHANGED <<pc, todo, current>>
  BY <1>0, <1>1 DEF CurrentIsTodo
<1>2. ASSUME NEW w \in Workers, Pick(w) PROVE CurrentIsTodo'
  BY <1>0, <1>2 DEF Pick, TypeOK, CurrentIsTodo
<1>3. ASSUME NEW w \in Workers, Claim(w) PROVE CurrentIsTodo'
  BY <1>0, <1>3 DEF Claim, TypeOK, CurrentIsTodo
<1>4. ASSUME NEW w \in Workers, List(w) PROVE CurrentIsTodo'
  BY <1>0, <1>4 DEF List, TypeOK, CurrentIsTodo
<1>5. ASSUME NEW w \in Workers, Start(w) PROVE CurrentIsTodo'
  BY <1>0, <1>5 DEF Start, TypeOK, CurrentIsTodo
<1>n. ASSUME NEW w \in Workers, NextRow(w) PROVE CurrentIsTodo'
  BY <1>0, <1>n DEF NextRow, TypeOK, CurrentIsTodo
<1>6. ASSUME NEW w \in Workers, MarkRow(w) PROVE CurrentIsTodo'
  BY <1>0, <1>6, <1>n DEF MarkRow, TypeOK, CurrentIsTodo
<1>7. ASSUME NEW w \in Workers, FailRow(w) PROVE CurrentIsTodo'
  BY <1>0, <1>7, <1>n DEF FailRow, TypeOK, CurrentIsTodo
<1>8. ASSUME NEW w \in Workers, Crash(w) PROVE CurrentIsTodo'
  BY <1>0, <1>8 DEF Crash, TypeOK, CurrentIsTodo
<1>9. ASSUME NEW e \in Events,
             LeaseExpires(e) \/ BecomesDue(e) \/ FlowEnds(e) \/ ReplayDeadLetter(e)
      PROVE  CurrentIsTodo'
  BY <1>1, <1>9 DEF LeaseExpires, BecomesDue, FlowEnds, ReplayDeadLetter
<1> QED
  BY <1>1, <1>2, <1>3, <1>4, <1>5, <1>6, <1>7, <1>8, <1>9
     DEF Next, DispatchBatch, vars

\* What a pass has before it, it holds: a claim takes no live row of another
\* pass, a failure releases only the row the pass is done with, and a lease that
\* runs out under a pass, or a replay, is on the budget.
LEMMA HoldsStep ==
  ASSUME Inductive, [Next]_vars
  PROVE  HoldsTodo'
<1> SUFFICES ASSUME slow' = MaxSlow, replays' = MaxReplays,
                    NEW v \in Workers, NEW e \in Events, e \in todo'[v]
             PROVE  claimedBy'[e] = v /\ live'[e]
  BY DEF HoldsTodo
<1> USE OutboxAssumption DEF OutboxAssumption, rowVars, passVars, limitVars, Goes
<1>0. TypeOK /\ CurrentIsTodo /\ HoldsTodo
  BY DEF Inductive
<1>b. slow = MaxSlow /\ replays = MaxReplays
  <2>1. \A f \in Events :
          LeaseExpires(f) => slow' = slow \/ (slow > 0 /\ slow' = slow - 1)
    BY DEF LeaseExpires
  <2>2. \A f \in Events : ReplayDeadLetter(f) => replays > 0 /\ replays' = replays - 1
    BY DEF ReplayDeadLetter
  <2>3. slow' = slow \/ (slow > 0 /\ slow' = slow - 1)
    BY <2>1 DEF Next, DispatchBatch, vars, Pick, Claim, List, Start, MarkRow, FailRow,
                Crash, BecomesDue, FlowEnds, ReplayDeadLetter
  <2>4. replays' = replays \/ (replays > 0 /\ replays' = replays - 1)
    BY <2>2 DEF Next, DispatchBatch, vars, Pick, Claim, List, Start, MarkRow, FailRow,
                Crash, BecomesDue, FlowEnds, LeaseExpires
  <2>5. slow \in 0..MaxSlow /\ replays \in 0..MaxReplays
    BY <1>0 DEF TypeOK
  <2> QED
    BY <2>3, <2>4, <2>5
<1>h. \A u \in Workers : e \in todo[u] => claimedBy[e] = u /\ live[e]
  BY <1>0, <1>b DEF HoldsTodo
<1>1. CASE UNCHANGED <<claimedBy, live, todo>>
  BY <1>1, <1>h
<1>2. ASSUME NEW w \in Workers, Pick(w) PROVE claimedBy'[e] = v /\ live'[e]
  BY <1>1, <1>2 DEF Pick
<1>3. ASSUME NEW w \in Workers, Claim(w) PROVE claimedBy'[e] = v /\ live'[e]
  <2>1. e \in todo[v]
    BY <1>3 DEF Claim
  <2>2. ~Ready(e)
    BY <1>0, <1>h, <2>1 DEF Ready, TypeOK
  <2> QED
    BY <1>0, <1>3, <1>h, <2>1, <2>2 DEF Claim, TypeOK
<1>4. ASSUME NEW w \in Workers, List(w) PROVE claimedBy'[e] = v /\ live'[e]
  BY <1>0, <1>4, <1>h DEF List, Held, TypeOK
<1>5. ASSUME NEW w \in Workers, Start(w) PROVE claimedBy'[e] = v /\ live'[e]
  BY <1>1, <1>5 DEF Start
<1>6. ASSUME NEW w \in Workers, MarkRow(w) PROVE claimedBy'[e] = v /\ live'[e]
  BY <1>0, <1>6, <1>h DEF MarkRow, NextRow, TypeOK
<1>7. ASSUME NEW w \in Workers, FailRow(w) PROVE claimedBy'[e] = v /\ live'[e]
  <2>1. e \in todo[v]
    BY <1>0, <1>7 DEF FailRow, NextRow, TypeOK
  <2>2. CASE UNCHANGED <<claimedBy, live>>
    BY <1>h, <2>1, <2>2
  <2>3. CASE ~UNCHANGED <<claimedBy, live>>
    <3>1. FailsRow(w) /\ NextRow(w)
      BY <1>7, <2>3 DEF FailRow
    <3>2. e # current[w]
      <4>1. CASE v = w
        BY <1>0, <3>1, <4>1 DEF NextRow, TypeOK
      <4>2. CASE v # w
        BY <1>h, <2>1, <3>1, <4>2 DEF FailsRow
      <4> QED
        BY <4>1, <4>2
    <3> QED
      BY <1>0, <1>7, <1>h, <2>1, <3>2 DEF FailRow, TypeOK
  <2> QED
    BY <2>2, <2>3
<1>8. ASSUME NEW w \in Workers, Crash(w) PROVE claimedBy'[e] = v /\ live'[e]
  BY <1>0, <1>8, <1>h DEF Crash, TypeOK
<1>9. ASSUME NEW f \in Events, LeaseExpires(f) PROVE claimedBy'[e] = v /\ live'[e]
  <2>1. e \in todo[v]
    BY <1>9 DEF LeaseExpires
  <2>2. ~Busy(f)
    BY <1>0, <1>9, <1>b DEF LeaseExpires, TypeOK
  <2>3. e # f
    BY <1>h, <2>1, <2>2 DEF Busy
  <2> QED
    BY <1>0, <1>9, <1>h, <2>1, <2>3 DEF LeaseExpires, TypeOK
<1>10. ASSUME NEW f \in Events, BecomesDue(f) \/ FlowEnds(f)
       PROVE  claimedBy'[e] = v /\ live'[e]
  BY <1>1, <1>10 DEF BecomesDue, FlowEnds
<1>11. ASSUME NEW f \in Events, ReplayDeadLetter(f)
       PROVE  claimedBy'[e] = v /\ live'[e]
  BY <1>0, <1>11, <1>b DEF ReplayDeadLetter, TypeOK
<1> QED
  BY <1>1, <1>2, <1>3, <1>4, <1>5, <1>6, <1>7, <1>8, <1>9, <1>10, <1>11
     DEF Next, DispatchBatch, vars

\* Nothing is marked before its start has succeeded, and no workflow is undone.
LEMMA StartedStep ==
  ASSUME Inductive, [Next]_vars
  PROVE  MarksStarted' /\ DispatchedWasStarted'
<1> USE OutboxAssumption DEF OutboxAssumption, rowVars, passVars, limitVars, Goes
<1>0. TypeOK /\ CurrentIsTodo /\ MarksStarted /\ DispatchedWasStarted
  BY DEF Inductive
<1>1. CASE UNCHANGED <<flow, dispatched, current, pc>>
  BY <1>0, <1>1 DEF MarksStarted, DispatchedWasStarted
<1>2. ASSUME NEW w \in Workers, Pick(w) \/ Claim(w) \/ List(w)
      PROVE  MarksStarted' /\ DispatchedWasStarted'
  BY <1>0, <1>2
     DEF Pick, Claim, List, TypeOK, MarksStarted, DispatchedWasStarted
<1>5. ASSUME NEW w \in Workers, Start(w)
      PROVE  MarksStarted' /\ DispatchedWasStarted'
  BY <1>0, <1>5 DEF Start, TypeOK, MarksStarted, DispatchedWasStarted
<1>6. ASSUME NEW w \in Workers, MarkRow(w)
      PROVE  MarksStarted' /\ DispatchedWasStarted'
  <2>1. DispatchedWasStarted'
    BY <1>0, <1>6 DEF MarkRow, TypeOK, MarksStarted, DispatchedWasStarted
  <2>2. MarksStarted'
    BY <1>0, <1>6 DEF MarkRow, NextRow, TypeOK, MarksStarted
  <2> QED
    BY <2>1, <2>2
<1>7. ASSUME NEW w \in Workers, FailRow(w)
      PROVE  MarksStarted' /\ DispatchedWasStarted'
  BY <1>0, <1>7
     DEF FailRow, NextRow, TypeOK, MarksStarted, DispatchedWasStarted
<1>8. ASSUME NEW w \in Workers, Crash(w)
      PROVE  MarksStarted' /\ DispatchedWasStarted'
  BY <1>0, <1>8 DEF Crash, TypeOK, MarksStarted, DispatchedWasStarted
<1>9. ASSUME NEW e \in Events, FlowEnds(e)
      PROVE  MarksStarted' /\ DispatchedWasStarted'
  BY <1>0, <1>9 DEF FlowEnds, TypeOK, MarksStarted, DispatchedWasStarted
<1>10. ASSUME NEW e \in Events, LeaseExpires(e) \/ BecomesDue(e) \/ ReplayDeadLetter(e)
       PROVE  MarksStarted' /\ DispatchedWasStarted'
  BY <1>1, <1>10 DEF LeaseExpires, BecomesDue, ReplayDeadLetter
<1> QED
  BY <1>1, <1>2, <1>5, <1>6, <1>7, <1>8, <1>9, <1>10
     DEF Next, DispatchBatch, vars

\* The inductive invariant of the dispatcher.
THEOREM OutboxInvariance == Spec => []Inductive
<1>1. Inductive /\ [Next]_vars => Inductive'
  BY TypeStep, CurrentStep, HoldsStep, StartedStep DEF Inductive
<1> QED
  BY <1>1, InductiveInit, PTL DEF Spec

\* However many workers pick the same rows, no two passes have the same row
\* before them while no lease runs out under a pass and no operator interferes.
THEOREM ClaimsExclusive == Spec => []Exclusive
<1>1. Inductive => Exclusive
  BY DEF Inductive, HoldsTodo, Exclusive, TypeOK
<1> QED
  BY <1>1, OutboxInvariance, PTL

\* No routed event is marked dispatched without a start, through any number of
\* failed calls, lost answers, crashes, expired leases and replays.
THEOREM NoEventLost == Spec => []DispatchedWasStarted
<1>1. Inductive => DispatchedWasStarted
  BY DEF Inductive
<1> QED
  BY <1>1, OutboxInvariance, PTL

-----------------------------------------------------------------------------
(* Rows that are dispatched, and claims that are live *)

\* What DispatchedIsFinal and LiveClaimKept ask of one step.
KeepsDispatched ==
  \A e \in Events :
    dispatched[e] => /\ dispatched'[e] /\ attempts'[e] = attempts[e]
                     /\ claimedBy'[e] = None => claimedBy[e] = None
KeepsClaims ==
  \A e \in Events, w \in Workers :
    /\ claimedBy[e] = w /\ live[e]
    /\ claimedBy'[e] # w
    => (pc[w] = "fail" /\ current[w] = e) \/ replays' # replays

LEMMA IdleKeeps ==
  ASSUME UNCHANGED <<claimedBy, attempts>>,
         \A e \in Events : dispatched[e] => dispatched'[e]
  PROVE  KeepsDispatched /\ KeepsClaims
BY DEF KeepsDispatched, KeepsClaims

LEMMA NextKeeps ==
  ASSUME Inductive, [Next]_vars
  PROVE  KeepsDispatched /\ KeepsClaims
<1> USE DEF rowVars, passVars, limitVars
<1>0. TypeOK /\ None \notin Workers
  BY OutboxAssumption DEF Inductive, OutboxAssumption
<1>1. ASSUME NEW w \in Workers, Claim(w) PROVE KeepsDispatched /\ KeepsClaims
  <2>1. /\ dispatched' = dispatched /\ attempts' = attempts
        /\ \A e \in Events : claimedBy'[e] = claimedBy[e] \/ (claimedBy'[e] = w /\ Ready(e))
    BY <1>1 DEF Claim
  <2>2. KeepsDispatched
    BY <1>0, <2>1 DEF KeepsDispatched
  <2>3. KeepsClaims
    BY <1>0, <2>1 DEF Ready, KeepsClaims
  <2> QED
    BY <2>2, <2>3
<1>2. ASSUME NEW w \in Workers, MarkRow(w) PROVE KeepsDispatched /\ KeepsClaims
  BY <1>0, <1>2, IdleKeeps DEF MarkRow, TypeOK
<1>3. ASSUME NEW w \in Workers, FailRow(w) PROVE KeepsDispatched /\ KeepsClaims
  <2>1. CASE UNCHANGED <<attempts, claimedBy>>
    BY <1>3, <2>1, IdleKeeps DEF FailRow
  <2>2. CASE ~UNCHANGED <<attempts, claimedBy>>
    <3>1. /\ pc[w] = "fail" /\ dispatched' = dispatched
          /\ ~dispatched[current[w]] /\ claimedBy[current[w]] = w
          /\ claimedBy' = [claimedBy EXCEPT ![current[w]] = None]
          /\ \A e \in Events : e # current[w] => attempts'[e] = attempts[e]
      BY <1>0, <1>3, <2>2 DEF FailRow, FailsRow, TypeOK
    <3>2. \A e \in Events : e # current[w] => claimedBy'[e] = claimedBy[e]
      BY <1>0, <3>1 DEF TypeOK
    <3>3. KeepsDispatched
      BY <3>1, <3>2 DEF KeepsDispatched
    <3>4. KeepsClaims
      BY <3>1, <3>2 DEF KeepsClaims
    <3> QED
      BY <3>3, <3>4
  <2> QED
    BY <2>1, <2>2
<1>4. ASSUME NEW e \in Events, ReplayDeadLetter(e) PROVE KeepsDispatched /\ KeepsClaims
  <2>1. /\ ~dispatched[e] /\ dispatched' = dispatched /\ attempts' = attempts
        /\ claimedBy' = [claimedBy EXCEPT ![e] = None]
        /\ replays' = replays - 1 /\ replays \in Nat
    BY <1>0, <1>4 DEF ReplayDeadLetter, TypeOK
  <2>2. KeepsDispatched
    BY <1>0, <2>1 DEF KeepsDispatched, TypeOK
  <2>3. KeepsClaims
    BY <2>1 DEF KeepsClaims
  <2> QED
    BY <2>2, <2>3
<1>5. ASSUME NEW w \in Workers, Pick(w) \/ List(w) \/ Start(w) \/ Crash(w)
      PROVE  KeepsDispatched /\ KeepsClaims
  BY <1>5, IdleKeeps DEF Pick, List, Start, Crash
<1>6. ASSUME NEW e \in Events, LeaseExpires(e) \/ BecomesDue(e) \/ FlowEnds(e)
      PROVE  KeepsDispatched /\ KeepsClaims
  BY <1>6, IdleKeeps DEF LeaseExpires, BecomesDue, FlowEnds
<1>7. CASE UNCHANGED vars
  BY <1>7, IdleKeeps DEF vars
<1> QED
  BY <1>1, <1>2, <1>3, <1>4, <1>5, <1>6, <1>7 DEF Next, DispatchBatch

\* A late failure of a worker leaves a dispatched row as it is.
THEOREM DispatchedIsLeftAlone == Spec => DispatchedIsFinal
<1>1. Inductive /\ [Next]_vars => [KeepsDispatched]_vars
  BY NextKeeps
<1>2. Spec => [][KeepsDispatched]_vars
  BY <1>1, OutboxInvariance, PTL DEF Spec
<1> QED
  BY <1>2 DEF DispatchedIsFinal, KeepsDispatched

\* A live claim ends by its own worker's failure or a replay: another worker
\* claims a row only when nobody's lease on it is live.
THEOREM LiveClaimsStay == Spec => LiveClaimKept
<1>1. Inductive /\ [Next]_vars => [KeepsClaims]_vars
  BY NextKeeps
<1>2. Spec => [][KeepsClaims]_vars
  BY <1>1, OutboxInvariance, PTL DEF Spec
<1> QED
  BY <1>2 DEF LiveClaimKept, KeepsClaims

-----------------------------------------------------------------------------
(* Idempotency *)

\* Nothing has been written: no request holds a marker.
LEMMA KeyInductiveInit == KeyInit => KeyInductive /\ FreshKept
<1> SUFFICES ASSUME KeyInit PROVE KeyInductive /\ FreshKept
  OBVIOUS
<1>1. KeyTypeOK
  <2>1. rec \in Rows
    BY DEF KeyInit, Rows, NoRow
  <2>2. deaths \in 0..MaxDeaths /\ days \in 0..MaxDays /\ lostAcks \in 0..MaxLostAcks
    BY IdempotencyAssumption DEF KeyInit, IdempotencyAssumption
  <2>3. /\ at \in [Requests -> Pcs \cup Ends]
        /\ answer \in [Requests -> Requests \cup {Nobody}]
        /\ displaced \in BOOLEAN
    BY DEF KeyInit, Pcs
  <2> QED
    BY <2>1, <2>2, <2>3 DEF KeyInit, KeyTypeOK
<1>2. /\ \A r \in Requests : at[r] = "start"
      /\ rec.state = "none" /\ fresh = {}
  BY DEF KeyInit, NoRow
<1> QED
  BY <1>1, <1>2 DEF KeyInductive, Marked, Committed, FreshKept, Holding

\* Every step keeps the rows, the requests and the history well typed.
LEMMA KeyTypeStep ==
  ASSUME KeyTypeOK, [KeyNext]_keyVars
  PROVE  KeyTypeOK'
<1> USE IdempotencyAssumption
    DEF keyLimitVars, IdempotencyAssumption, Reaches, Replays, KeyTypeOK, Pcs, Ends
<1>r. /\ NoRow \in Rows
      /\ [rec EXCEPT !.expired = FALSE] \in Rows
      /\ [rec EXCEPT !.expired = TRUE] \in Rows
      /\ \A b \in BOOLEAN : [NoRow EXCEPT !.state = "in_progress", !.other = b] \in Rows
      /\ \A r \in Requests :
           [rec EXCEPT !.state = "completed", !.resp = r, !.expired = FALSE] \in Rows
  BY DEF Rows, NoRow
<1>a. rec.resp \in Requests \cup {Nobody}
  BY DEF Rows
<1>1. CASE UNCHANGED keyVars
  BY <1>1 DEF keyVars
<1>2. ASSUME NEW r \in Requests, Lookup(r) PROVE KeyTypeOK'
  BY <1>2, <1>a DEF Lookup
<1>3. ASSUME NEW r \in Requests, TakeOver(r) PROVE KeyTypeOK'
  BY <1>3, <1>r DEF TakeOver
<1>4. ASSUME NEW r \in Requests, Remove(r) PROVE KeyTypeOK'
  BY <1>4, <1>r DEF Remove
<1>5. ASSUME NEW r \in Requests, InsertInProgress(r) PROVE KeyTypeOK'
  <2>1. IsOther(r) \in BOOLEAN
    BY DEF IsOther
  <2>2. rec' \in Rows
    BY <1>5, <1>r, <2>1 DEF InsertInProgress
  <2> QED
    BY <1>5, <2>2 DEF InsertInProgress
<1>6. ASSUME NEW r \in Requests, LookupAgain(r) PROVE KeyTypeOK'
  BY <1>6, <1>a DEF LookupAgain
<1>7. ASSUME NEW r \in Requests, Commit(r) PROVE KeyTypeOK'
  BY <1>7, <1>r DEF Commit, Complete
<1>8. ASSUME NEW r \in Requests, CommitLosesAck(r) PROVE KeyTypeOK'
  <2>1. lostAcks' \in 0..MaxLostAcks
    BY <1>8 DEF CommitLosesAck
  <2> QED
    BY <1>8, <1>r, <2>1 DEF CommitLosesAck, Complete
<1>9. ASSUME NEW r \in Requests, RollBack(r) PROVE KeyTypeOK'
  BY <1>9 DEF RollBack
<1>10. ASSUME NEW r \in Requests, CleanUp(r) PROVE KeyTypeOK'
  <2>1. deaths' \in 0..MaxDeaths
    BY <1>10 DEF CleanUp
  <2> QED
    BY <1>10, <1>r, <2>1 DEF CleanUp
<1>11. ASSUME NEW r \in Requests, Dies(r) PROVE KeyTypeOK'
  <2>1. deaths' \in 0..MaxDeaths
    BY <1>11 DEF Dies
  <2> QED
    BY <1>11, <2>1 DEF Dies
<1>12. CASE LeaseRunsOut
  BY <1>12, <1>r DEF LeaseRunsOut
<1>13. CASE TtlRunsOut
  <2>1. days' \in 0..MaxDays
    BY <1>13 DEF TtlRunsOut
  <2> QED
    BY <1>13, <1>r, <2>1 DEF TtlRunsOut
<1>14. CASE PurgeExpired
  BY <1>14, <1>r DEF PurgeExpired
<1> QED
  BY <1>1, <1>2, <1>3, <1>4, <1>5, <1>6, <1>7, <1>8, <1>9, <1>10, <1>11, <1>12,
     <1>13, <1>14
     DEF KeyNext, Idempotent

\* The rows, the requests and the history stay well typed, with no premise.
THEOREM KeyTypeCorrect == KeySpec => []KeyTypeOK
<1>1. KeyInit => KeyTypeOK
  BY KeyInductiveInit DEF KeyInductive
<1>2. KeyTypeOK /\ [KeyNext]_keyVars => KeyTypeOK'
  BY KeyTypeStep
<1> QED
  BY <1>1, <1>2, PTL DEF KeySpec

\* One request at a time holds the record while none is displaced.  A takeover
\* needs an expired lease, which displaces a holder; an insertion needs that
\* there is no row; and a removal of a live row displaces it.
LEMMA KeyMarkedStep ==
  ASSUME KeyInductive, [KeyNext]_keyVars, ~displaced'
  PROVE  Marked'
<1> USE DEF keyLimitVars, Reaches, Replays, SameRequest, Holding, Own
<1>0. /\ Marked /\ ~displaced
      /\ at \in [Requests -> Pcs \cup Ends]
      /\ answer \in [Requests -> Requests \cup {Nobody}]
      /\ rec \in Rows
      /\ NoRow.state = "none"
  <2>1. ~displaced
    BY DEF KeyNext, keyVars, Idempotent, Lookup, TakeOver, Remove, InsertInProgress,
           LookupAgain, Commit, CommitLosesAck, RollBack, CleanUp, Dies,
           LeaseRunsOut, TtlRunsOut, PurgeExpired
  <2> QED
    BY <2>1 DEF KeyInductive, KeyTypeOK, NoRow
<1>1. CASE UNCHANGED keyVars
  BY <1>0, <1>1 DEF keyVars, Marked, IsOther
<1>2. ASSUME NEW r \in Requests, Lookup(r) PROVE Marked'
  BY <1>0, <1>2 DEF Lookup, Marked, Rows, IsOther
<1>3. ASSUME NEW r \in Requests, TakeOver(r) PROVE Marked'
  <2>1. CASE Abandoned
    <3>1. \A q \in Requests : ~Holding(q)
      BY <1>0, <2>1 DEF Marked, Abandoned
    <3>2. /\ rec'.state = "in_progress" /\ rec'.expired = FALSE
          /\ rec'.other = rec.other /\ rec.other = IsOther(r)
      BY <1>0, <1>3, <2>1 DEF TakeOver, Abandoned, Rows
    <3> QED
      BY <1>0, <1>3, <2>1, <3>1, <3>2 DEF TakeOver, Marked, IsOther
  <2>2. CASE ~Abandoned
    BY <1>0, <1>3, <2>2 DEF TakeOver, Marked, Rows, IsOther
  <2> QED
    BY <2>1, <2>2
<1>4. ASSUME NEW r \in Requests, Remove(r) PROVE Marked'
  BY <1>0, <1>4 DEF Remove, Marked, IsOther
<1>5. ASSUME NEW r \in Requests, InsertInProgress(r) PROVE Marked'
  <2>1. CASE rec.state = "none"
    <3>1. \A q \in Requests : ~Holding(q)
      BY <1>0, <2>1 DEF Marked
    <3>2. /\ rec'.state = "in_progress" /\ rec'.expired = FALSE
          /\ rec'.other = IsOther(r)
      BY <1>5, <2>1 DEF InsertInProgress, NoRow
    <3> QED
      BY <1>0, <1>5, <2>1, <3>1, <3>2 DEF InsertInProgress, Marked, IsOther
  <2>2. CASE rec.state # "none"
    BY <1>0, <1>5, <2>2 DEF InsertInProgress, Marked, IsOther
  <2> QED
    BY <2>1, <2>2
<1>6. ASSUME NEW r \in Requests, LookupAgain(r) PROVE Marked'
  BY <1>0, <1>6 DEF LookupAgain, Marked, IsOther
<1>7. ASSUME NEW r \in Requests, Commit(r) \/ CommitLosesAck(r) PROVE Marked'
  <2>1. /\ rec.state = "in_progress" /\ ~rec.expired /\ rec.other = IsOther(r)
        /\ \A q \in Requests \ {r} : ~Holding(q)
    BY <1>0, <1>7 DEF Commit, CommitLosesAck, Marked
  <2>a. rec' = [rec EXCEPT !.state = "completed", !.resp = r, !.expired = FALSE]
    <3>1. Complete(r)
      BY <1>7 DEF Commit, CommitLosesAck
    <3> QED
      BY <2>1, <3>1 DEF Complete
  <2>2. /\ rec'.state = "completed" /\ rec'.resp = r /\ rec'.expired = FALSE
        /\ rec'.other = rec.other
    BY <1>0, <2>a DEF Rows
  <2> QED
    BY <1>0, <1>7, <2>1, <2>2 DEF Commit, CommitLosesAck, Marked, IsOther
<1>9. ASSUME NEW r \in Requests, RollBack(r) PROVE Marked'
  BY <1>0, <1>9 DEF RollBack, Marked, IsOther
<1>10. ASSUME NEW r \in Requests, CleanUp(r) PROVE Marked'
  <2>1. \A q \in Requests \ {r} : ~Holding(q)
    BY <1>0, <1>10 DEF CleanUp, Marked
  <2> QED
    BY <1>0, <1>10, <2>1 DEF CleanUp, Marked, IsOther
<1>11. ASSUME NEW r \in Requests, Dies(r) PROVE Marked'
  BY <1>0, <1>11 DEF Dies, Marked, IsOther
<1>12. CASE LeaseRunsOut
  BY <1>0, <1>12 DEF LeaseRunsOut, Marked, Rows, IsOther
<1>13. CASE TtlRunsOut
  BY <1>0, <1>13 DEF TtlRunsOut, Marked, Rows, IsOther, Ends
<1>14. CASE PurgeExpired
  BY <1>0, <1>14 DEF PurgeExpired, Marked, IsOther
<1> QED
  BY <1>1, <1>2, <1>3, <1>4, <1>5, <1>6, <1>7, <1>9, <1>10, <1>11, <1>12,
     <1>13, <1>14
     DEF KeyNext, Idempotent

\* While every commit is acknowledged too, a committed command keeps its record,
\* so that no other request reaches its own command before the TTL runs out.
LEMMA KeyCommittedStep ==
  ASSUME KeyInductive, [KeyNext]_keyVars, ~displaced', lostAcks' = MaxLostAcks
  PROVE  Committed'
<1> USE DEF keyLimitVars, Reaches, Replays, Holding
<1>0. /\ Committed /\ Marked /\ ~displaced /\ lostAcks = MaxLostAcks
      /\ at \in [Requests -> Pcs \cup Ends]
      /\ rec \in Rows
      /\ fresh \subseteq Requests
      /\ NoRow.state = "none"
  <2>0. lostAcks \in 0..MaxLostAcks /\ MaxLostAcks \in Nat
    BY IdempotencyAssumption DEF KeyInductive, KeyTypeOK, IdempotencyAssumption
  <2>1. ~displaced
    BY DEF KeyNext, keyVars, Idempotent, Lookup, TakeOver, Remove, InsertInProgress,
           LookupAgain, Commit, CommitLosesAck, RollBack, CleanUp, Dies,
           LeaseRunsOut, TtlRunsOut, PurgeExpired
  <2>2. \/ lostAcks' = lostAcks
        \/ lostAcks' = lostAcks - 1
    BY DEF KeyNext, keyVars, Idempotent, Lookup, TakeOver, Remove, InsertInProgress,
           LookupAgain, Commit, CommitLosesAck, RollBack, CleanUp, Dies,
           LeaseRunsOut, TtlRunsOut, PurgeExpired
  <2>3. lostAcks = MaxLostAcks
    BY <2>0, <2>2
  <2> QED
    BY <2>1, <2>3 DEF KeyInductive, KeyTypeOK, NoRow
<1>1. CASE UNCHANGED keyVars
  BY <1>0, <1>1 DEF keyVars, Committed
<1>2. ASSUME NEW r \in Requests, Lookup(r) PROVE Committed'
  BY <1>0, <1>2 DEF Lookup, Committed
<1>3. ASSUME NEW r \in Requests, TakeOver(r) PROVE Committed'
  BY <1>0, <1>3 DEF TakeOver, Abandoned, Committed, Rows
<1>4. ASSUME NEW r \in Requests, Remove(r) PROVE Committed'
  BY <1>0, <1>4 DEF Remove, Committed, Marked
<1>5. ASSUME NEW r \in Requests, InsertInProgress(r) PROVE Committed'
  BY <1>0, <1>5 DEF InsertInProgress, Committed, NoRow
<1>6. ASSUME NEW r \in Requests, LookupAgain(r) PROVE Committed'
  BY <1>0, <1>6 DEF LookupAgain, Committed
<1>7. ASSUME NEW r \in Requests, Commit(r) PROVE Committed'
  <2>1. fresh = {} /\ \A q \in Requests \ {r} : ~Holding(q)
    BY <1>0, <1>7 DEF Commit, Committed, Marked
  <2> QED
    BY <1>0, <1>7, <2>1 DEF Commit, Complete, Committed, Marked, Rows
<1>8. ASSUME NEW r \in Requests, CommitLosesAck(r) PROVE Committed'
  <2>1. lostAcks \in Nat
    BY IdempotencyAssumption DEF KeyInductive, KeyTypeOK, IdempotencyAssumption
  <2> QED
    BY <1>0, <1>8, <2>1 DEF CommitLosesAck
<1>9. ASSUME NEW r \in Requests, RollBack(r) PROVE Committed'
  BY <1>0, <1>9 DEF RollBack, Committed
<1>10. ASSUME NEW r \in Requests, CleanUp(r) PROVE Committed'
  <2>1. fresh = {} /\ \A q \in Requests \ {r} : ~Holding(q)
    BY <1>0, <1>10 DEF CleanUp, Committed, Marked
  <2> QED
    BY <1>0, <1>10, <2>1 DEF CleanUp, Committed
<1>11. ASSUME NEW r \in Requests, Dies(r) PROVE Committed'
  BY <1>0, <1>11 DEF Dies, Committed
<1>12. CASE LeaseRunsOut
  BY <1>0, <1>12 DEF LeaseRunsOut, Committed, Rows
<1>13. CASE TtlRunsOut
  BY <1>0, <1>13 DEF TtlRunsOut, Committed, Rows, Ends
<1>14. CASE PurgeExpired
  BY <1>0, <1>14 DEF PurgeExpired, Committed, Marked
<1> QED
  BY <1>1, <1>2, <1>3, <1>4, <1>5, <1>6, <1>7, <1>8, <1>9, <1>10, <1>11, <1>12,
     <1>13, <1>14
     DEF KeyNext, Idempotent

LEMMA KeyInductiveStep == KeyInductive /\ [KeyNext]_keyVars => KeyInductive'
BY KeyTypeStep, KeyMarkedStep, KeyCommittedStep DEF KeyInductive

\* A key runs its command at most once while its record lives, for every number
\* of overlapping retries, other commands, crashes and failed commands: as long
\* as no live record is displaced and every commit is acknowledged.
THEOREM KeyRunsOnce == KeySpec => []CommandOnce
<1>1. KeyInductive => CommandOnce
  <2> SUFFICES ASSUME KeyInductive, ~displaced, lostAcks = MaxLostAcks
               PROVE  Cardinality(fresh) <= 1
    BY DEF CommandOnce
  <2>1. CASE fresh = {}
    BY <2>1, FS_EmptySet
  <2>2. CASE fresh # {}
    <3>1. PICK r \in fresh : fresh = {r}
      BY <2>2 DEF KeyInductive, Committed
    <3> QED
      BY <3>1, FS_Singleton
  <2> QED
    BY <2>1, <2>2
<1> QED
  BY <1>1, KeyInductiveInit, KeyInductiveStep, PTL DEF KeySpec

\* A replay answers with a command of the same hash and path, whatever else uses
\* the key, as long as no live record is displaced.
THEOREM KeyReplaysItsOwn == KeySpec => []ReplayIsOwn
<1>1. KeyInductive => ReplayIsOwn
  BY DEF KeyInductive, Marked, ReplayIsOwn
<1> QED
  BY <1>1, KeyInductiveInit, KeyInductiveStep, PTL DEF KeySpec

\* A live completed record is a commit of its lifetime, displaced or not.
LEMMA KeyFreshStep ==
  ASSUME KeyTypeOK, FreshKept, [KeyNext]_keyVars
  PROVE  FreshKept'
<1> USE DEF keyLimitVars, Reaches, Replays, FreshKept
<1>0. /\ at \in [Requests -> Pcs \cup Ends]
      /\ rec \in Rows
      /\ NoRow.state = "none"
  BY DEF KeyTypeOK, NoRow
<1>1. CASE UNCHANGED keyVars
  BY <1>1 DEF keyVars
<1>2. ASSUME NEW r \in Requests, Lookup(r) PROVE FreshKept'
  BY <1>0, <1>2 DEF Lookup
<1>3. ASSUME NEW r \in Requests, TakeOver(r) PROVE FreshKept'
  BY <1>0, <1>3 DEF TakeOver, Abandoned, Rows
<1>4. ASSUME NEW r \in Requests, Remove(r) PROVE FreshKept'
  BY <1>0, <1>4 DEF Remove
<1>5. ASSUME NEW r \in Requests, InsertInProgress(r) PROVE FreshKept'
  BY <1>0, <1>5 DEF InsertInProgress, NoRow
<1>6. ASSUME NEW r \in Requests, LookupAgain(r) PROVE FreshKept'
  BY <1>0, <1>6 DEF LookupAgain
<1>7. ASSUME NEW r \in Requests, Commit(r) \/ CommitLosesAck(r) PROVE FreshKept'
  BY <1>0, <1>7 DEF Commit, CommitLosesAck, Complete, Rows
<1>9. ASSUME NEW r \in Requests, RollBack(r) PROVE FreshKept'
  BY <1>0, <1>9 DEF RollBack
<1>10. ASSUME NEW r \in Requests, CleanUp(r) PROVE FreshKept'
  BY <1>0, <1>10 DEF CleanUp
<1>11. ASSUME NEW r \in Requests, Dies(r) PROVE FreshKept'
  BY <1>0, <1>11 DEF Dies
<1>12. CASE LeaseRunsOut
  BY <1>0, <1>12 DEF LeaseRunsOut, Rows
<1>13. CASE TtlRunsOut
  BY <1>0, <1>13 DEF TtlRunsOut, Rows, Ends
<1>14. CASE PurgeExpired
  BY <1>0, <1>14 DEF PurgeExpired
<1> QED
  BY <1>1, <1>2, <1>3, <1>4, <1>5, <1>6, <1>7, <1>9, <1>10, <1>11, <1>12,
     <1>13, <1>14
     DEF KeyNext, Idempotent

\* A step to a replay is a lookup that found a completed record.
LEMMA KeyReplayStep ==
  ASSUME KeyTypeOK, FreshKept, [KeyNext]_keyVars,
         NEW q \in Requests, at'[q] = "replay", at[q] # "replay"
  PROVE  answer'[q] \in fresh
<1> USE DEF Reaches, Replays, KeyTypeOK
<1>1. ASSUME NEW r \in Requests, Lookup(r) PROVE answer'[q] \in fresh
  BY <1>1 DEF Lookup, FreshKept
<1>2. ASSUME NEW r \in Requests, LookupAgain(r) PROVE answer'[q] \in fresh
  BY <1>2 DEF LookupAgain, FreshKept
<1> QED
  BY <1>1, <1>2
     DEF KeyNext, keyVars, Idempotent, TakeOver, Remove, InsertInProgress, Commit,
         CommitLosesAck, RollBack, CleanUp, Dies, LeaseRunsOut, TtlRunsOut,
         PurgeExpired

\* No replay returns a rolled-back response or one whose TTL has run out, with
\* no premise: removals, takeovers and lost acknowledgements included.
THEOREM KeyReplaysFresh == KeySpec => ReplayIsFresh
<1>1. KeyTypeOK /\ FreshKept /\ [KeyNext]_keyVars => FreshKept'
  BY KeyFreshStep
<1>2. KeyTypeOK /\ FreshKept /\ [KeyNext]_keyVars
        => [ReplaysFresh]_keyVars
  BY KeyReplayStep DEF ReplaysFresh
<1> QED
  BY <1>1, <1>2, KeyTypeCorrect, KeyInductiveInit, PTL DEF KeySpec, ReplayIsFresh

-----------------------------------------------------------------------------
(* OutboxTenants: finite orders, and sums over workers *)

StrictOrder(R, S) ==
  /\ \A x \in S : <<x, x>> \notin R
  /\ \A x, y \in S : x # y => <<x, y>> \in R \/ <<y, x>> \in R
  /\ \A x, y, z \in S : <<x, y>> \in R /\ <<y, z>> \in R => <<x, z>> \in R

Preceding(x, R, S) == {y \in S : <<y, x>> \in R}

\* An element's place in a finite order is the number of those before it: no two
\* have the same.
LEMMA PlacesDiffer ==
  ASSUME NEW S, IsFiniteSet(S), NEW R, StrictOrder(R, S), NEW x \in S, NEW y \in S
  PROVE  /\ Cardinality(Preceding(x, R, S)) \in Nat
         /\ Cardinality(Preceding(x, R, S)) < Cardinality(S)
         /\ Cardinality(Preceding(x, R, S)) = Cardinality(Preceding(y, R, S)) => x = y
<1>1. ASSUME NEW z \in S
      PROVE  /\ IsFiniteSet(Preceding(z, R, S))
             /\ Cardinality(Preceding(z, R, S)) \in Nat
             /\ Cardinality(Preceding(z, R, S)) < Cardinality(S)
  <2>1. /\ Cardinality(S) \in Nat
        /\ IsFiniteSet(S \ {z}) /\ Cardinality(S \ {z}) = Cardinality(S) - 1
    BY FS_CardinalityType, FS_RemoveElement
  <2>2. Preceding(z, R, S) \in SUBSET (S \ {z})
    BY DEF StrictOrder, Preceding
  <2>3. /\ IsFiniteSet(Preceding(z, R, S))
        /\ Cardinality(Preceding(z, R, S)) <= Cardinality(S \ {z})
    BY <2>1, <2>2, FS_Subset
  <2>4. Cardinality(Preceding(z, R, S)) \in Nat
    BY <2>3, FS_CardinalityType
  <2> QED
    BY <2>1, <2>3, <2>4
<1>2. ASSUME NEW u \in S, NEW v \in S, <<u, v>> \in R
      PROVE  Cardinality(Preceding(u, R, S)) # Cardinality(Preceding(v, R, S))
  <2>1. /\ Preceding(u, R, S) \in SUBSET Preceding(v, R, S)
        /\ u \in Preceding(v, R, S) /\ u \notin Preceding(u, R, S)
    BY <1>2 DEF StrictOrder, Preceding
  <2>2. IsFiniteSet(Preceding(v, R, S))
    BY <1>1
  <2>3. Cardinality(Preceding(v, R, S)) = Cardinality(Preceding(u, R, S))
          => Preceding(v, R, S) = Preceding(u, R, S)
    BY <2>1, <2>2, FS_Subset
  <2> QED
    BY <2>1, <2>3
<1>3. x # y => <<x, y>> \in R \/ <<y, x>> \in R
  BY DEF StrictOrder
<1> QED
  BY <1>1, <1>2, <1>3

\* A finite set under a strict order is enumerated in that order.
LEMMA Sorted ==
  ASSUME NEW S, IsFiniteSet(S), NEW R, StrictOrder(R, S)
  PROVE  \E s \in [1..Cardinality(S) -> S] :
           /\ \A m, n \in 1..Cardinality(S) : m < n => <<s[m], s[n]>> \in R
           /\ \A x \in S : \E k \in 1..Cardinality(S) : s[k] = x
<1> DEFINE N == Cardinality(S)
           pos == [x \in S |-> Cardinality(Preceding(x, R, S)) + 1]
<1>1. N \in Nat
  BY FS_CardinalityType
<1>2. pos \in [S -> 1..N]
  BY <1>1, PlacesDiffer
<1>3. ASSUME NEW x \in S, NEW y \in S, pos[x] = pos[y] PROVE x = y
  <2>1. Cardinality(Preceding(x, R, S)) + 1 = Cardinality(Preceding(y, R, S)) + 1
    BY <1>3
  <2>2. /\ Cardinality(Preceding(x, R, S)) \in Nat
        /\ Cardinality(Preceding(y, R, S)) \in Nat
    BY PlacesDiffer
  <2>3. Cardinality(Preceding(x, R, S)) = Cardinality(Preceding(y, R, S))
    BY <2>1, <2>2
  <2> QED
    BY <2>3, PlacesDiffer
<1>4. pos \in Injection(S, 1..N)
  BY <1>2, <1>3 DEF Injection, IsInjective
<1>5. IsFiniteSet(1..N) /\ Cardinality(1..N) = N
  BY <1>1, FS_Interval
<1>6. pos \in Surjection(S, 1..N)
  BY <1>4, <1>5, FS_Injection
<1>7. \A k \in 1..N : \E x \in S : pos[x] = k
  BY <1>6 DEF Surjection
<1>8. ASSUME NEW x \in S, NEW y \in S, <<x, y>> \in R PROVE pos[x] < pos[y]
  <2>1. /\ Preceding(x, R, S) \in SUBSET Preceding(y, R, S)
        /\ IsFiniteSet(Preceding(y, R, S))
    <3>1. Preceding(y, R, S) \in SUBSET S
      BY DEF Preceding
    <3>2. IsFiniteSet(Preceding(y, R, S))
      BY <3>1, FS_Subset
    <3> QED
      BY <1>8, <3>2 DEF StrictOrder, Preceding
  <2>2. Cardinality(Preceding(x, R, S)) <= Cardinality(Preceding(y, R, S))
    BY <2>1, FS_Subset
  <2>3. x # y
    BY <1>8 DEF StrictOrder
  <2>4. pos[x] <= pos[y]
    BY <2>2, PlacesDiffer
  <2>5. pos[x] # pos[y]
    BY <1>3, <2>3
  <2>6. pos[x] \in 1..N /\ pos[y] \in 1..N
    BY <1>2
  <2> HIDE DEF pos
  <2> QED
    BY <1>1, <2>4, <2>5, <2>6
<1> DEFINE s == [k \in 1..N |-> CHOOSE x \in S : pos[x] = k]
<1>9. s \in [1..N -> S] /\ \A k \in 1..N : pos[s[k]] = k
  BY <1>7
<1> HIDE DEF pos, s
<1>10. ASSUME NEW m \in 1..N, NEW n \in 1..N, m < n PROVE <<s[m], s[n]>> \in R
  <2>1. s[m] \in S /\ s[n] \in S /\ pos[s[m]] = m /\ pos[s[n]] = n
    BY <1>9
  <2>2. s[m] # s[n] /\ <<s[n], s[m]>> \notin R
    BY <1>1, <1>8, <1>10, <2>1
  <2> QED
    BY <2>1, <2>2 DEF StrictOrder
<1>11. ASSUME NEW x \in S PROVE \E k \in 1..N : s[k] = x
  <2>1. pos[x] \in 1..N
    BY <1>2
  <2>2. s[pos[x]] = x
    BY <1>3, <1>9, <2>1
  <2> QED
    BY <2>1, <2>2
<1> QED
  BY <1>9, <1>10, <1>11

\* A finite set of numbers that is not empty has a least one.
LEMMA LeastOf ==
  ASSUME NEW S \in SUBSET Nat, IsFiniteSet(S), S # {}
  PROVE  \E x \in S : \A y \in S : x <= y
<1> DEFINE R == {p \in S \X S : p[1] < p[2]}
<1>1. \A x, y \in S : <<x, y>> \in R <=> x < y
  OBVIOUS
<1> HIDE DEF R
<1>2. StrictOrder(R, S)
  BY <1>1 DEF StrictOrder
<1>3. PICK s \in [1..Cardinality(S) -> S] :
        /\ \A m, n \in 1..Cardinality(S) : m < n => <<s[m], s[n]>> \in R
        /\ \A x \in S : \E k \in 1..Cardinality(S) : s[k] = x
  BY <1>2, Sorted
<1>4. Cardinality(S) \in Nat /\ Cardinality(S) # 0
  <2>1. Cardinality(S) \in Nat
    BY FS_CardinalityType
  <2>2. Cardinality(S) # 0
    BY FS_EmptySet
  <2> QED
    BY <2>1, <2>2
<1>5. 1 \in 1..Cardinality(S) /\ s[1] \in S
  BY <1>3, <1>4
<1>6. ASSUME NEW y \in S PROVE s[1] <= y
  <2>1. PICK k \in 1..Cardinality(S) : s[k] = y
    BY <1>3
  <2>2. CASE k = 1
    BY <1>5, <2>1, <2>2
  <2>3. CASE k # 1
    <3>1. 1 < k
      BY <1>4, <2>3
    <3>2. s[1] < y
      BY <1>1, <1>3, <1>5, <2>1, <3>1
    <3>3. s[1] \in Nat /\ y \in Nat
      BY <1>5
    <3> QED
      BY <3>2, <3>3
  <2> QED
    BY <2>2, <2>3
<1> QED
  BY <1>5, <1>6

\* A number for each worker as a set of units, and the sum of the numbers.
Units(f, S) == UNION {{x} \X (1..f[x]) : x \in S}

Sum(f) == Cardinality(Units(f, Dispatchers))

LEMMA UnitsFinite ==
  ASSUME NEW S, IsFiniteSet(S), NEW f, \A x \in S : f[x] \in Nat
  PROVE  IsFiniteSet(Units(f, S))
<1> DEFINE each == [x \in S |-> {x} \X (1..f[x])]
           parts == {{x} \X (1..f[x]) : x \in S}
<1>1. each \in Surjection(S, parts)
  BY DEF Surjection
<1>2. IsFiniteSet(parts)
  BY <1>1, FS_Surjection DEF ExistsSurjection
<1>3. ASSUME NEW x \in S PROVE IsFiniteSet({x} \X (1..f[x]))
  <2>1. IsFiniteSet({x})
    BY FS_Singleton
  <2>2. IsFiniteSet(1..f[x])
    BY FS_Interval
  <2> QED
    BY <2>1, <2>2, FS_Product
<1>4. \A T \in parts : IsFiniteSet(T)
  BY <1>3
<1> QED
  BY <1>2, <1>4, FS_UNION DEF Units

LEMMA UnitsOfOne ==
  ASSUME NEW S, IsFiniteSet(S), NEW f, \A x \in S : f[x] \in Nat, NEW x \in S
  PROVE  Cardinality(Units(f, S)) = Cardinality(Units(f, S \ {x})) + f[x]
<1> DEFINE own == {x} \X (1..f[x])
           rest == Units(f, S \ {x})
<1>1. IsFiniteSet(rest)
  BY UnitsFinite, FS_RemoveElement
<1>2. IsFiniteSet(own) /\ Cardinality(own) = f[x]
  <2>1. IsFiniteSet({x}) /\ Cardinality({x}) = 1
    BY FS_Singleton
  <2>2. IsFiniteSet(1..f[x]) /\ Cardinality(1..f[x]) = f[x]
    BY FS_Interval
  <2> QED
    BY <2>1, <2>2, FS_Product
<1>3. Units(f, S) = rest \cup own
  BY DEF Units
<1>4. rest \cap own = {}
  BY DEF Units
<1>5. Cardinality(rest) \in Nat
  BY <1>1, FS_CardinalityType
<1> HIDE DEF rest, own
<1>6. Cardinality(rest \cup own)
        = Cardinality(rest) + Cardinality(own) - Cardinality(rest \cap own)
  BY <1>1, <1>2, FS_Union
<1>7. Cardinality(rest \cap own) = 0
  BY <1>4, FS_EmptySet
<1> QED
  BY <1>2, <1>3, <1>5, <1>6, <1>7 DEF rest


\* A sum changes by what one of its terms changes by.
LEMMA SumUpdate ==
  ASSUME NEW f \in [Dispatchers -> Nat], NEW w \in Dispatchers, NEW n \in Nat
  PROVE  /\ Sum(f) \in Nat /\ Sum([f EXCEPT ![w] = n]) \in Nat
         /\ Sum([f EXCEPT ![w] = n]) + f[w] = Sum(f) + n
<1> DEFINE g == [f EXCEPT ![w] = n]
<1>1. IsFiniteSet(Dispatchers)
  BY TenantsAssumption DEF TenantsAssumption
<1>2. \A x \in Dispatchers : f[x] \in Nat /\ g[x] \in Nat
  OBVIOUS
<1>3. Units(g, Dispatchers \ {w}) = Units(f, Dispatchers \ {w})
  BY DEF Units
<1>4. Cardinality(Units(f, Dispatchers \ {w})) \in Nat
  BY <1>1, <1>2, UnitsFinite, FS_RemoveElement, FS_CardinalityType
<1>5. /\ Cardinality(Units(f, Dispatchers)) = Cardinality(Units(f, Dispatchers \ {w})) + f[w]
      /\ Cardinality(Units(g, Dispatchers)) = Cardinality(Units(g, Dispatchers \ {w})) + g[w]
  BY <1>1, <1>2, UnitsOfOne
<1> QED
  BY <1>2, <1>3, <1>4, <1>5 DEF Sum

\* A batch for each worker.
LEMMA SumOfBatches ==
  Sum([w \in Dispatchers |-> Batch]) = Cardinality(Dispatchers) * Batch
<1>1. IsFiniteSet(Dispatchers) /\ Batch \in Nat
  BY TenantsAssumption DEF TenantsAssumption
<1>2. Units([w \in Dispatchers |-> Batch], Dispatchers) = Dispatchers \X (1..Batch)
  BY DEF Units
<1>3. IsFiniteSet(1..Batch) /\ Cardinality(1..Batch) = Batch
  BY <1>1, FS_Interval
<1> QED
  BY <1>1, <1>2, <1>3, FS_Product DEF Sum

-----------------------------------------------------------------------------
(* The order of a pass and the choice of a batch *)

LEMMA RanksAreNumbers ==
  ASSUME NEW rows \in SUBSET Numbers, NEW i
  PROVE  Rank(i, rows) \in Nat
<1>1. IsFiniteSet(Numbers)
  BY TenantsAssumption, FS_Interval DEF TenantsAssumption, Numbers
<1>2. {j \in rows : line[j] = line[i] /\ j < i} \in SUBSET Numbers
  OBVIOUS
<1>3. IsFiniteSet({j \in rows : line[j] = line[i] /\ j < i})
  BY <1>1, <1>2, FS_Subset
<1> QED
  BY <1>3, FS_CardinalityType DEF Rank

\* The turns of rows, as a relation.
Turns(rows) == {p \in rows \X rows : InTurn(p[1], p[2], rows)}

LEMMA TurnsAreStrict ==
  ASSUME NEW rows \in SUBSET Numbers
  PROVE  /\ IsFiniteSet(rows)
         /\ StrictOrder(Turns(rows), rows)
         /\ \A i, j \in rows : <<i, j>> \in Turns(rows) <=> InTurn(i, j, rows)
<1>1. IsFiniteSet(Numbers) /\ Numbers \subseteq Nat
  BY TenantsAssumption, FS_Interval DEF TenantsAssumption, Numbers
<1>2. IsFiniteSet(rows)
  BY <1>1, FS_Subset
<1>3. \A i, j \in rows : <<i, j>> \in Turns(rows) <=> InTurn(i, j, rows)
  BY DEF Turns
<1>4. \A i \in rows : i \in Nat /\ Rank(i, rows) \in Nat
  BY <1>1, RanksAreNumbers
<1>5. /\ \A i \in rows : ~InTurn(i, i, rows)
      /\ \A i, j \in rows : i # j => InTurn(i, j, rows) \/ InTurn(j, i, rows)
      /\ \A i, j, k \in rows :
           InTurn(i, j, rows) /\ InTurn(j, k, rows) => InTurn(i, k, rows)
  BY <1>4 DEF InTurn
<1> QED
  BY <1>2, <1>3, <1>5 DEF StrictOrder

\* A pass works off all it holds, each row once.
LEMMA OrderIs ==
  ASSUME NEW rows \in SUBSET Numbers
  PROVE  /\ Cardinality(rows) \in Nat
         /\ Order(rows) \in [1..Cardinality(rows) -> rows]
         /\ \A m, n \in 1..Cardinality(rows) : m # n => Order(rows)[m] # Order(rows)[n]
         /\ \A i \in rows : \E k \in 1..Cardinality(rows) : Order(rows)[k] = i
<1> DEFINE N == Cardinality(rows)
           Fits(s) == \A m, n \in DOMAIN s : m < n => InTurn(s[m], s[n], rows)
<1>1. /\ IsFiniteSet(rows) /\ N \in Nat
      /\ StrictOrder(Turns(rows), rows)
      /\ \A i, j \in rows : <<i, j>> \in Turns(rows) <=> InTurn(i, j, rows)
  BY TurnsAreStrict, FS_CardinalityType
<1>2. PICK s \in [1..N -> rows] :
        \A m, n \in 1..N : m < n => <<s[m], s[n]>> \in Turns(rows)
  BY <1>1, Sorted
<1>3. Fits(s)
  BY <1>1, <1>2
<1>4. Order(rows) \in [1..N -> rows] /\ Fits(Order(rows))
  BY <1>2, <1>3 DEF Order
<1>5. \A i \in rows : ~InTurn(i, i, rows)
  BY <1>1 DEF StrictOrder
<1>6. ASSUME NEW m \in 1..N, NEW n \in 1..N, m # n
      PROVE  Order(rows)[m] # Order(rows)[n]
  <2>1. m < n \/ n < m
    BY <1>1, <1>6
  <2> QED
    BY <1>4, <1>5, <2>1
<1>7. Order(rows) \in Injection(1..N, rows)
  BY <1>4, <1>6 DEF Injection, IsInjective
<1>8. Cardinality(1..N) = N
  BY <1>1, FS_Interval
<1>9. Order(rows) \in Surjection(1..N, rows)
  BY <1>1, <1>7, <1>8, FS_Injection
<1>10. \A i \in rows : \E k \in 1..N : Order(rows)[k] = i
  BY <1>9 DEF Surjection
<1> QED
  BY <1>1, <1>4, <1>6, <1>10

\* A batch has room for the oldest row of every tenant.
AllFit == Cardinality(Tenants) <= Batch

\* A pick is a batch, and if they all fit it has a row of every tenant that has one:
\* the oldest of each come before all others, and there are no more of them than
\* tenants.
LEMMA ChosenIs ==
  ASSUME NEW rows \in SUBSET Numbers, \A i \in rows : line[i] \in Tenants
  PROVE  /\ Chosen(rows) \in SUBSET rows
         /\ IsFiniteSet(Chosen(rows)) /\ Cardinality(Chosen(rows)) <= Batch
         /\ AllFit => \A t \in Tenants : (\E i \in rows : line[i] = t) =>
                        \E i \in Chosen(rows) : line[i] = t
<1> DEFINE R == Turns(rows)
<1>1. /\ IsFiniteSet(rows) /\ StrictOrder(R, rows) /\ rows \subseteq Nat
      /\ \A i, j \in rows : <<i, j>> \in R <=> InTurn(i, j, rows)
  BY TurnsAreStrict, TenantsAssumption DEF Numbers, TenantsAssumption
<1>2. /\ IsFiniteSet(Tenants) /\ Cardinality(Tenants) \in Nat
      /\ Batch \in Nat
  BY TenantsAssumption, FS_CardinalityType DEF TenantsAssumption
<1>3. \A i \in rows : {j \in rows : InTurn(j, i, rows)} = Preceding(i, R, rows)
  BY <1>1 DEF Preceding
<1>4. \A i \in rows : i \in Chosen(rows) <=> Cardinality(Preceding(i, R, rows)) < Batch
  BY <1>3 DEF Chosen
<1>5. Chosen(rows) \in SUBSET rows
  BY DEF Chosen
<1>6. IsFiniteSet(Chosen(rows)) /\ Cardinality(Chosen(rows)) <= Batch
  <2> DEFINE place == [i \in Chosen(rows) |-> Cardinality(Preceding(i, R, rows))]
  <2>1. place \in [Chosen(rows) -> 0..(Batch - 1)]
    <3>1. ASSUME NEW i \in Chosen(rows)
          PROVE  Cardinality(Preceding(i, R, rows)) \in 0..(Batch - 1)
      <4>1. Cardinality(Preceding(i, R, rows)) \in Nat
        BY <1>1, <1>5, PlacesDiffer
      <4>2. Cardinality(Preceding(i, R, rows)) < Batch
        BY <1>4, <1>5
      <4> QED
        BY <1>2, <4>1, <4>2
    <3> QED
      BY <3>1
  <2>2. \A i, j \in Chosen(rows) : place[i] = place[j] => i = j
    BY <1>1, <1>5, PlacesDiffer
  <2>3. place \in Injection(Chosen(rows), 0..(Batch - 1))
    BY <2>1, <2>2 DEF Injection, IsInjective
  <2>4. IsFiniteSet(0..(Batch - 1)) /\ Cardinality(0..(Batch - 1)) = Batch
    <3>1. 0 \in Int /\ Batch - 1 \in Int
      BY <1>2
    <3>2. /\ IsFiniteSet(0..(Batch - 1))
          /\ Cardinality(0..(Batch - 1)) =
               IF 0 > Batch - 1 THEN 0 ELSE (Batch - 1) - 0 + 1
      BY <3>1, FS_Interval
    <3> QED
      BY <1>2, <3>2
  <2> HIDE DEF place
  <2> QED
    BY <2>3, <2>4, FS_Injection
<1>7. ASSUME AllFit, NEW t \in Tenants, NEW k \in rows, line[k] = t
      PROVE  \E i \in Chosen(rows) : line[i] = t
  <2> DEFINE own == {i \in rows : line[i] = t}
  <2>1. own \in SUBSET Nat /\ IsFiniteSet(own) /\ own # {}
    <3>1. own \in SUBSET rows
      OBVIOUS
    <3>2. IsFiniteSet(own)
      BY <1>1, <3>1, FS_Subset
    <3> QED
      BY <1>1, <1>7, <3>2
  <2>2. PICK i \in own : \A j \in own : i <= j
    BY <2>1, LeastOf
  <2>3. i \in rows /\ line[i] = t
    OBVIOUS
  <2>4. Rank(i, rows) = 0
    <3>1. ASSUME NEW j \in rows, line[j] = line[i], j < i PROVE FALSE
      <4>1. i <= j
        BY <2>2, <2>3, <3>1
      <4> QED
        BY <1>1, <2>3, <3>1, <4>1
    <3>2. {j \in rows : line[j] = line[i] /\ j < i} = {}
      BY <3>1
    <3> QED
      BY <3>2, FS_EmptySet DEF Rank
  <2> DEFINE before == Preceding(i, R, rows)
  <2>5. ASSUME NEW j \in before
        PROVE  j \in rows /\ Rank(j, rows) = 0 /\ j < i
    <3>1. j \in rows /\ InTurn(j, i, rows)
      BY <1>1, <2>3 DEF Preceding
    <3>2. Rank(j, rows) \in Nat
      BY RanksAreNumbers
    <3> QED
      BY <2>4, <3>1, <3>2 DEF InTurn
  <2>6. \A j \in before : line[j] \in Tenants \ {t}
    <3> SUFFICES ASSUME NEW j \in before PROVE line[j] \in Tenants \ {t}
      OBVIOUS
    <3>1. j \in rows /\ j < i
      BY <2>5
    <3>2. j \notin own
      BY <1>1, <2>2, <3>1
    <3> QED
      BY <3>1, <3>2
  <2>7. ASSUME NEW j \in before, NEW m \in before, line[j] = line[m] PROVE j = m
    <3>1. ASSUME NEW x \in before, NEW y \in before, line[x] = line[y], x < y
          PROVE  FALSE
      <4>1. x \in rows /\ y \in rows /\ Rank(y, rows) = 0
        BY <2>5
      <4> DEFINE older == {z \in rows : line[z] = line[y] /\ z < y}
      <4>2. x \in older
        BY <3>1, <4>1
      <4>3. older \in SUBSET rows
        OBVIOUS
      <4>4. IsFiniteSet(older)
        BY <1>1, <4>3, FS_Subset
      <4>5. Cardinality(older) # 0
        BY <4>2, <4>4, FS_EmptySet
      <4> QED
        BY <4>1, <4>5 DEF Rank
    <3>2. j \in Nat /\ m \in Nat
      BY <1>1, <2>5
    <3>3. ~(j < m) /\ ~(m < j)
      BY <2>7, <3>1
    <3> QED
      BY <3>2, <3>3
  <2> DEFINE whose == [j \in before |-> line[j]]
  <2>8. whose \in Injection(before, Tenants \ {t})
    BY <2>6, <2>7 DEF Injection, IsInjective
  <2>9. /\ IsFiniteSet(Tenants \ {t})
        /\ Cardinality(Tenants \ {t}) = Cardinality(Tenants) - 1
    BY <1>2, FS_RemoveElement
  <2> HIDE DEF before, whose
  <2>10. Cardinality(before) <= Cardinality(Tenants \ {t})
    BY <2>8, <2>9, FS_Injection
  <2>11. Cardinality(before) \in Nat
    BY <1>1, <2>3, PlacesDiffer DEF before
  <2>12. Cardinality(before) < Batch
    BY <1>2, <1>7, <2>9, <2>10, <2>11 DEF AllFit
  <2>13. i \in Chosen(rows)
    BY <1>4, <2>3, <2>12 DEF before
  <2> QED
    BY <2>3, <2>13
<1> QED
  BY <1>5, <1>6, <1>7

-----------------------------------------------------------------------------
(* The invariant *)

LineOK ==
  /\ line \in Seq(Tenants) /\ Len(line) <= MaxRows
  /\ keeper \in [Numbers -> Dispatchers \cup {NoClaim}]
  /\ gone \in SUBSET Numbers
  /\ stage \in [Dispatchers -> {"idle", "claim", "list", "work"}]
  /\ choice \in [Dispatchers -> SUBSET Numbers]
  /\ queue \in [Dispatchers -> Seq(Numbers)]
  /\ waited \in [Tenants -> Nat]
  /\ losses \in 0..MaxLosses

\* A worker in its loop has before it what it holds, each row once.
PassOK(w) ==
  /\ stage[w] # "claim" => choice[w] = {}
  /\ stage[w] = "work" =>
       /\ queue[w] # <<>>
       /\ Kept(w) = {queue[w][k] : k \in 1..Len(queue[w])}
       /\ \A m, n \in 1..Len(queue[w]) : m # n => queue[w][m] # queue[w][n]

Limit == (Cardinality(Dispatchers) + MaxLosses - losses) * Batch

\* What a worker holds, or is about to claim.
Load(w) == Cardinality(Kept(w)) + Cardinality(choice[w])

\* A worker's share of the limit: a batch, and one for each pass that it left with
\* its claims standing.  An idle one has room for another batch.
Allowed(b) ==
  /\ b \in [Dispatchers -> Nat] /\ Sum(b) = Limit
  /\ \A w \in Dispatchers :
       /\ Batch <= b[w]
       /\ Load(w) + (IF stage[w] = "idle" THEN Batch ELSE 0) <= b[w]

\* What a worker may start before t has a claim: all that it has in hand, unless
\* it is about to claim a row of t.
Ahead(w, t) ==
  IF stage[w] = "idle" \/ (stage[w] = "claim" /\ \E i \in choice[w] \cap Free : line[i] = t)
    THEN 0 ELSE Load(w)

Counted(t, a) ==
  /\ a \in [Dispatchers -> Nat] /\ waited[t] + Sum(a) <= Limit
  /\ \A w \in Dispatchers : Ahead(w, t) <= a[w]

Turn(t) == waited[t] = 0 \/ (Waits(t) /\ \E a \in [Dispatchers -> Nat] : Counted(t, a))

TenantsInv ==
  /\ LineOK
  /\ \A w \in Dispatchers : PassOK(w)
  /\ \E b \in [Dispatchers -> Nat] : Allowed(b)
  /\ AllFit => \A t \in Tenants : Turn(t)

LEMMA TenantsConstants ==
  /\ IsFiniteSet(Dispatchers) /\ Cardinality(Dispatchers) \in Nat
  /\ NoClaim \notin Dispatchers /\ MaxRows \in Nat /\ MaxLosses \in Nat /\ Batch \in Nat
  /\ Numbers = 1..MaxRows /\ IsFiniteSet(Numbers)
<1>1. IsFiniteSet(1..MaxRows)
  BY TenantsAssumption, FS_Interval DEF TenantsAssumption
<1> QED
  BY <1>1, TenantsAssumption, FS_CardinalityType DEF TenantsAssumption, Numbers

LEMMA ReadyIs ==
  ASSUME LineOK
  PROVE  /\ Free \in SUBSET Numbers
         /\ \A i \in Free : line[i] \in Tenants /\ keeper[i] = NoClaim /\ i \notin gone
<1>1. Len(line) \in Nat /\ Len(line) <= MaxRows
  BY DEF LineOK
<1> QED
  BY <1>1, TenantsConstants DEF LineOK, Free

LEMMA LoadParts ==
  ASSUME LineOK, NEW w \in Dispatchers
  PROVE  /\ IsFiniteSet(Kept(w)) /\ Cardinality(Kept(w)) \in Nat
         /\ IsFiniteSet(choice[w]) /\ Cardinality(choice[w]) \in Nat
         /\ Load(w) \in Nat
<1>1. Kept(w) \in SUBSET Numbers /\ choice[w] \in SUBSET Numbers
  BY DEF LineOK, Kept
<1>2. IsFiniteSet(Kept(w)) /\ IsFiniteSet(choice[w])
  BY <1>1, TenantsConstants, FS_Subset
<1>3. Cardinality(Kept(w)) \in Nat /\ Cardinality(choice[w]) \in Nat
  BY <1>2, FS_CardinalityType
<1> QED
  BY <1>2, <1>3 DEF Load

LEMMA LoadPrimed ==
  ASSUME LineOK', NEW w \in Dispatchers
  PROVE  Load(w)' \in Nat
<1>1. Kept(w)' \in SUBSET Numbers /\ choice'[w] \in SUBSET Numbers
  BY DEF LineOK, Kept
<1>2. IsFiniteSet(Kept(w)') /\ IsFiniteSet(choice'[w])
  BY <1>1, TenantsConstants, FS_Subset
<1>3. Cardinality(Kept(w)') \in Nat /\ Cardinality(choice'[w]) \in Nat
  BY <1>2, FS_CardinalityType
<1> QED
  BY <1>3 DEF Load

LEMMA LimitParts ==
  ASSUME LineOK
  PROVE  /\ losses \in Nat /\ losses <= MaxLosses
         /\ Limit \in Nat
<1> DEFINE n == Cardinality(Dispatchers) + MaxLosses - losses
<1>1. losses \in Nat /\ losses <= MaxLosses
  BY TenantsConstants DEF LineOK
<1>2. n \in Nat /\ Batch \in Nat
  BY <1>1, TenantsConstants
<1> HIDE DEF n
<1>3. n * Batch \in Nat
  BY <1>2
<1> QED
  BY <1>1, <1>3 DEF Limit, n

LEMMA TenantsInvInit == LineInit => TenantsInv
<1> SUFFICES ASSUME LineInit PROVE TenantsInv
  OBVIOUS
<1>1. LineOK
  BY TenantsConstants DEF LineInit, LineOK
<1>2. \A w \in Dispatchers : PassOK(w)
  BY DEF LineInit, PassOK
<1> DEFINE b == [w \in Dispatchers |-> Batch]
<1>3. b \in [Dispatchers -> Nat]
  BY TenantsConstants
<1>4. Sum(b) = Limit
  <2>1. Cardinality(Dispatchers) + MaxLosses - losses = Cardinality(Dispatchers)
    BY TenantsConstants DEF LineInit
  <2> QED
    BY <2>1, SumOfBatches DEF Limit
<1>5. ASSUME NEW w \in Dispatchers
      PROVE  Batch <= b[w] /\ Load(w) + (IF stage[w] = "idle" THEN Batch ELSE 0) <= b[w]
  <2>1. Kept(w) = {} /\ choice[w] = {} /\ stage[w] = "idle"
    BY TenantsConstants DEF LineInit, Kept
  <2>2. Load(w) = 0
    BY <2>1, FS_EmptySet DEF Load
  <2> QED
    BY <2>1, <2>2, TenantsConstants
<1>6. Allowed(b)
  BY <1>3, <1>4, <1>5 DEF Allowed
<1>7. \A t \in Tenants : Turn(t)
  BY DEF LineInit, Turn
<1> QED
  BY <1>1, <1>2, <1>3, <1>6, <1>7 DEF TenantsInv

-----------------------------------------------------------------------------
(* Steps *)

LEMMA LineStep ==
  ASSUME TenantsInv, LineNext
  PROVE  LineOK'
<1> USE DEF StageIs, turnVars
<1>0. LineOK
  BY DEF TenantsInv
<1>1. ASSUME NEW t \in Tenants, Add(t) PROVE LineOK'
  <2>1. line' \in Seq(Tenants) /\ Len(line') <= MaxRows
    BY <1>0, <1>1, TenantsConstants DEF Add, LineOK
  <2> QED
    BY <1>0, <1>1, <2>1 DEF Add, LineOK
<1>2. ASSUME NEW w \in Dispatchers, PickBatch(w) PROVE LineOK'
  <2>1. Chosen(Free) \in SUBSET Numbers
    BY <1>0, ReadyIs DEF Chosen
  <2>2. /\ choice' \in [Dispatchers -> SUBSET Numbers]
        /\ stage' \in [Dispatchers -> {"idle", "claim", "list", "work"}]
    BY <1>0, <1>2, <2>1 DEF PickBatch, LineOK
  <2> QED
    BY <1>0, <1>2, <2>2 DEF PickBatch, LineOK
<1>3. ASSUME NEW w \in Dispatchers, ClaimBatch(w) PROVE LineOK'
  <2>1. waited' \in [Tenants -> Nat]
    BY <1>0, <1>3 DEF ClaimBatch, LineOK
  <2>2. keeper' \in [Numbers -> Dispatchers \cup {NoClaim}]
    BY <1>0, <1>3 DEF ClaimBatch, LineOK
  <2> QED
    BY <1>0, <1>3, <2>1, <2>2 DEF ClaimBatch, LineOK
<1>4. ASSUME NEW w \in Dispatchers, ListBatch(w) PROVE LineOK'
  <2>1. Kept(w) \in SUBSET Numbers
    BY DEF Kept
  <2>2. Order(Kept(w)) \in Seq(Numbers)
    BY <2>1, OrderIs
  <2>3. queue' \in [Dispatchers -> Seq(Numbers)]
    BY <1>0, <1>4, <2>2 DEF ListBatch, LineOK
  <2>4. stage' \in [Dispatchers -> {"idle", "claim", "list", "work"}]
    BY <1>0, <1>4 DEF ListBatch, LineOK
  <2> QED
    BY <1>0, <1>4, <2>3, <2>4 DEF ListBatch, LineOK
<1>5. ASSUME NEW w \in Dispatchers, StartNext(w) PROVE LineOK'
  <2>1. queue[w] \in Seq(Numbers) /\ queue[w] # <<>>
    BY <1>0, <1>5 DEF StartNext, TenantsInv, PassOK, LineOK
  <2>2. Head(queue[w]) \in Numbers /\ Tail(queue[w]) \in Seq(Numbers)
    BY <2>1
  <2>3. waited' \in [Tenants -> Nat]
    BY <1>0, <1>5 DEF StartNext, LineOK
  <2>4. /\ gone' \in SUBSET Numbers /\ queue' \in [Dispatchers -> Seq(Numbers)]
        /\ stage' \in [Dispatchers -> {"idle", "claim", "list", "work"}]
    BY <1>0, <1>5, <2>2 DEF StartNext, LineOK
  <2> QED
    BY <1>0, <1>5, <2>3, <2>4 DEF StartNext, LineOK
<1>6. ASSUME NEW w \in Dispatchers, WorkerDies(w) PROVE LineOK'
  <2>1. <<>> \in Seq(Numbers) /\ {} \in SUBSET Numbers
    OBVIOUS
  <2>2. losses' \in 0..MaxLosses
    BY <1>0, <1>6, TenantsConstants DEF WorkerDies, LineOK
  <2> QED
    BY <1>0, <1>6, <2>1, <2>2 DEF WorkerDies, LineOK
<1>7. ASSUME NEW i \in Numbers, ClaimLapses(i) PROVE LineOK'
  BY <1>0, <1>7 DEF ClaimLapses, LineOK
<1> QED
  BY <1>1, <1>2, <1>3, <1>4, <1>5, <1>6, <1>7 DEF LineNext, DispatchTurn

\* Whoever makes a step, this is what a worker has in hand after it.
LEMMA HeldClaim ==
  ASSUME LineOK, NEW w \in Dispatchers, ClaimBatch(w), NEW v \in Dispatchers
  PROVE  Kept(v)' = IF v = w THEN Kept(v) \cup (choice[w] \cap Free) ELSE Kept(v)
<1>1. \A i \in Numbers : keeper'[i] = IF i \in choice[w] \cap Free THEN w ELSE keeper[i]
  BY DEF ClaimBatch
<1>2. \A i \in choice[w] \cap Free : i \in Numbers /\ keeper[i] = NoClaim /\ i \notin gone
  BY ReadyIs
<1>3. gone' = gone /\ v # NoClaim
  BY TenantsConstants DEF ClaimBatch
<1> QED
  BY <1>1, <1>2, <1>3 DEF Kept

LEMMA StartParts ==
  ASSUME TenantsInv, NEW w \in Dispatchers, StartNext(w)
  PROVE  /\ queue[w] \in Seq(Numbers) /\ queue[w] # <<>>
         /\ Head(queue[w]) \in Kept(w)
         /\ queue' = [queue EXCEPT ![w] = Tail(queue[w])]
         /\ gone' = gone \cup {Head(queue[w])}
         /\ stage[w] = "work"
         /\ stage' = [stage EXCEPT ![w] = IF Len(queue[w]) = 1 THEN "idle" ELSE "work"]
         /\ UNCHANGED <<line, keeper, choice, losses>>
<1>1. /\ queue' = [queue EXCEPT ![w] = Tail(queue[w])]
      /\ gone' = gone \cup {Head(queue[w])}
      /\ stage[w] = "work"
      /\ stage' = [stage EXCEPT ![w] = IF Len(queue[w]) = 1 THEN "idle" ELSE "work"]
      /\ UNCHANGED <<line, keeper, choice, losses>>
  BY DEF StartNext, StageIs
<1>2. LineOK /\ PassOK(w)
  BY DEF TenantsInv
<1>3. /\ queue[w] \in Seq(Numbers) /\ queue[w] # <<>>
      /\ Kept(w) = {queue[w][k] : k \in 1..Len(queue[w])}
  BY <1>1, <1>2 DEF LineOK, PassOK
<1>4. 1 \in 1..Len(queue[w]) /\ Head(queue[w]) = queue[w][1]
  BY <1>3
<1> QED
  BY <1>1, <1>3, <1>4

LEMMA HeldStart ==
  ASSUME TenantsInv, NEW w \in Dispatchers, StartNext(w), NEW v \in Dispatchers
  PROVE  Kept(v)' = IF v = w THEN Kept(v) \ {Head(queue[w])} ELSE Kept(v)
BY StartParts DEF Kept

LEMMA HeldExpires ==
  ASSUME LineOK, NEW i \in Numbers, ClaimLapses(i), NEW v \in Dispatchers
  PROVE  Kept(v)' = Kept(v) \ {i} /\ (keeper[i] # v => Kept(v)' = Kept(v))
<1>1. /\ keeper' = [keeper EXCEPT ![i] = NoClaim] /\ gone' = gone
      /\ v # NoClaim /\ keeper \in [Numbers -> Dispatchers \cup {NoClaim}]
  BY TenantsConstants DEF ClaimLapses, LineOK
<1> QED
  BY <1>1 DEF Kept

LEMMA HeldSame ==
  ASSUME UNCHANGED <<keeper, gone>>, NEW v
  PROVE  Kept(v)' = Kept(v)
BY DEF Kept

LEMMA PassStep ==
  ASSUME TenantsInv, LineNext, NEW v \in Dispatchers
  PROVE  PassOK(v)'
<1> USE DEF StageIs, turnVars
<1>0. LineOK /\ PassOK(v)
  BY DEF TenantsInv
<1>1. ASSUME NEW t \in Tenants, Add(t) PROVE PassOK(v)'
  <2>1. UNCHANGED <<keeper, gone, turnVars>>
    BY <1>1 DEF Add
  <2> QED
    BY <1>0, <2>1, HeldSame DEF PassOK
<1>2. ASSUME NEW w \in Dispatchers, PickBatch(w) PROVE PassOK(v)'
  <2>1. UNCHANGED <<keeper, gone, queue>>
    BY <1>2 DEF PickBatch
  <2>2. v # w => stage'[v] = stage[v] /\ choice'[v] = choice[v]
    BY <1>0, <1>2 DEF PickBatch, LineOK
  <2>3. v = w => stage'[v] \in {"claim", "list"} /\ choice'[v] = Chosen(Free)
    BY <1>0, <1>2 DEF PickBatch, LineOK
  <2>4. Free = {} => Chosen(Free) = {}
    BY DEF Chosen
  <2>5. v = w /\ stage'[v] = "list" => Free = {}
    BY <1>0, <1>2 DEF PickBatch, LineOK
  <2> QED
    BY <1>0, <2>1, <2>2, <2>3, <2>4, <2>5, HeldSame DEF PassOK
<1>3. ASSUME NEW w \in Dispatchers, ClaimBatch(w) PROVE PassOK(v)'
  <2>1. UNCHANGED queue
    BY <1>3 DEF ClaimBatch
  <2>2. v # w => stage'[v] = stage[v] /\ choice'[v] = choice[v] /\ Kept(v)' = Kept(v)
    BY <1>0, <1>3, HeldClaim DEF ClaimBatch, LineOK
  <2>3. v = w => stage'[v] = "list" /\ choice'[v] = {}
    BY <1>0, <1>3 DEF ClaimBatch, LineOK
  <2> QED
    BY <1>0, <2>1, <2>2, <2>3 DEF PassOK
<1>4. ASSUME NEW w \in Dispatchers, ListBatch(w) PROVE PassOK(v)'
  <2>1. UNCHANGED <<keeper, gone, choice>>
    BY <1>4 DEF ListBatch
  <2>2. Kept(v)' = Kept(v)
    BY <2>1, HeldSame
  <2>3. CASE v # w
    <3>1. stage'[v] = stage[v] /\ queue'[v] = queue[v]
      BY <1>0, <1>4, <2>3 DEF ListBatch, LineOK
    <3> QED
      BY <1>0, <2>1, <2>2, <3>1 DEF PassOK
  <2>4. CASE v = w
    <3>1. /\ stage'[v] = IF Kept(v) = {} THEN "idle" ELSE "work"
          /\ queue'[v] = Order(Kept(v)) /\ stage[v] = "list"
      BY <1>0, <1>4, <2>4 DEF ListBatch, LineOK
    <3> DEFINE rows == Kept(v)
               s == Order(rows)
               N == Cardinality(rows)
    <3>2. rows \in SUBSET Numbers
      BY DEF Kept
    <3>3. /\ N \in Nat /\ s \in [1..N -> rows]
          /\ \A m, n \in 1..N : m # n => s[m] # s[n]
          /\ \A i \in rows : \E k \in 1..N : s[k] = i
      BY <3>2, OrderIs
    <3> HIDE DEF rows, s, N
    <3>4. s \in Seq(rows) /\ Len(s) = N
      BY <3>3
    <3>5. rows = {s[k] : k \in 1..Len(s)}
      BY <3>3, <3>4
    <3>6. rows # {} => s # <<>>
      <4> SUFFICES ASSUME NEW i \in rows, s = <<>> PROVE FALSE
        OBVIOUS
      <4>1. Len(s) = 0
        OBVIOUS
      <4> QED
        BY <3>3, <3>4, <4>1
    <3> QED
      BY <1>0, <2>1, <2>2, <3>1, <3>3, <3>4, <3>5, <3>6 DEF PassOK, rows, s
  <2> QED
    BY <2>3, <2>4
<1>5. ASSUME NEW w \in Dispatchers, StartNext(w) PROVE PassOK(v)'
  <2>1. choice' = choice
    BY <1>5, StartParts
  <2>2. CASE v # w
    <3>1. stage'[v] = stage[v] /\ queue'[v] = queue[v]
      BY <1>0, <1>5, <2>2, StartParts DEF LineOK
    <3>2. Kept(v)' = Kept(v)
      BY <1>5, <2>2, HeldStart
    <3> QED
      BY <1>0, <2>1, <3>1, <3>2 DEF PassOK
  <2>3. CASE v = w
    <3> DEFINE s == queue[w]
    <3>1. /\ s \in Seq(Numbers) /\ s # <<>>
          /\ queue'[v] = Tail(s) /\ stage[v] = "work"
          /\ stage'[v] = IF Len(s) = 1 THEN "idle" ELSE "work"
      BY <1>0, <1>5, <2>3, StartParts DEF LineOK
    <3>2. Kept(v)' = Kept(v) \ {Head(s)}
      BY <1>5, <2>3, HeldStart
    <3>3. /\ Kept(v) = {s[k] : k \in 1..Len(s)}
          /\ \A m, n \in 1..Len(s) : m # n => s[m] # s[n]
      BY <1>0, <2>3, <3>1 DEF PassOK
    <3> HIDE DEF s
    <3>4. /\ Len(s) \in Nat /\ Len(s) >= 1 /\ Head(s) = s[1]
          /\ Tail(s) \in Seq(Numbers) /\ Len(Tail(s)) = Len(s) - 1
          /\ \A k \in 1..Len(Tail(s)) : Tail(s)[k] = s[k + 1]
      BY <3>1
    <3>5. \A m, n \in 1..Len(Tail(s)) : m # n => Tail(s)[m] # Tail(s)[n]
      <4> SUFFICES ASSUME NEW m \in 1..Len(Tail(s)), NEW n \in 1..Len(Tail(s)), m # n
                   PROVE  Tail(s)[m] # Tail(s)[n]
        OBVIOUS
      <4>1. m + 1 \in 1..Len(s) /\ n + 1 \in 1..Len(s) /\ m + 1 # n + 1
        BY <3>4
      <4> QED
        BY <3>3, <3>4, <4>1
    <3>6. Kept(v)' = {Tail(s)[k] : k \in 1..Len(Tail(s))}
      <4>1. ASSUME NEW k \in 1..Len(Tail(s))
            PROVE  Tail(s)[k] \in Kept(v)'
        <5>1. k + 1 \in 1..Len(s) /\ 1 \in 1..Len(s) /\ k + 1 # 1
          BY <3>4
        <5>2. s[k + 1] \in Kept(v) /\ s[k + 1] # s[1]
          BY <3>3, <5>1
        <5> QED
          BY <3>2, <3>4, <5>2
      <4>2. ASSUME NEW i \in Kept(v)'
            PROVE  \E k \in 1..Len(Tail(s)) : Tail(s)[k] = i
        <5>1. i \in Kept(v) /\ i # s[1]
          BY <3>2, <3>4, <4>2
        <5>2. PICK n \in 1..Len(s) : s[n] = i
          BY <3>3, <5>1
        <5>3. n # 1
          BY <5>1, <5>2
        <5>4. n - 1 \in 1..Len(Tail(s)) /\ (n - 1) + 1 = n
          BY <3>4, <5>3
        <5>5. Tail(s)[n - 1] = i
          BY <3>4, <5>2, <5>4
        <5> QED
          BY <5>4, <5>5
      <4> QED
        BY <4>1, <4>2
    <3>7. Len(s) # 1 => Tail(s) # <<>>
      <4>1. Len(<<>>) = 0
        OBVIOUS
      <4>2. Len(s) # 1 => Len(Tail(s)) # 0
        BY <3>4
      <4> QED
        BY <4>1, <4>2
    <3>8. choice'[v] = {}
      BY <1>0, <2>1, <3>1 DEF PassOK
    <3>9. stage'[v] = "work" => Tail(s) # <<>>
      BY <3>1, <3>7
    <3> QED
      BY <3>1, <3>5, <3>6, <3>8, <3>9 DEF PassOK
  <2> QED
    BY <2>2, <2>3
<1>6. ASSUME NEW w \in Dispatchers, WorkerDies(w) PROVE PassOK(v)'
  <2>1. UNCHANGED <<keeper, gone>>
    BY <1>6 DEF WorkerDies
  <2>2. v # w => stage'[v] = stage[v] /\ choice'[v] = choice[v] /\ queue'[v] = queue[v]
    BY <1>0, <1>6 DEF WorkerDies, LineOK
  <2>3. v = w => stage'[v] = "idle" /\ choice'[v] = {}
    BY <1>0, <1>6 DEF WorkerDies, LineOK
  <2> QED
    BY <1>0, <2>1, <2>2, <2>3, HeldSame DEF PassOK
<1>7. ASSUME NEW i \in Numbers, ClaimLapses(i) PROVE PassOK(v)'
  <2>1. UNCHANGED turnVars
    BY <1>7 DEF ClaimLapses
  <2>2. stage[v] = "work" => Kept(v)' = Kept(v)
    BY <1>0, <1>7, HeldExpires DEF ClaimLapses
  <2> QED
    BY <1>0, <2>1, <2>2 DEF PassOK
<1> QED
  BY <1>1, <1>2, <1>3, <1>4, <1>5, <1>6, <1>7 DEF LineNext, DispatchTurn

\* What a step does to a worker, unless it begins or breaks off its pass: its load
\* shrinks, it goes idle with nothing in hand, and it gets to the loop past a claim
\* of all that is free of its pick.
Onward(v) ==
  /\ Load(v)' <= Load(v)
  /\ stage'[v] = "idle" => stage[v] = "idle" \/ Load(v)' = 0
  /\ \/ stage'[v] = stage[v] /\ choice'[v] = choice[v]
     \/ stage'[v] = "idle"
     \/ stage[v] = "claim" /\ stage'[v] = "list" /\ choice[v] \cap Free \cap Free' = {}
     \/ stage[v] = "list" /\ stage'[v] = "work"

LEMMA OnwardSame ==
  ASSUME LineOK, LineOK', NEW v \in Dispatchers, Kept(v)' \in SUBSET Kept(v),
         stage'[v] = stage[v], choice'[v] = choice[v]
  PROVE  Onward(v)
<1>1. IsFiniteSet(Kept(v)) /\ Cardinality(Kept(v)) \in Nat /\ Cardinality(choice[v]) \in Nat
  BY LoadParts
<1>2. Cardinality(Kept(v)') <= Cardinality(Kept(v))
  BY <1>1, FS_Subset
<1>3. Cardinality(Kept(v)') \in Nat
  BY <1>1, FS_Subset, FS_CardinalityType
<1>4. Load(v)' <= Load(v)
  BY <1>1, <1>2, <1>3 DEF Load
<1> QED
  BY <1>4 DEF Onward

LEMMA OnwardClaim ==
  ASSUME TenantsInv, LineOK', NEW w \in Dispatchers, ClaimBatch(w), NEW v \in Dispatchers
  PROVE  Onward(v)
<1>0. LineOK
  BY DEF TenantsInv
<1>1. CASE v # w
  <2>1. stage'[v] = stage[v] /\ choice'[v] = choice[v] /\ Kept(v)' = Kept(v)
    BY <1>0, <1>1, HeldClaim DEF ClaimBatch, StageIs, LineOK
  <2> QED
    BY <1>0, <2>1, OnwardSame
<1>2. CASE v = w
  <2>1. /\ stage[v] = "claim" /\ stage'[v] = "list" /\ choice'[v] = {}
        /\ Kept(v)' = Kept(v) \cup (choice[v] \cap Free)
    BY <1>0, <1>2, HeldClaim DEF ClaimBatch, StageIs, LineOK
  <2>2. /\ IsFiniteSet(Kept(v)) /\ Cardinality(Kept(v)) \in Nat
        /\ IsFiniteSet(choice[v]) /\ Cardinality(choice[v]) \in Nat
    BY <1>0, LoadParts
  <2> DEFINE won == choice[v] \cap Free
  <2>3. /\ IsFiniteSet(won) /\ Cardinality(won) <= Cardinality(choice[v])
        /\ Cardinality(won) \in Nat
    <3>1. won \in SUBSET choice[v]
      OBVIOUS
    <3>2. IsFiniteSet(won) /\ Cardinality(won) <= Cardinality(choice[v])
      BY <2>2, <3>1, FS_Subset
    <3> QED
      BY <3>2, FS_CardinalityType
  <2> HIDE DEF won
  <2>4. Cardinality(Kept(v) \cap won) \in Nat
    BY <2>2, FS_Intersection, FS_CardinalityType
  <2>5. Cardinality(Kept(v) \cup won)
          = Cardinality(Kept(v)) + Cardinality(won) - Cardinality(Kept(v) \cap won)
    BY <2>2, <2>3, FS_Union
  <2>6. Cardinality({}) = 0
    BY FS_EmptySet
  <2>7. Load(v)' = Cardinality(Kept(v) \cup won) + 0
    BY <2>1, <2>6 DEF Load, won
  <2>8. Load(v)' <= Load(v)
    BY <2>2, <2>3, <2>4, <2>5, <2>7 DEF Load
  <2>9. choice[v] \cap Free \cap Free' = {}
    <3>1. \A i \in choice[v] \cap Free : i \in Numbers /\ keeper'[i] = w
      BY <1>0, <1>2, ReadyIs DEF ClaimBatch
    <3>2. \A i \in Free' : keeper'[i] = NoClaim
      BY DEF Free
    <3> QED
      BY <3>1, <3>2, TenantsConstants
  <2> QED
    BY <2>1, <2>8, <2>9 DEF Onward
<1> QED
  BY <1>1, <1>2

LEMMA OnwardStart ==
  ASSUME TenantsInv, LineOK', NEW w \in Dispatchers, StartNext(w), NEW v \in Dispatchers
  PROVE  Onward(v) /\ (v = w => Load(v)' + 1 <= Load(v))
<1>0. LineOK /\ PassOK(w)
  BY DEF TenantsInv
<1>1. CASE v # w
  <2>1. stage'[v] = stage[v] /\ choice'[v] = choice[v] /\ Kept(v)' = Kept(v)
    BY <1>0, <1>1, HeldStart, StartParts DEF LineOK
  <2> QED
    BY <1>0, <1>1, <2>1, OnwardSame
<1>2. CASE v = w
  <2> DEFINE s == queue[v]
  <2>1. /\ s \in Seq(Numbers) /\ s # <<>> /\ Head(s) \in Kept(v) /\ stage[v] = "work"
        /\ choice'[v] = choice[v]
        /\ stage'[v] = IF Len(s) = 1 THEN "idle" ELSE "work"
        /\ Kept(v)' = Kept(v) \ {Head(s)}
    BY <1>0, <1>2, HeldStart, StartParts DEF LineOK
  <2>2. choice[v] = {} /\ Kept(v) = {s[k] : k \in 1..Len(s)}
    BY <1>0, <1>2, <2>1 DEF PassOK
  <2> HIDE DEF s
  <2>3. IsFiniteSet(Kept(v)) /\ Cardinality(Kept(v)) \in Nat
    BY <1>0, LoadParts
  <2>4. Cardinality(Kept(v) \ {Head(s)}) = Cardinality(Kept(v)) - 1
    BY <2>1, <2>3, FS_RemoveElement
  <2>5. Cardinality({}) = 0
    BY FS_EmptySet
  <2>6. Load(v) = Cardinality(Kept(v)) /\ Load(v)' = Cardinality(Kept(v)) - 1
    BY <2>1, <2>2, <2>3, <2>4, <2>5 DEF Load
  <2>7. stage'[v] = "idle" => Load(v)' = 0
    <3> SUFFICES ASSUME Len(s) = 1 PROVE Load(v)' = 0
      BY <2>1
    <3>1. Kept(v) = {s[1]}
      BY <2>2
    <3>2. Cardinality(Kept(v)) = 1
      BY <3>1, FS_Singleton
    <3> QED
      BY <2>6, <3>2
  <2>8. stage'[v] = "idle" \/ (stage'[v] = stage[v] /\ choice'[v] = choice[v])
    BY <2>1
  <2>9. Load(v)' <= Load(v) /\ Load(v)' + 1 <= Load(v)
    BY <2>3, <2>6
  <2> QED
    BY <2>7, <2>8, <2>9 DEF Onward
<1> QED
  BY <1>1, <1>2

\* Every step but a pick, and a crash of its own, moves a worker on.
LEMMA OnwardStep ==
  ASSUME TenantsInv, LineOK', LineNext, NEW v \in Dispatchers
  PROVE  Onward(v) \/ PickBatch(v) \/ WorkerDies(v)
<1> USE DEF StageIs, turnVars
<1>0. LineOK /\ PassOK(v)
  BY DEF TenantsInv
<1>1. ASSUME NEW t \in Tenants, Add(t) PROVE Onward(v)
  BY <1>0, <1>1, HeldSame, OnwardSame DEF Add
<1>2. ASSUME NEW w \in Dispatchers, w # v, PickBatch(w) PROVE Onward(v)
  <2>1. /\ UNCHANGED <<keeper, gone>>
        /\ stage'[v] = stage[v] /\ choice'[v] = choice[v]
    BY <1>0, <1>2 DEF PickBatch, LineOK
  <2> QED
    BY <1>0, <2>1, HeldSame, OnwardSame
<1>3. ASSUME NEW w \in Dispatchers, ListBatch(w) PROVE Onward(v)
  <2>1. /\ UNCHANGED <<keeper, gone, choice>>
        /\ stage[w] = "list"
        /\ stage' = [stage EXCEPT ![w] = IF Kept(w) = {} THEN "idle" ELSE "work"]
    BY <1>3 DEF ListBatch
  <2>2. Kept(v)' = Kept(v)
    BY <2>1, HeldSame
  <2>3. CASE v # w
    BY <1>0, <2>1, <2>2, <2>3, OnwardSame DEF LineOK
  <2>4. CASE v = w
    <3>1. /\ stage[v] = "list" /\ choice[v] = {} /\ choice'[v] = {}
          /\ stage'[v] = IF Kept(v) = {} THEN "idle" ELSE "work"
      BY <1>0, <2>1, <2>4 DEF LineOK, PassOK
    <3>2. Load(v)' = Load(v) /\ Load(v) \in Nat
      BY <1>0, <2>2, <3>1, LoadParts DEF Load
    <3>3. Cardinality({}) = 0
      BY FS_EmptySet
    <3>4. stage'[v] = "idle" => Load(v) = 0
      BY <3>1, <3>3 DEF Load
    <3> QED
      BY <3>1, <3>2, <3>4 DEF Onward
  <2> QED
    BY <2>3, <2>4
<1>4. ASSUME NEW w \in Dispatchers, w # v, WorkerDies(w) PROVE Onward(v)
  <2>1. /\ UNCHANGED <<keeper, gone>>
        /\ stage'[v] = stage[v] /\ choice'[v] = choice[v]
    BY <1>0, <1>4 DEF WorkerDies, LineOK
  <2> QED
    BY <1>0, <2>1, HeldSame, OnwardSame
<1>5. ASSUME NEW i \in Numbers, ClaimLapses(i) PROVE Onward(v)
  <2>1. stage'[v] = stage[v] /\ choice'[v] = choice[v]
    BY <1>5 DEF ClaimLapses
  <2>2. Kept(v)' \in SUBSET Kept(v)
    BY <1>0, <1>5, HeldExpires
  <2> QED
    BY <1>0, <2>1, <2>2, OnwardSame
<1>6. ASSUME NEW w \in Dispatchers, ClaimBatch(w) PROVE Onward(v)
  BY <1>6, OnwardClaim
<1>7. ASSUME NEW w \in Dispatchers, StartNext(w) PROVE Onward(v)
  BY <1>7, OnwardStart
<1> QED
  BY <1>1, <1>2, <1>3, <1>4, <1>5, <1>6, <1>7 DEF LineNext, DispatchTurn

\* A pick takes a batch at most, with a row of every tenant that waits.
LEMMA PickParts ==
  ASSUME TenantsInv, NEW w \in Dispatchers, PickBatch(w)
  PROVE  /\ UNCHANGED <<line, keeper, gone, waited, losses>>
         /\ stage[w] = "idle" /\ stage'[w] \in {"claim", "list"}
         /\ \A v \in Dispatchers \ {w} : stage'[v] = stage[v] /\ choice'[v] = choice[v]
         /\ Load(w)' <= Load(w) + Batch
         /\ AllFit => \A t \in Tenants : Waits(t) =>
              stage'[w] = "claim" /\ \E i \in choice'[w] \cap Free' : line'[i] = t
<1>0. LineOK /\ PassOK(w)
  BY DEF TenantsInv
<1>1. /\ UNCHANGED <<line, keeper, gone, waited, losses>>
      /\ stage[w] = "idle" /\ choice'[w] = Chosen(Free)
      /\ stage'[w] = IF Free = {} THEN "list" ELSE "claim"
      /\ \A v \in Dispatchers \ {w} : stage'[v] = stage[v] /\ choice'[v] = choice[v]
  BY <1>0 DEF PickBatch, StageIs, LineOK
<1>2. /\ Chosen(Free) \in SUBSET Free
      /\ IsFiniteSet(Chosen(Free)) /\ Cardinality(Chosen(Free)) <= Batch
      /\ AllFit => \A t \in Tenants : (\E i \in Free : line[i] = t) =>
                     \E i \in Chosen(Free) : line[i] = t
  BY <1>0, ReadyIs, ChosenIs
<1>3. Load(w)' <= Load(w) + Batch
  <2>1. choice[w] = {} /\ Kept(w)' = Kept(w)
    BY <1>0, <1>1, HeldSame DEF PassOK
  <2>2. Cardinality({}) = 0
    BY FS_EmptySet
  <2>3. Cardinality(Kept(w)) \in Nat /\ Cardinality(Chosen(Free)) \in Nat
    BY <1>0, <1>2, LoadParts, FS_CardinalityType
  <2>4. /\ Load(w) = Cardinality(Kept(w)) + 0
        /\ Load(w)' = Cardinality(Kept(w)) + Cardinality(Chosen(Free))
    BY <1>1, <2>1, <2>2 DEF Load
  <2> QED
    BY <1>2, <2>3, <2>4, TenantsConstants
<1>4. Free' = Free
  BY <1>1 DEF Free
<1>5. ASSUME AllFit, NEW t \in Tenants, Waits(t)
      PROVE  stage'[w] = "claim" /\ \E i \in choice'[w] \cap Free' : line'[i] = t
  <2>1. Free # {}
    BY <1>5 DEF Waits
  <2>2. PICK i \in Chosen(Free) : line[i] = t
    BY <1>2, <1>5 DEF Waits
  <2> QED
    BY <1>1, <1>2, <1>4, <2>1, <2>2
<1> QED
  BY <1>1, <1>3, <1>5

LEMMA CrashParts ==
  ASSUME TenantsInv, LineOK', NEW w \in Dispatchers, WorkerDies(w)
  PROVE  /\ UNCHANGED <<line, keeper, gone, waited>>
         /\ stage[w] # "idle" /\ stage'[w] = "idle" /\ losses > 0 /\ losses' = losses - 1
         /\ Load(w)' <= Load(w)
         /\ Limit' = Limit + Batch
<1>0. LineOK
  BY DEF TenantsInv
<1>1. /\ UNCHANGED <<line, keeper, gone, waited>>
      /\ stage[w] # "idle" /\ stage'[w] = "idle" /\ losses > 0 /\ losses' = losses - 1
      /\ choice'[w] = {}
  BY <1>0 DEF WorkerDies, StageIs, LineOK
<1>2. Load(w)' <= Load(w)
  <2>1. Kept(w)' = Kept(w)
    BY <1>1, HeldSame
  <2>2. Cardinality({}) = 0
    BY FS_EmptySet
  <2>3. Cardinality(Kept(w)) \in Nat /\ Cardinality(choice[w]) \in Nat
    BY <1>0, LoadParts
  <2>4. Load(w)' = Cardinality(Kept(w)) + 0
    BY <1>1, <2>1, <2>2 DEF Load
  <2> QED
    BY <2>3, <2>4 DEF Load
<1>3. Limit' = Limit + Batch
  <2> DEFINE n == Cardinality(Dispatchers) + MaxLosses - losses
  <2>1. n \in Nat /\ Batch \in Nat
    BY <1>0, LimitParts, TenantsConstants
  <2>2. Cardinality(Dispatchers) + MaxLosses - losses' = n + 1
    BY <1>0, <1>1, LimitParts, TenantsConstants
  <2> HIDE DEF n
  <2>3. (n + 1) * Batch = n * Batch + Batch
    BY <2>1
  <2> QED
    BY <2>2, <2>3 DEF Limit, n
<1> QED
  BY <1>1, <1>2, <1>3

LEMMA CrashesSame ==
  ASSUME LineNext
  PROVE  losses' = losses \/ \E w \in Dispatchers : WorkerDies(w)
BY DEF LineNext, DispatchTurn, Add, PickBatch, ClaimBatch, ListBatch, StartNext, ClaimLapses

\* A crash takes a batch more into the limit, for what it leaves standing.
LEMMA AllowedStep ==
  ASSUME TenantsInv, LineOK', LineNext
  PROVE  \E b \in [Dispatchers -> Nat] : Allowed(b)'
<1>0. LineOK
  BY DEF TenantsInv
<1>1. PICK b \in [Dispatchers -> Nat] : Allowed(b)
  BY DEF TenantsInv
<1>2. \A v \in Dispatchers : Load(v) \in Nat /\ Load(v)' \in Nat /\ b[v] \in Nat
  <2>1. ASSUME NEW v \in Dispatchers PROVE Load(v) \in Nat
    BY <1>0, LoadParts
  <2> QED
    BY <1>1, <2>1, LoadPrimed
<1>3. \A v \in Dispatchers :
        /\ Batch <= b[v]
        /\ Load(v) <= b[v]
        /\ stage[v] = "idle" => Load(v) + Batch <= b[v]
  BY <1>1, <1>2, TenantsConstants DEF Allowed
<1>4. ASSUME NEW v \in Dispatchers, Onward(v)
      PROVE  Load(v)' + (IF stage'[v] = "idle" THEN Batch ELSE 0) <= b[v]
  BY <1>2, <1>3, <1>4, TenantsConstants DEF Onward
<1>5. ASSUME NEW w \in Dispatchers, WorkerDies(w)
      PROVE  \E c \in [Dispatchers -> Nat] : Allowed(c)'
  <2> DEFINE c == [b EXCEPT ![w] = b[w] + Batch]
  <2>1. /\ stage[w] # "idle" /\ stage'[w] = "idle" /\ Load(w)' <= Load(w)
        /\ Limit' = Limit + Batch /\ losses' = losses - 1 /\ losses \in Nat
    BY <1>0, <1>5, CrashParts, LimitParts
  <2>2. b[w] + Batch \in Nat
    BY <1>2, TenantsConstants
  <2>3. c \in [Dispatchers -> Nat] /\ c[w] = b[w] + Batch
        /\ \A v \in Dispatchers \ {w} : c[v] = b[v]
    BY <2>2
  <2>4. Sum(c) = Limit'
    <3>1. /\ Sum(c) \in Nat /\ Sum(b) \in Nat /\ Sum(b) = Limit
          /\ Sum(c) + b[w] = Sum(b) + (b[w] + Batch)
      BY <1>1, <2>2, SumUpdate DEF Allowed
    <3> HIDE DEF c
    <3> QED
      BY <1>2, <2>1, <3>1, TenantsConstants
  <2> HIDE DEF c
  <2>5. ASSUME NEW v \in Dispatchers \ {w} PROVE Onward(v)
    <3>1. ~PickBatch(v) /\ ~WorkerDies(v)
      <4>1. stage[w] # "idle" /\ stage' = [stage EXCEPT ![w] = "idle"] /\ losses' = losses - 1
        BY <1>5 DEF WorkerDies, StageIs
      <4>2. stage'[v] = stage[v]
        BY <1>0, <4>1 DEF LineOK
      <4>3. WorkerDies(v) => stage'[v] # stage[v]
        BY <1>0 DEF WorkerDies, StageIs, LineOK
      <4>4. PickBatch(v) => stage'[v] # stage[v]
        BY <1>0 DEF PickBatch, StageIs, LineOK
      <4> QED
        BY <4>2, <4>3, <4>4
    <3> QED
      BY <3>1, OnwardStep
  <2>6. ASSUME NEW v \in Dispatchers
        PROVE  /\ Batch <= c[v]
               /\ Load(v)' + (IF stage'[v] = "idle" THEN Batch ELSE 0) <= c[v]
    <3>1. CASE v = w
      BY <1>2, <1>3, <2>1, <2>3, <3>1, TenantsConstants
    <3>2. CASE v # w
      <4>1. Onward(v) /\ c[v] = b[v]
        BY <2>3, <2>5, <3>2
      <4> QED
        BY <1>3, <1>4, <4>1
    <3> QED
      BY <3>1, <3>2
  <2>7. Allowed(c)'
    BY <2>3, <2>4, <2>6 DEF Allowed
  <2> QED
    BY <2>3, <2>7
<1>6. CASE \A w \in Dispatchers : ~WorkerDies(w)
  <2>1. Limit' = Limit
    BY <1>6, CrashesSame DEF Limit
  <2>2. ASSUME NEW v \in Dispatchers
        PROVE  Load(v)' + (IF stage'[v] = "idle" THEN Batch ELSE 0) <= b[v]
    <3>1. CASE Onward(v)
      BY <1>4, <3>1
    <3>2. CASE PickBatch(v)
      <4>1. stage[v] = "idle" /\ stage'[v] # "idle" /\ Load(v)' <= Load(v) + Batch
        BY <3>2, PickParts
      <4> QED
        BY <1>2, <1>3, <4>1, TenantsConstants
    <3> QED
      BY <1>6, <3>1, <3>2, OnwardStep
  <2>3. Allowed(b)'
    BY <1>1, <1>3, <2>1, <2>2 DEF Allowed
  <2> QED
    BY <2>3
<1> QED
  BY <1>5, <1>6

\* The rows of t that were free stay so.
Stays(t) == \A i \in Free : line[i] = t => i \in Free' /\ line'[i] = t

\* Only a claim of one of its rows keeps a tenant from waiting, and it begins the
\* count anew.
LEMMA StaysStep ==
  ASSUME TenantsInv, LineNext, NEW t \in Tenants
  PROVE  waited'[t] = 0 \/ Stays(t)
<1>0. LineOK
  BY DEF TenantsInv
<1>1. ASSUME NEW u \in Tenants, Add(u) PROVE Stays(t)
  <2>1. line' = Append(line, u) /\ UNCHANGED <<keeper, gone>> /\ line \in Seq(Tenants)
    BY <1>0, <1>1 DEF Add, LineOK
  <2>2. Len(line) \in Nat /\ Len(line') = Len(line) + 1
        /\ \A i \in 1..Len(line) : line'[i] = line[i]
    BY <2>1
  <2>3. \A i \in Free : i \in Free' /\ line'[i] = line[i]
    BY <2>1, <2>2 DEF Free
  <2> QED
    BY <2>3 DEF Stays
<1>2. ASSUME UNCHANGED <<line, keeper, gone>> PROVE Stays(t)
  BY <1>2 DEF Stays, Free
<1>3. ASSUME NEW w \in Dispatchers, ClaimBatch(w) PROVE waited'[t] = 0 \/ Stays(t)
  <2> DEFINE won == choice[w] \cap Free
  <2>1. CASE \E i \in won : line[i] = t
    BY <1>3, <2>1 DEF ClaimBatch
  <2>2. CASE ~\E i \in won : line[i] = t
    <3>1. /\ UNCHANGED <<line, gone>>
          /\ \A i \in Numbers : i \notin won => keeper'[i] = keeper[i]
      BY <1>3 DEF ClaimBatch
    <3> QED
      BY <1>0, <2>2, <3>1, ReadyIs DEF Stays, Free
  <2> QED
    BY <2>1, <2>2
<1>4. ASSUME NEW w \in Dispatchers, StartNext(w) PROVE Stays(t)
  <2>1. /\ UNCHANGED <<line, keeper>>
        /\ gone' = gone \cup {Head(queue[w])} /\ Head(queue[w]) \in Kept(w)
    BY <1>4, StartParts
  <2>2. keeper[Head(queue[w])] # NoClaim
    BY <2>1, TenantsConstants DEF Kept
  <2> QED
    BY <2>1, <2>2 DEF Stays, Free
<1>5. ASSUME NEW i \in Numbers, ClaimLapses(i) PROVE Stays(t)
  <2>1. UNCHANGED <<line, gone>> /\ keeper' = [keeper EXCEPT ![i] = NoClaim]
    BY <1>5 DEF ClaimLapses
  <2>2. \A j \in Free : keeper'[j] = NoClaim
    BY <1>0, <2>1, ReadyIs DEF LineOK
  <2> QED
    BY <2>1, <2>2 DEF Stays, Free
<1>6. ASSUME NEW w \in Dispatchers, PickBatch(w) \/ ListBatch(w) \/ WorkerDies(w)
      PROVE  UNCHANGED <<line, keeper, gone>>
  BY <1>6 DEF PickBatch, ListBatch, WorkerDies
<1> QED
  BY <1>1, <1>2, <1>3, <1>4, <1>5, <1>6 DEF LineNext, DispatchTurn

LEMMA AheadParts ==
  ASSUME LineOK, NEW w \in Dispatchers, NEW t
  PROVE  Ahead(w, t) \in Nat /\ Ahead(w, t) <= Load(w)
<1>1. Load(w) \in Nat
  BY LoadParts
<1> QED
  BY <1>1 DEF Ahead

\* A worker that goes on has no more ahead of a tenant than before, as long as the
\* tenant's free rows stay.
LEMMA AheadOnward ==
  ASSUME TenantsInv, LineOK', NEW v \in Dispatchers, Onward(v), NEW t \in Tenants, Stays(t)
  PROVE  Ahead(v, t)' <= Ahead(v, t)
<1>0. LineOK
  BY DEF TenantsInv
<1> DEFINE next == \E i \in choice[v] \cap Free : line[i] = t
<1>1. Load(v) \in Nat /\ Load(v)' \in Nat /\ Load(v)' <= Load(v)
  BY <1>0, LoadParts, LoadPrimed DEF Onward
<1>2. CASE stage'[v] = "idle"
  <2>1. Ahead(v, t)' = 0
    BY <1>2 DEF Ahead
  <2> QED
    BY <1>0, <2>1, AheadParts
<1>3. CASE stage'[v] = "claim" /\ stage[v] = "claim"
  <2>1. choice'[v] = choice[v]
    BY <1>3 DEF Onward
  <2>2. next => \E i \in choice'[v] \cap Free' : line'[i] = t
    BY <2>1 DEF Stays
  <2> QED
    BY <1>1, <1>3, <2>2 DEF Ahead
<1>4. CASE stage'[v] # "idle" /\ stage'[v] # "claim"
  <2>1. stage[v] # "idle"
    BY <1>4 DEF Onward
  <2>2. stage[v] = "claim" => ~next
    BY <1>4 DEF Onward, Stays
  <2> QED
    BY <1>1, <1>4, <2>1, <2>2 DEF Ahead
<1> QED
  BY <1>2, <1>3, <1>4 DEF Onward

\* Whoever waits and is counted for has starts left that the count allows.
LEMMA CountedFor ==
  ASSUME TenantsInv, AllFit, NEW t \in Tenants, Waits(t)
  PROVE  \E a \in [Dispatchers -> Nat] : Counted(t, a)
<1>0. LineOK /\ Turn(t)
  BY DEF TenantsInv
<1>1. CASE waited[t] = 0
  <2>1. PICK b \in [Dispatchers -> Nat] : Allowed(b)
    BY DEF TenantsInv
  <2>2. Sum(b) = Limit /\ Limit \in Nat
    BY <1>0, <2>1, LimitParts DEF Allowed
  <2>3. ASSUME NEW w \in Dispatchers PROVE Ahead(w, t) <= b[w]
    <3>1. Load(w) \in Nat /\ b[w] \in Nat /\ Load(w) <= b[w]
      BY <1>0, <2>1, LoadParts, TenantsConstants DEF Allowed
    <3> QED
      BY <1>0, <3>1, AheadParts
  <2>4. Counted(t, b)
    BY <1>1, <2>2, <2>3 DEF Counted
  <2> QED
    BY <2>4
<1>2. CASE waited[t] # 0
  BY <1>0, <1>2 DEF Turn
<1> QED
  BY <1>1, <1>2

LEMMA WaitedSame ==
  ASSUME LineNext, NEW t \in Tenants
  PROVE  \/ waited'[t] = waited[t]
         \/ \E w \in Dispatchers : ClaimBatch(w)
         \/ \E w \in Dispatchers : StartNext(w)
BY DEF LineNext, DispatchTurn, Add, PickBatch, ListBatch, WorkerDies, ClaimLapses

LEMMA TurnStep ==
  ASSUME TenantsInv, LineOK', AllFit, LineNext, NEW t \in Tenants
  PROVE  Turn(t)'
<1>0. LineOK /\ Turn(t)
  BY DEF TenantsInv
<1> SUFFICES ASSUME waited'[t] # 0 PROVE Turn(t)'
  BY DEF Turn
<1>1. Stays(t)
  BY StaysStep
<1>2. waited[t] \in Nat /\ waited'[t] \in Nat
  BY <1>0 DEF LineOK
<1>3. Limit \in Nat /\ Limit' \in Nat /\ Limit <= Limit'
  <2>1. Limit \in Nat
    BY <1>0, LimitParts
  <2>2. CASE losses' = losses
    BY <2>1, <2>2 DEF Limit
  <2>3. ASSUME NEW w \in Dispatchers, WorkerDies(w) PROVE Limit' \in Nat /\ Limit <= Limit'
    BY <2>1, <2>3, CrashParts, TenantsConstants
  <2> QED
    BY <2>1, <2>2, <2>3, CrashesSame
<1>4. Waits(t)
  <2>1. CASE waited[t] # 0
    BY <1>0, <2>1 DEF Turn
  <2>2. CASE waited[t] = 0
    <3>1. waited'[t] # waited[t]
      BY <2>2
    <3>2. ASSUME NEW w \in Dispatchers, ClaimBatch(w) PROVE FALSE
      BY <2>2, <3>1, <3>2 DEF ClaimBatch
    <3>3. ASSUME NEW w \in Dispatchers, StartNext(w) PROVE Waits(t)
      BY <3>1, <3>3 DEF StartNext
    <3> QED
      BY <3>1, <3>2, <3>3, WaitedSame
  <2> QED
    BY <2>1, <2>2
<1>5. Waits(t)'
  BY <1>1, <1>4 DEF Waits, Stays
<1>6. PICK a \in [Dispatchers -> Nat] : Counted(t, a)
  BY <1>4, CountedFor
<1>7. \A v \in Dispatchers : a[v] \in Nat /\ Ahead(v, t) \in Nat /\ Ahead(v, t) <= a[v]
  BY <1>0, <1>6, AheadParts DEF Counted
<1>8. ASSUME NEW v \in Dispatchers PROVE Ahead(v, t)' \in Nat /\ Ahead(v, t)' <= Ahead(v, t)
  <2>1. Ahead(v, t)' \in Nat
    <3>1. Ahead(v, t)' = 0 \/ Ahead(v, t)' = Load(v)'
      BY DEF Ahead
    <3> QED
      BY <3>1, LoadPrimed
  <2>2. CASE Onward(v)
    BY <1>1, <2>1, <2>2, AheadOnward
  <2>3. CASE PickBatch(v)
    <3>1. stage'[v] = "claim" /\ \E i \in choice'[v] \cap Free' : line'[i] = t
      BY <1>4, <2>3, PickParts
    <3>2. Ahead(v, t)' = 0
      BY <3>1 DEF Ahead
    <3> QED
      BY <1>7, <3>2
  <2>4. CASE WorkerDies(v)
    <3>1. Ahead(v, t)' = 0
      BY <2>4, CrashParts DEF Ahead
    <3> QED
      BY <1>7, <3>1
  <2> QED
    BY <2>1, <2>2, <2>3, <2>4, OnwardStep
<1>9. CASE waited'[t] <= waited[t]
  <2>1. Sum(a) \in Nat
    BY TenantsConstants, UnitsFinite, FS_CardinalityType DEF Sum
  <2>2. waited'[t] + Sum(a) <= Limit'
    BY <1>2, <1>3, <1>6, <1>9, <2>1 DEF Counted
  <2>3. \A v \in Dispatchers : Ahead(v, t)' <= a[v]
    BY <1>7, <1>8
  <2>4. Counted(t, a)'
    BY <2>2, <2>3 DEF Counted
  <2> QED
    BY <1>5, <2>4 DEF Turn
<1>10. ASSUME NEW w \in Dispatchers, StartNext(w) PROVE Turn(t)'
  <2> DEFINE c == [a EXCEPT ![w] = a[w] - 1]
  <2>1. stage[w] = "work" /\ Load(w)' + 1 <= Load(w) /\ waited'[t] <= waited[t] + 1
    <3>1. waited'[t] = waited[t] + 1 \/ waited'[t] = waited[t]
      BY <1>0, <1>10 DEF StartNext, LineOK
    <3> QED
      BY <1>2, <1>10, <3>1, StartParts, OnwardStart
  <2>2. Ahead(w, t)' + 1 <= Ahead(w, t)
    <3>1. Ahead(w, t) = Load(w)
      BY <2>1 DEF Ahead
    <3>2. Load(w) \in Nat /\ Load(w)' \in Nat
      BY <1>0, LoadParts, LoadPrimed
    <3>3. Ahead(w, t)' = 0 \/ Ahead(w, t)' = Load(w)'
      BY DEF Ahead
    <3> QED
      BY <2>1, <3>1, <3>2, <3>3
  <2>3. a[w] \in Nat /\ a[w] >= 1
    BY <1>7, <1>8, <2>2
  <2>4. /\ Sum(a) \in Nat /\ Sum(c) \in Nat
        /\ Sum(c) + a[w] = Sum(a) + (a[w] - 1)
    <3>1. a[w] - 1 \in Nat
      BY <2>3
    <3> QED
      BY <3>1, SumUpdate
  <2>5. /\ c \in [Dispatchers -> Nat] /\ c[w] = a[w] - 1
        /\ \A v \in Dispatchers \ {w} : c[v] = a[v]
    BY <2>3
  <2> HIDE DEF c
  <2>6. waited'[t] + Sum(c) <= Limit'
    BY <1>2, <1>3, <1>6, <2>1, <2>3, <2>4 DEF Counted
  <2>7. ASSUME NEW v \in Dispatchers PROVE Ahead(v, t)' <= c[v]
    <3>1. CASE v = w
      BY <1>7, <1>8, <2>2, <2>5, <3>1
    <3>2. CASE v # w
      BY <1>7, <1>8, <2>5, <3>2
    <3> QED
      BY <3>1, <3>2
  <2>8. Counted(t, c)'
    BY <2>5, <2>6, <2>7 DEF Counted
  <2> QED
    BY <1>5, <2>5, <2>8 DEF Turn
<1>11. ASSUME NEW w \in Dispatchers, ClaimBatch(w) PROVE waited'[t] <= waited[t]
  BY <1>2, <1>11 DEF ClaimBatch
<1> QED
  BY <1>2, <1>9, <1>10, <1>11, WaitedSame

LEMMA TenantsInvNext == TenantsInv /\ [LineNext]_lineVars => TenantsInv'
<1> SUFFICES ASSUME TenantsInv, [LineNext]_lineVars PROVE TenantsInv'
  OBVIOUS
<1>1. CASE LineNext
  <2>1. LineOK'
    BY <1>1, LineStep
  <2>2. \A v \in Dispatchers : PassOK(v)'
    BY <1>1, PassStep
  <2>3. \E b \in [Dispatchers -> Nat] : Allowed(b)'
    BY <1>1, <2>1, AllowedStep
  <2>4. AllFit => \A t \in Tenants : Turn(t)'
    BY <1>1, <2>1, TurnStep
  <2> QED
    BY <2>1, <2>2, <2>3, <2>4 DEF TenantsInv
<1>2. CASE UNCHANGED lineVars
  <2>1. LineOK' /\ \A v \in Dispatchers : PassOK(v)'
    BY <1>2 DEF TenantsInv, LineOK, PassOK, Kept, lineVars, turnVars
  <2>2. \A b : Allowed(b)' <=> Allowed(b)
    BY <1>2 DEF Allowed, Limit, Load, Kept, lineVars, turnVars
  <2>3. \A t \in Tenants : Turn(t)' <=> Turn(t)
    <3>1. \A t \in Tenants : Waits(t)' <=> Waits(t)
      BY <1>2 DEF Waits, Free, lineVars, turnVars
    <3>2. \A t \in Tenants, w \in Dispatchers : Ahead(w, t)' = Ahead(w, t)
      BY <1>2 DEF Ahead, Free, Load, Kept, lineVars, turnVars
    <3>3. waited' = waited /\ Limit' = Limit
      BY <1>2 DEF Limit, lineVars, turnVars
    <3>4. \A t \in Tenants : \A a : Counted(t, a)' <=> Counted(t, a)
      BY <3>2, <3>3 DEF Counted
    <3> QED
      BY <3>1, <3>3, <3>4 DEF Turn
  <2> QED
    BY <2>1, <2>2, <2>3 DEF TenantsInv
<1> QED
  BY <1>1, <1>2

\* Whatever other tenants have due, and however many workers die with their claims
\* standing, the starts of others' rows that a waiting tenant has to see pass stay
\* within a batch for each worker and for each of those deaths, as long as a batch
\* has room for the oldest row of every tenant.
THEOREM TurnAlwaysComes == LineSpec => []TurnComes
<1>1. TenantsInv => TurnComes
  <2> SUFFICES ASSUME TenantsInv, AllFit, NEW t \in Tenants PROVE waited[t] <= Limit
    BY DEF TurnComes, Limit, AllFit
  <2>0. LineOK /\ Turn(t)
    BY DEF TenantsInv
  <2>1. waited[t] \in Nat /\ Limit \in Nat
    BY <2>0, LimitParts DEF LineOK
  <2>2. CASE waited[t] = 0
    BY <2>1, <2>2
  <2>3. ASSUME NEW a \in [Dispatchers -> Nat], Counted(t, a) PROVE waited[t] <= Limit
    <3>1. Sum(a) \in Nat
      BY TenantsConstants, UnitsFinite, FS_CardinalityType DEF Sum
    <3> QED
      BY <2>1, <2>3, <3>1 DEF Counted
  <2> QED
    BY <2>0, <2>2, <2>3 DEF Turn
<1> QED
  BY <1>1, TenantsInvInit, TenantsInvNext, PTL DEF LineSpec

=============================================================================
