--------------------------- MODULE GenerationProofs ---------------------------
(***************************************************************************)
(* Theorems about Generation, for any number of jobs, retries, cancels and *)
(* losses, and every limit.                                                *)
(***************************************************************************)
EXTENDS Generation, FiniteSetTheorems, TLAPS

Places == DOMAIN Entry
AtEnd == {"settle", "over"}

\* The job of an attempt, and the attempt a job is at.
Current(j) == <<j, attempt[j]>>

LEMMA Constants ==
  /\ MaxReservations \in Nat /\ MaxFaults \in Nat
  /\ Estimate \in Nat /\ DayLimit \in Nat /\ MonthLimit \in Nat
  /\ ActTries \in Nat /\ ActTries > 0 /\ ActTries <= MaxReservations
  /\ ModelTries \in Nat /\ ModelTries > 0
  /\ MaxAttempts \in Nat /\ 1 \in 1..MaxAttempts
BY GenerationAssumption DEF GenerationAssumption, MaxAttempts

LEMMA AttemptParts ==
  ASSUME NEW a \in Attempts
  PROVE  a[1] \in Jobs /\ a[2] \in 1..MaxAttempts /\ a = <<a[1], a[2]>>
BY DEF Attempts

LEMMA IdParts ==
  ASSUME NEW i \in B!Ids
  PROVE  i[1] \in Attempts /\ i[2] \in 1..MaxReservations /\ i = <<i[1], i[2]>> /\ i # None
BY GenerationAssumption DEF B!Ids, GenerationAssumption

LEMMA PlacesAre ==
  Places = {"idle", "begin", "reserve", "link", "model", "ask", "bill", "closed", "refused",
            "record", "save", "fail", "settle", "over"}
BY DEF Places, Entry

LEMMA EntryIs ==
  /\ \A x \in Places : Entry[x] \in Places \ {"link", "over"} \/ x = "over"
  /\ \A x \in Places : Entry[x] = "reserve" <=> x \in {"reserve", "link"}
  /\ \A x \in Places : Entry[x] = "begin" <=> x = "begin"
  /\ \A x \in Places : Entry[x] = "idle" <=> x = "idle"
  /\ Entry["settle"] = "settle"
BY PlacesAre DEF Entry

-----------------------------------------------------------------------------
(* What a step does to the workflows *)

FlowOK ==
  /\ at \in [Attempts -> Places]
  /\ tries \in [Attempts -> 0..(ActTries + ModelTries)]

\* The workflow of one attempt moves.
Moves(a) ==
  /\ FlowOK'
  /\ \A b \in Attempts \ {a} : at'[b] = at[b] /\ tries'[b] = tries[b]

\* It moves past the place where the attempt has linked its reservation, and
\* leaves its finally for its end only.
Late == Places \ {"idle", "begin", "reserve", "link"}
Onward(a) ==
  /\ Moves(a) /\ tries'[a] >= 1 /\ at'[a] \in Late
  /\ at[a] \in AtEnd => at'[a] \in AtEnd

LEMMA EnterMoves ==
  ASSUME FlowOK, NEW a \in Attempts, NEW x \in Places, Enter(a, x)
  PROVE  /\ Moves(a) /\ at'[a] = x /\ tries'[a] >= 1
         /\ tries'[a] = IF x = "model" THEN ModelTries ELSE ActTries
<1>1. ActTries \in 1..(ActTries + ModelTries) /\ ModelTries \in 1..(ActTries + ModelTries)
  BY Constants
<1>2. FlowOK'
  BY <1>1 DEF Enter, FlowOK
<1>3. \A b \in Attempts \ {a} : at'[b] = at[b] /\ tries'[b] = tries[b]
  BY DEF Enter, FlowOK
<1>4. at'[a] = x
  BY DEF Enter, FlowOK
<1>5. tries'[a] = IF x = "model" THEN ModelTries ELSE ActTries
  BY DEF Enter, FlowOK
<1> QED
  BY <1>1, <1>2, <1>3, <1>4, <1>5 DEF Moves

LEMMA StageMoves ==
  ASSUME FlowOK, NEW a \in Attempts, NEW x \in Places, Stage(a, x)
  PROVE  Moves(a) /\ at'[a] = x /\ tries'[a] = tries[a]
BY DEF Stage, FlowOK, Moves

LEMMA FailsMoves ==
  ASSUME FlowOK, NEW a \in Attempts, at[a] # "over", Fails(a)
  PROVE  Onward(a)
<1> DEFINE x == IF at[a] = "settle" THEN "over"
                ELSE IF at[a] = "fail" THEN "settle" ELSE "fail"
<1>1. x \in Late /\ x \in Places /\ (at[a] \in AtEnd => x \in AtEnd)
  BY PlacesAre DEF Late, AtEnd
<1>2. Enter(a, x)
  BY DEF Fails
<1> HIDE DEF x
<1> QED
  BY <1>1, <1>2, EnterMoves DEF Onward

\* An activity starts again, or has no attempt left.
LEMMA AgainMoves ==
  ASSUME FlowOK, NEW a \in Attempts, at[a] \notin {"idle", "over"}, Again(a)
  PROVE  \/ Onward(a)
         \/ /\ Moves(a) /\ tries'[a] >= 1 /\ tries'[a] = tries[a] - 1
            /\ at'[a] = Entry[at[a]] /\ Entry[at[a]] \in {"begin", "reserve"}
<1>0. at[a] \in Places /\ tries[a] \in Nat
  BY Constants DEF FlowOK
<1>1. CASE tries[a] > 1
  <2>1. /\ at' = [at EXCEPT ![a] = Entry[at[a]]]
        /\ tries' = [tries EXCEPT ![a] = tries[a] - 1]
    BY <1>1 DEF Again
  <2>2. Entry[at[a]] \in Places
    BY <1>0, EntryIs
  <2>3. tries[a] - 1 \in 0..(ActTries + ModelTries)
    BY <1>1, Constants DEF FlowOK
  <2>4. Moves(a)
    BY <2>1, <2>2, <2>3 DEF Moves, FlowOK
  <2>5. at'[a] = Entry[at[a]] /\ tries'[a] = tries[a] - 1 /\ tries'[a] >= 1
    BY <1>0, <1>1, <2>1 DEF FlowOK
  <2>6. CASE Entry[at[a]] \in {"begin", "reserve"}
    BY <2>4, <2>5, <2>6
  <2>7. CASE Entry[at[a]] \notin {"begin", "reserve"}
    <3>1. Entry[at[a]] \in Late
      BY <1>0, <2>2, <2>7, EntryIs DEF Late
    <3>2. at[a] \in AtEnd => Entry[at[a]] \in AtEnd
      BY EntryIs DEF AtEnd
    <3> QED
      BY <2>4, <2>5, <3>1, <3>2 DEF Onward
  <2> QED
    BY <2>6, <2>7
<1>2. CASE ~(tries[a] > 1)
  BY <1>2, FailsMoves DEF Again
<1> QED
  BY <1>1, <1>2

\* An activity that comes after the link ends, or starts again.
LEMMA GoOnMoves ==
  ASSUME FlowOK, NEW a \in Attempts, at[a] \notin AtEnd,
         NEW P, NEW x \in Late, GoOn(a, P, x)
  PROVE  Onward(a)
<1> DEFINE y == IF P /\ a \notin told THEN x ELSE "settle"
<1>1. y \in Late /\ y \in Places
  BY PlacesAre DEF Late
<1>2. Enter(a, y)
  BY DEF GoOn
<1> HIDE DEF y
<1> QED
  BY <1>1, <1>2, EnterMoves DEF Onward

LEMMA AnswersMoves ==
  ASSUME FlowOK, NEW a \in Attempts, at[a] \in Late \ AtEnd,
         NEW P, NEW x \in Late, Answers(a, P, x)
  PROVE  Onward(a)
<1>1. CASE GoOn(a, P, x)
  BY <1>1, GoOnMoves
<1>2. CASE Lost(a)
  <2>1. at[a] \in Places /\ at[a] \notin {"idle", "begin", "reserve", "link", "over"}
    BY DEF Late, AtEnd
  <2> QED
    BY <1>2, <2>1, AgainMoves, EntryIs DEF Lost
<1> QED
  BY <1>1, <1>2 DEF Answers

-----------------------------------------------------------------------------
(* What a step does to the budget *)

Rows(a) == B!OwnedBy(a)

\* Nothing is opened or closed, one row is closed, or the next row of an attempt
\* is opened.
Untouched == held' = held
Closes(a) ==
  \E i \in Rows(a), as \in {"settled", "released"} :
    held[i] = "held" /\ held' = [held EXCEPT ![i] = as]
Opens(a) == held' = [held EXCEPT ![B!Fresh(a)] = "held"]

LEMMA CloseOneCloses ==
  ASSUME B!BudgetsTypeOK, NEW a, NEW as \in {"settled", "released"}, B!CloseOne(a, as)
  PROVE  B!BudgetsTypeOK' /\ (Untouched \/ Closes(a))
<1>1. CASE UNCHANGED budgetVars
  BY <1>1 DEF budgetVars, B!BudgetsTypeOK, Untouched
<1>2. CASE ~UNCHANGED budgetVars
  <2>1. PICK i \in B!OwnedBy(a) :
          /\ held[i] = "held"
          /\ held' = [held EXCEPT ![i] = as]
          /\ reserved' = [reserved EXCEPT ![i] = consumed[i]]
          /\ UNCHANGED <<consumed, ledger, unplanned>>
    BY <1>2 DEF B!CloseOne, B!budgetVars, budgetVars
  <2>2. i \in B!Ids
    BY DEF B!OwnedBy
  <2>3. B!BudgetsTypeOK'
    BY <2>1, <2>2 DEF B!BudgetsTypeOK
  <2> QED
    BY <2>1, <2>3 DEF Closes, Rows
<1> QED
  BY <1>1, <1>2

LEMMA ExceptType ==
  ASSUME NEW S, NEW T, NEW f \in [S -> T], NEW x, NEW y, x \in S => y \in T
  PROVE  [f EXCEPT ![x] = y] \in [S -> T]
<1>1. CASE x \in S
  BY <1>1
<1>2. CASE x \notin S
  BY <1>2
<1> QED
  BY <1>1, <1>2

LEMMA ChargeTouchesNone ==
  ASSUME B!BudgetsTypeOK, NEW i, NEW k, B!Charge(i, k)
  PROVE  B!BudgetsTypeOK' /\ Untouched
<1>1. CASE UNCHANGED budgetVars
  BY <1>1 DEF budgetVars, B!BudgetsTypeOK, Untouched
<1>2. CASE B!Book(i, k)
  <2>1. held' = held
    BY <1>2 DEF B!Book
  <2>2. consumed' \in [B!Ids -> Nat] /\ reserved' \in [B!Ids -> Nat]
    <3>1. i \in B!Ids => consumed[i] + 1 \in Nat
      BY DEF B!BudgetsTypeOK
    <3>2. [consumed EXCEPT ![i] = consumed[i] + 1] \in [B!Ids -> Nat]
      BY <3>1, ExceptType DEF B!BudgetsTypeOK
    <3>3. [reserved EXCEPT ![i] = consumed[i] + 1] \in [B!Ids -> Nat]
      BY <3>1, ExceptType DEF B!BudgetsTypeOK
    <3>4. consumed' = [consumed EXCEPT ![i] = consumed[i] + 1]
      BY <1>2 DEF B!Book
    <3>5. reserved' = reserved \/ reserved' = [reserved EXCEPT ![i] = consumed[i] + 1]
      BY <1>2 DEF B!Book
    <3> QED
      BY <3>2, <3>3, <3>4, <3>5 DEF B!BudgetsTypeOK
  <2>3. ledger' \in [B!Keys -> Nat]
    <3>1. [ledger EXCEPT ![k] = ledger[k] + 1] \in [B!Keys -> Nat]
      BY ExceptType DEF B!BudgetsTypeOK
    <3> QED
      BY <1>2, <3>1 DEF B!Book
  <2>4. unplanned' \in [Attempts -> Nat]
    <3>1. [unplanned EXCEPT ![i[1]] = unplanned[i[1]] + 1] \in [Attempts -> Nat]
      BY ExceptType DEF B!BudgetsTypeOK
    <3> QED
      BY <1>2, <3>1 DEF B!Book, B!BudgetsTypeOK
  <2> QED
    BY <2>1, <2>2, <2>3, <2>4 DEF B!BudgetsTypeOK, Untouched
<1> QED
  BY <1>1, <1>2 DEF B!Charge, B!budgetVars, budgetVars

LEMMA ReserveOpens ==
  ASSUME B!BudgetsTypeOK, NEW a, B!ReserveSpend(a)
  PROVE  B!BudgetsTypeOK' /\ Opens(a)
BY Constants DEF B!BudgetsTypeOK, B!ReserveSpend, Opens

\* The rows of an attempt after each of these.
LEMMA RowsStay ==
  ASSUME B!BudgetsTypeOK, Untouched \/ \E b : Closes(b)
  PROVE  \A a : Rows(a)' = Rows(a)
<1>1. \A i \in B!Ids : held'[i] # "none" <=> held[i] # "none"
  BY DEF B!BudgetsTypeOK, Untouched, Closes, Rows, B!OwnedBy
<1> QED
  BY <1>1 DEF Rows, B!OwnedBy

LEMMA RowCount ==
  ASSUME NEW a, NEW n \in Nat
  PROVE  Cardinality({a} \X (1..n)) = n
<1>1. IsFiniteSet({a}) /\ Cardinality({a}) = 1
  BY FS_Singleton
<1>2. IsFiniteSet(1..n) /\ Cardinality(1..n) = n
  BY FS_Interval
<1>3. Cardinality({a} \X (1..n)) = Cardinality({a}) * Cardinality(1..n)
  BY <1>1, <1>2, FS_Product
<1> QED
  BY <1>1, <1>2, <1>3

LEMMA RowsGrow ==
  ASSUME B!BudgetsTypeOK, NEW a \in Attempts, NEW n \in Nat, n < MaxReservations,
         Rows(a) = {a} \X (1..n), Opens(a)
  PROVE  /\ Rows(a)' = {a} \X (1..(n + 1))
         /\ held'[<<a, n + 1>>] = "held"
         /\ \A b : b # a => Rows(b)' = Rows(b)
         /\ \A i \in B!Ids : held[i] = "held" => held'[i] = "held"
<1>1. B!Fresh(a) = <<a, n + 1>>
  <2>1. Cardinality(Rows(a)) = n
    BY RowCount
  <2>2. B!Cardinality(Rows(a)) = Cardinality(Rows(a))
    BY DEF B!Cardinality, Cardinality
  <2> QED
    BY <2>1, <2>2 DEF B!Fresh, Rows
<1>2. <<a, n + 1>> \in B!Ids
  BY Constants DEF B!Ids
<1>3. held' = [held EXCEPT ![<<a, n + 1>>] = "held"]
  BY <1>1 DEF Opens
<1>4. \A i \in B!Ids : held'[i] # "none" <=> held[i] # "none" \/ i = <<a, n + 1>>
  BY <1>2, <1>3 DEF B!BudgetsTypeOK
<1>5. \A b : b # a => Rows(b)' = Rows(b)
  BY <1>4 DEF Rows, B!OwnedBy
<1>6. Rows(a)' = Rows(a) \cup {<<a, n + 1>>}
  BY <1>2, <1>4 DEF Rows, B!OwnedBy
<1>7. (1..n) \cup {n + 1} = 1..(n + 1)
  OBVIOUS
<1>8. Rows(a)' = {a} \X (1..(n + 1))
  BY <1>6, <1>7
<1> QED
  BY <1>2, <1>3, <1>5, <1>8 DEF B!BudgetsTypeOK

-----------------------------------------------------------------------------
(* The inductive invariant *)

\* The rows of attempt a are numbered from one, and there are as many as its
\* attempts of reserveGenerationBudget explain.
Reservations(a) ==
  \E n \in 0..MaxReservations :
    /\ Rows(a) = {a} \X (1..n)
    /\ at[a] \in {"idle", "begin"} => n = 0
    /\ at[a] = "reserve" => n + tries[a] <= ActTries
    /\ at[a] = "link" => n + tries[a] <= ActTries + 1 /\ n >= 1

\* An attempt that was asked for is the only one of its job that links, and
\* what it is about to link is held.
Linking(a) ==
  /\ at[a] # "idle" => tries[a] >= 1
  /\ a[2] > attempt[a[1]] => at[a] = "idle"
  /\ at[a] = "link" /\ attempt[a[1]] = a[2] =>
       linked[a[1]] = None /\ held[Own(a)] = "held"

\* A job names a reservation of its present attempt, if any.
LinkedOwn(j) ==
  /\ state[j] = "none" => linked[j] = None
  /\ linked[j] # None => linked[j][1] = Current(j)

GenerationInv ==
  /\ TypeOK
  /\ \A a \in Attempts : Reservations(a) /\ Linking(a)
  /\ \A j \in Jobs : LinkedOwn(j)
  /\ LiveAttemptHolds

-----------------------------------------------------------------------------
(* What a step does to one attempt's workflow *)

\* Only Deliver starts a workflow, only an answer or a retry enters `reserve`,
\* and only a new reservation enters `link`.
FlowStep(a) ==
  /\ at'[a] = "idle" => at[a] = "idle"
  /\ at'[a] # "idle" => tries'[a] >= 1
  /\ at'[a] # "idle" /\ at[a] = "idle" => a[2] <= attempt[a[1]]
  /\ at'[a] = "begin" => at[a] \in {"idle", "begin"}
  /\ at'[a] = "reserve" =>
       \/ at[a] = "begin" /\ tries'[a] = ActTries
       \/ at[a] = "reserve" /\ tries'[a] <= tries[a]
       \/ at[a] = "link" /\ tries'[a] < tries[a]
  /\ at'[a] = "link" =>
       /\ tries'[a] = tries[a]
       /\ \/ at[a] = "link"
          \/ /\ at[a] = "reserve" /\ Opens(a)
             /\ Proceeds(a) /\ ~Linked(a) /\ UNCHANGED jobVars
  /\ at[a] \in AtEnd => at'[a] \in AtEnd

Tried == \A a \in Attempts : at[a] # "idle" => tries[a] >= 1

LEMMA StillFlows ==
  ASSUME FlowOK, Tried, NEW b \in Attempts, at'[b] = at[b], tries'[b] = tries[b]
  PROVE  FlowStep(b)
BY Constants DEF FlowStep, Tried, FlowOK

\* The step of one attempt leaves the other workflows alone.
LEMMA FlowOfOne ==
  ASSUME FlowOK, Tried, NEW a \in Attempts, Moves(a), FlowStep(a)
  PROVE  FlowOK' /\ \A b \in Attempts : FlowStep(b)
BY StillFlows DEF Moves

LEMMA OnwardFlows ==
  ASSUME FlowOK, NEW a \in Attempts, Onward(a), at[a] # "idle"
  PROVE  FlowStep(a)
BY DEF Onward, FlowStep, Late

LEMMA DeliverFlows ==
  ASSUME FlowOK, NEW a \in Attempts, Deliver(a)
  PROVE  Moves(a) /\ FlowStep(a)
<1>1. Moves(a) /\ at'[a] = "begin" /\ tries'[a] >= 1
  BY PlacesAre, EnterMoves DEF Deliver
<1> QED
  BY <1>1 DEF FlowStep, Deliver, AtEnd

LEMMA BeginFlows ==
  ASSUME FlowOK, NEW a \in Attempts, Begin(a)
  PROVE  Moves(a) /\ FlowStep(a)
<1>1. at[a] = "begin"
  BY DEF Begin
<1>2. CASE GoOn(a, Proceeds(a), "reserve")
  <2> DEFINE y == IF Proceeds(a) /\ a \notin told THEN "reserve" ELSE "settle"
  <2>1. y \in Places /\ y \in {"reserve", "settle"}
    BY PlacesAre
  <2>2. Enter(a, y)
    BY <1>2 DEF GoOn
  <2> HIDE DEF y
  <2>3. Moves(a) /\ at'[a] = y /\ tries'[a] >= 1 /\ tries'[a] = ActTries
    BY <2>1, <2>2, EnterMoves
  <2> QED
    BY <1>1, <2>1, <2>3 DEF FlowStep, AtEnd
<1>3. CASE Lost(a)
  <2>1. \/ Onward(a)
        \/ Moves(a) /\ tries'[a] >= 1 /\ at'[a] = "begin"
    BY <1>1, <1>3, AgainMoves, EntryIs, PlacesAre DEF Lost
  <2> QED
    BY <1>1, <2>1, OnwardFlows DEF FlowStep, AtEnd, Onward
<1> QED
  BY <1>2, <1>3 DEF Begin, Answers

LEMMA ReserveFlows ==
  ASSUME FlowOK, Tried, NEW a \in Attempts, Reserve(a),
         B!BudgetsTypeOK
  PROVE  Moves(a) /\ FlowStep(a)
<1>1. at[a] = "reserve" /\ tries[a] >= 1
  BY DEF Reserve, Tried
<1>2. CASE ~Proceeds(a) \/ Linked(a)
  <2>1. Onward(a)
    BY <1>1, <1>2, GoOnMoves, PlacesAre DEF Reserve, Late, AtEnd
  <2> QED
    BY <1>1, <2>1, OnwardFlows DEF Onward
<1>3. CASE ~(~Proceeds(a) \/ Linked(a)) /\ ~B!Affordable(BudgetKey(a))
  <2>1. Onward(a)
    BY <1>1, <1>3, FailsMoves DEF Reserve
  <2> QED
    BY <1>1, <2>1, OnwardFlows DEF Onward
<1>4. CASE ~(~Proceeds(a) \/ Linked(a)) /\ B!Affordable(BudgetKey(a))
  <2>1. B!ReserveSpend(a) /\ Stage(a, "link")
    BY <1>4 DEF Reserve, BudgetKey
  <2>2. Moves(a) /\ at'[a] = "link" /\ tries'[a] = tries[a]
    BY <2>1, StageMoves, PlacesAre
  <2>3. Opens(a)
    BY <2>1, ReserveOpens
  <2>4. UNCHANGED jobVars
    BY DEF Reserve
  <2> QED
    BY <1>1, <1>4, <2>2, <2>3, <2>4 DEF FlowStep, AtEnd
<1> QED
  BY <1>2, <1>3, <1>4

LEMMA LinkFlows ==
  ASSUME FlowOK, NEW a \in Attempts, Link(a)
  PROVE  Moves(a) /\ FlowStep(a) /\ at'[a] # "link"
<1>1. at[a] = "link"
  BY DEF Link
<1>2. CASE GoOn(a, Proceeds(a), "model")
  <2>1. Onward(a)
    BY <1>1, <1>2, GoOnMoves, PlacesAre DEF Late, AtEnd
  <2> QED
    BY <1>1, <2>1, OnwardFlows DEF Onward, Late
<1>3. CASE Lost(a)
  <2>1. \/ Onward(a)
        \/ Moves(a) /\ tries'[a] >= 1 /\ tries'[a] = tries[a] - 1 /\ at'[a] = "reserve"
    BY <1>1, <1>3, AgainMoves, EntryIs, PlacesAre DEF Lost
  <2>2. CASE Onward(a)
    BY <1>1, <2>2, OnwardFlows DEF Onward, Late
  <2>3. CASE Moves(a) /\ tries'[a] >= 1 /\ tries'[a] = tries[a] - 1 /\ at'[a] = "reserve"
    <3>1. tries[a] \in Nat
      BY Constants DEF FlowOK
    <3> QED
      BY <1>1, <2>3, <3>1 DEF FlowStep, AtEnd
  <2> QED
    BY <2>1, <2>2, <2>3
<1> QED
  BY <1>2, <1>3 DEF Link, Answers

\* Every other action of a workflow moves it onward.
LEMMA OthersOnward ==
  ASSUME FlowOK, Tried, NEW a \in Attempts,
         \/ Denied(a) \/ PrepareCall(a) \/ ModelAnswers(a) \/ Bill(a) \/ StopCall(a)
         \/ RecordOutput(a) \/ Save(a) \/ Fail(a) \/ Settle(a)
  PROVE  Onward(a) /\ at[a] # "idle"
<1>0. /\ {"model", "ask", "bill", "closed", "refused", "record", "save", "fail"}
           \subseteq Late \ AtEnd
      /\ "settle" \in Late /\ "over" \in Late /\ Late \subseteq Places
  BY PlacesAre DEF Late, AtEnd
<1>a. ASSUME NEW x \in Late, Stage(a, x), at[a] \in Late \ AtEnd
      PROVE  Onward(a)
  <2>1. at[a] # "idle"
    BY <1>a DEF Late
  <2>2. Moves(a) /\ at'[a] = x /\ tries'[a] = tries[a] /\ tries[a] >= 1
    BY <1>0, <1>a, <2>1, StageMoves DEF Tried
  <2> QED
    BY <1>a, <2>2 DEF Onward
<1>b. ASSUME NEW P, NEW x \in Late, GoOn(a, P, x), at[a] \in Late \ AtEnd
      PROVE  Onward(a)
  BY <1>b, GoOnMoves
<1>1. CASE Denied(a)
  BY <1>1, FailsMoves DEF Denied
<1>2. CASE PrepareCall(a)
  <2>1. at[a] \in Late \ AtEnd /\ at[a] \notin {"over", "idle"}
    BY <1>0, <1>2 DEF PrepareCall
  <2>2. \/ GoOn(a, Proceeds(a), "save") \/ Fails(a) \/ Stage(a, "ask")
    BY <1>2 DEF PrepareCall
  <2> QED
    BY <1>0, <1>a, <1>b, <2>1, <2>2, FailsMoves
<1>3. CASE ModelAnswers(a)
  <2>1. at[a] = "ask" /\ at[a] \in Late \ AtEnd
    BY <1>0, <1>3 DEF ModelAnswers
  <2>2. Stage(a, "bill") \/ Again(a)
    BY <1>3 DEF ModelAnswers
  <2>3. CASE Again(a)
    BY <2>1, <2>3, AgainMoves, EntryIs, PlacesAre
  <2> QED
    BY <1>0, <1>a, <2>1, <2>2, <2>3
<1>4. CASE Bill(a)
  <2>1. at[a] = "bill" /\ at[a] \in Late \ AtEnd
    BY <1>0, <1>4 DEF Bill
  <2>2. Stage(a, "closed") \/ Fails(a) \/ Stage(a, "refused") \/ Stage(a, "record")
    BY <1>4 DEF Bill
  <2> QED
    BY <1>0, <1>a, <2>1, <2>2, FailsMoves
<1>5. CASE StopCall(a)
  <2>1. at[a] \in {"closed", "refused"} /\ at[a] \in Late \ AtEnd
    BY <1>0, <1>5 DEF StopCall
  <2>2. GoOn(a, FALSE, "save") \/ Fails(a) \/ Lost(a)
    BY <1>5 DEF StopCall
  <2>3. CASE Lost(a)
    BY <2>1, <2>3, AgainMoves, EntryIs, PlacesAre DEF Lost
  <2> QED
    BY <1>0, <1>b, <2>1, <2>2, <2>3, FailsMoves
<1>6. CASE RecordOutput(a)
  <2>1. at[a] = "record" /\ at[a] \in Late \ AtEnd
    BY <1>0, <1>6 DEF RecordOutput
  <2>2. Answers(a, Proceeds(a), "save")
    BY <1>6 DEF RecordOutput
  <2> QED
    BY <1>0, <2>1, <2>2, AnswersMoves
<1>7. CASE Save(a)
  <2>1. at[a] = "save" /\ at[a] \in Late \ AtEnd
    BY <1>0, <1>7 DEF Save
  <2>2. Enter(a, "settle") \/ Fails(a) \/ Answers(a, FALSE, "save")
    BY <1>7 DEF Save
  <2>3. CASE Enter(a, "settle")
    BY <1>0, <2>1, <2>3, EnterMoves DEF Onward
  <2> QED
    BY <1>0, <2>1, <2>2, <2>3, AnswersMoves, FailsMoves
<1>8. CASE Fail(a)
  <2>1. at[a] = "fail" /\ at[a] \in Late \ AtEnd
    BY <1>0, <1>8 DEF Fail
  <2>2. Answers(a, FALSE, "fail")
    BY <1>8 DEF Fail
  <2> QED
    BY <1>0, <2>1, <2>2, AnswersMoves
<1>9. CASE Settle(a)
  <2>1. at[a] = "settle" /\ (Enter(a, "over") \/ Lost(a))
    BY <1>9 DEF Settle
  <2>2. CASE Enter(a, "over")
    BY <1>0, <2>1, <2>2, EnterMoves DEF Onward, AtEnd
  <2>3. CASE Lost(a)
    BY <2>1, <2>3, AgainMoves, EntryIs DEF Lost
  <2> QED
    BY <2>1, <2>2, <2>3
<1> QED
  BY <1>1, <1>2, <1>3, <1>4, <1>5, <1>6, <1>7, <1>8, <1>9

LEMMA LoseFlows ==
  ASSUME FlowOK, NEW a \in Attempts, LoseAttempt(a)
  PROVE  Moves(a) /\ FlowStep(a) /\ at'[a] # "link"
<1>1. at[a] \notin {"idle", "over"} /\ at[a] \in Places /\ tries[a] \in Nat
  BY Constants DEF LoseAttempt, FlowOK
<1>2. Again(a)
  BY DEF LoseAttempt, Lost
<1>3. CASE Onward(a)
  BY <1>1, <1>3, OnwardFlows DEF Onward, Late
<1>4. CASE /\ Moves(a) /\ tries'[a] >= 1 /\ tries'[a] = tries[a] - 1
           /\ at'[a] = Entry[at[a]] /\ Entry[at[a]] \in {"begin", "reserve"}
  <2>1. \/ at[a] = "begin" /\ at'[a] = "begin"
        \/ at[a] \in {"reserve", "link"} /\ at'[a] = "reserve"
    BY <1>1, <1>4, EntryIs
  <2> QED
    BY <1>1, <1>4, <2>1 DEF FlowStep, AtEnd
<1> QED
  BY <1>1, <1>2, <1>3, <1>4, AgainMoves

-----------------------------------------------------------------------------
(* What a step does to a job, and to the reservations *)

JobsOK ==
  /\ state \in [Jobs -> States]
  /\ attempt \in [Jobs -> 1..MaxAttempts]
  /\ linked \in [Jobs -> B!Ids \cup {None}]
  /\ output \in [Jobs -> BOOLEAN]

RestOK == told \subseteq asked /\ asked \subseteq Attempts /\ faults \in 0..MaxFaults

LEMMA TypeParts ==
  /\ TypeOK <=> B!BudgetsTypeOK /\ JobsOK /\ FlowOK /\ RestOK
  /\ TypeOK' <=> B!BudgetsTypeOK' /\ JobsOK' /\ FlowOK' /\ RestOK'
BY DEF TypeOK, JobsOK, FlowOK, RestOK, Places

\* Only an attempt that proceeds changes the link of its job, and then it has
\* held what it links.
Links(j) ==
  /\ at[Current(j)] = "link" /\ at'[Current(j)] # "link"
  /\ state[j] \in Live /\ attempt'[j] = attempt[j]
  /\ linked'[j] = Own(Current(j)) /\ Untouched

\* The job is at its next attempt.
Retried(j) == attempt'[j] = attempt[j] + 1 /\ linked'[j] = None

JobStep(j) ==
  /\ attempt'[j] = attempt[j] \/ Retried(j)
  /\ state'[j] = "none" => state[j] = "none"
  /\ state'[j] \in Live =>
       \/ state[j] \in Live \/ Retried(j)
       \/ state[j] = "none" /\ linked'[j] = None
  /\ linked'[j] = linked[j] \/ Retried(j) \/ Links(j)

\* Who may close a row of attempt a: its own settle, its own link once the
\* attempt is to stop, and a person who ends the job or asks for the next attempt.
MayClose(a) ==
  \/ at[a] = "settle"
  \/ at[a] = "link" /\ at'[a] # "link" /\ ~Proceeds(a)
  \/ \E j \in Jobs :
       /\ linked[j] # None /\ a = linked[j][1]
       /\ state'[j] \notin Live \/ linked'[j] = None

Arrives(a) == at'[a] = "link" /\ at[a] # "link"

HoldStep ==
  \/ /\ Untouched \/ \E a \in Attempts : Closes(a) /\ MayClose(a)
     /\ \A a \in Attempts : ~Arrives(a)
  \/ \E a \in Attempts :
       /\ Opens(a) /\ Arrives(a)
       /\ \A b \in Attempts \ {a} : ~Arrives(b)

Steps ==
  /\ TypeOK'
  /\ \A a \in Attempts : FlowStep(a)
  /\ \A j \in Jobs : JobStep(j)
  /\ HoldStep

LEMMA SameJobs ==
  ASSUME JobsOK, UNCHANGED jobVars
  PROVE  JobsOK' /\ \A j \in Jobs : JobStep(j)
BY DEF jobVars, JobsOK, JobStep, Retried

LEMMA SameBudget ==
  ASSUME B!BudgetsTypeOK, UNCHANGED budgetVars
  PROVE  B!BudgetsTypeOK' /\ Untouched
BY DEF budgetVars, B!BudgetsTypeOK, Untouched

\* A workflow moves the state of its own job only, and only while it proceeds.
LEMMA StateMoves ==
  ASSUME JobsOK, NEW a \in Attempts,
         NEW s \in {"generating", "validating", "completed", "failed"},
         \/ state' = state
         \/ Proceeds(a) /\ state' = [state EXCEPT ![a[1]] = s],
         UNCHANGED <<attempt, linked>>,
         output' = output \/ output' = [output EXCEPT ![a[1]] = TRUE]
  PROVE  JobsOK' /\ \A j \in Jobs : JobStep(j)
<1>1. JobsOK'
  BY DEF JobsOK, States, Live
<1>2. \A j \in Jobs : state'[j] = state[j] \/ (state[j] \in Live /\ state'[j] # "none")
  BY AttemptParts DEF JobsOK, Proceeds
<1>3. "none" \notin Live
  BY DEF Live
<1> QED
  BY <1>1, <1>2, <1>3 DEF JobStep, Retried

\* A workflow that moves anywhere but to the link, and neither opens nor closes
\* a row but its own.
LEMMA WorkflowSteps ==
  ASSUME TypeOK, Tried, NEW a \in Attempts, Moves(a), FlowStep(a), at'[a] # "link",
         B!BudgetsTypeOK', Untouched \/ (Closes(a) /\ MayClose(a)),
         JobsOK', \A j \in Jobs : JobStep(j),
         UNCHANGED signalVars, faults' = faults \/ (faults > 0 /\ faults' = faults - 1)
  PROVE  Steps
<1>1. FlowOK' /\ \A b \in Attempts : FlowStep(b)
  BY TypeParts, FlowOfOne
<1>2. RestOK'
  BY TypeParts, Constants DEF RestOK, signalVars
<1>3. \A b \in Attempts : ~Arrives(b)
  BY DEF Arrives, Moves
<1>4. HoldStep
  BY <1>3 DEF HoldStep
<1> QED
  BY <1>1, <1>2, <1>4, TypeParts DEF Steps

LEMMA FaultsFall ==
  ASSUME NEW a
  PROVE  /\ Lost(a) => faults > 0 /\ faults' = faults - 1
         /\ \A P, x : Answers(a, P, x) =>
              faults' = faults \/ (faults > 0 /\ faults' = faults - 1)
BY DEF Lost, Answers

LEMMA QuietSteps ==
  ASSUME TypeOK, Tried, NEW a \in Attempts,
         \/ Deliver(a) \/ Denied(a) \/ PrepareCall(a) \/ ModelAnswers(a)
         \/ StopCall(a) \/ LoseAttempt(a)
  PROVE  Steps
<1>1. FlowOK /\ JobsOK /\ B!BudgetsTypeOK
  BY TypeParts
<1>2. UNCHANGED <<budgetVars, jobVars, signalVars>>
  BY DEF Deliver, Denied, PrepareCall, ModelAnswers, StopCall, LoseAttempt
<1>3. faults' = faults \/ (faults > 0 /\ faults' = faults - 1)
  BY DEF Deliver, Denied, PrepareCall, ModelAnswers, StopCall, LoseAttempt, Lost
<1>4. Moves(a) /\ FlowStep(a) /\ at'[a] # "link"
  <2>1. CASE Deliver(a)
    <3>1. at[a] = "idle"
      BY <2>1 DEF Deliver
    <3> QED
      BY <1>1, <2>1, <3>1, DeliverFlows DEF FlowStep
  <2>2. CASE LoseAttempt(a)
    BY <1>1, <2>2, LoseFlows
  <2>3. CASE Denied(a) \/ PrepareCall(a) \/ ModelAnswers(a) \/ StopCall(a)
    <3>1. Onward(a) /\ at[a] # "idle"
      BY <1>1, <2>3, OthersOnward
    <3> QED
      BY <1>1, <3>1, OnwardFlows DEF Onward, Late
  <2> QED
    BY <2>1, <2>2, <2>3
<1>5. JobsOK' /\ \A j \in Jobs : JobStep(j)
  BY <1>1, <1>2, SameJobs
<1>6. B!BudgetsTypeOK' /\ Untouched
  BY <1>1, <1>2, SameBudget
<1> QED
  BY <1>2, <1>3, <1>4, <1>5, <1>6, WorkflowSteps

LEMMA BeginSteps ==
  ASSUME TypeOK, Tried, NEW a \in Attempts, Begin(a)
  PROVE  Steps
<1>1. FlowOK /\ JobsOK /\ B!BudgetsTypeOK
  BY TypeParts
<1>2. UNCHANGED <<budgetVars, attempt, linked, output, signalVars>>
  BY DEF Begin
<1>3. faults' = faults \/ (faults > 0 /\ faults' = faults - 1)
  BY FaultsFall DEF Begin
<1>4. Moves(a) /\ FlowStep(a)
  BY <1>1, BeginFlows
<1>5. at'[a] # "link"
  BY <1>4 DEF FlowStep, Begin
<1>6. \/ state' = state
      \/ Proceeds(a) /\ state' = [state EXCEPT ![a[1]] = "generating"]
  BY DEF Begin
<1>7. JobsOK' /\ \A j \in Jobs : JobStep(j)
  BY <1>1, <1>2, <1>6, StateMoves
<1>8. B!BudgetsTypeOK' /\ Untouched
  BY <1>1, <1>2, SameBudget
<1> QED
  BY <1>2, <1>3, <1>4, <1>5, <1>7, <1>8, WorkflowSteps

LEMMA StateSteps ==
  ASSUME TypeOK, Tried, NEW a \in Attempts, RecordOutput(a) \/ Save(a) \/ Fail(a)
  PROVE  Steps
<1>1. FlowOK /\ JobsOK /\ B!BudgetsTypeOK
  BY TypeParts
<1>2. UNCHANGED <<budgetVars, attempt, linked, signalVars>>
  BY DEF RecordOutput, Save, Fail
<1>3. faults' = faults \/ (faults > 0 /\ faults' = faults - 1)
  BY FaultsFall DEF RecordOutput, Save, Fail
<1>4. Onward(a) /\ at[a] # "idle"
  BY <1>1, OthersOnward
<1>5. Moves(a) /\ FlowStep(a) /\ at'[a] # "link"
  BY <1>1, <1>4, OnwardFlows DEF Onward, Late
<1>6. JobsOK' /\ \A j \in Jobs : JobStep(j)
  <2>1. \E s \in {"validating", "completed", "failed"} :
          \/ state' = state
          \/ Proceeds(a) /\ state' = [state EXCEPT ![a[1]] = s]
    BY DEF RecordOutput, Save, Fail
  <2>2. output' = output \/ output' = [output EXCEPT ![a[1]] = TRUE]
    BY DEF RecordOutput, Save, Fail
  <2> QED
    BY <1>1, <1>2, <2>1, <2>2, StateMoves
<1>7. B!BudgetsTypeOK' /\ Untouched
  BY <1>1, <1>2, SameBudget
<1> QED
  BY <1>2, <1>3, <1>5, <1>6, <1>7, WorkflowSteps

LEMMA BillSteps ==
  ASSUME TypeOK, Tried, NEW a \in Attempts, Bill(a) \/ Settle(a)
  PROVE  Steps
<1>1. FlowOK /\ JobsOK /\ B!BudgetsTypeOK
  BY TypeParts
<1>2. UNCHANGED <<jobVars, signalVars>>
  BY DEF Bill, Settle
<1>3. faults' = faults \/ (faults > 0 /\ faults' = faults - 1)
  BY DEF Bill, Settle, Lost
<1>4. Onward(a) /\ at[a] # "idle"
  BY <1>1, OthersOnward
<1>5. Moves(a) /\ FlowStep(a) /\ at'[a] # "link"
  BY <1>1, <1>4, OnwardFlows DEF Onward, Late
<1>6. JobsOK' /\ \A j \in Jobs : JobStep(j)
  BY <1>1, <1>2, SameJobs
<1>7. CASE Bill(a)
  <2>1. B!Charge(Own(a), NewCharge(a))
    BY <1>7 DEF Bill
  <2>2. B!BudgetsTypeOK' /\ Untouched
    BY <1>1, <2>1, ChargeTouchesNone
  <2> QED
    BY <1>2, <1>3, <1>5, <1>6, <2>2, WorkflowSteps
<1>8. CASE Settle(a)
  <2>1. B!CloseOne(a, "settled") /\ at[a] = "settle"
    BY <1>8 DEF Settle, BudgetKey
  <2>2. B!BudgetsTypeOK' /\ (Untouched \/ Closes(a))
    BY <1>1, <2>1, CloseOneCloses
  <2>3. MayClose(a)
    BY <2>1 DEF MayClose
  <2> QED
    BY <1>2, <1>3, <1>5, <1>6, <2>2, <2>3, WorkflowSteps
<1> QED
  BY <1>7, <1>8

LEMMA ReserveSteps ==
  ASSUME TypeOK, Tried, NEW a \in Attempts, Reserve(a)
  PROVE  Steps
<1>1. FlowOK /\ JobsOK /\ B!BudgetsTypeOK /\ RestOK
  BY TypeParts
<1>2. UNCHANGED <<jobVars, signalVars>> /\ faults' = faults /\ at[a] = "reserve"
  BY DEF Reserve
<1>3. Moves(a) /\ FlowStep(a)
  BY <1>1, ReserveFlows
<1>4. JobsOK' /\ \A j \in Jobs : JobStep(j)
  BY <1>1, <1>2, SameJobs
<1>5. CASE UNCHANGED budgetVars /\ at'[a] # "link"
  <2>1. B!BudgetsTypeOK' /\ Untouched
    BY <1>1, <1>5, SameBudget
  <2> QED
    BY <1>2, <1>3, <1>4, <1>5, <2>1, WorkflowSteps
<1>6. CASE B!ReserveSpend(a) /\ Stage(a, "link")
  <2>1. B!BudgetsTypeOK' /\ Opens(a)
    BY <1>1, <1>6, ReserveOpens
  <2>2. Arrives(a)
    BY <1>1, <1>2, <1>6, StageMoves, PlacesAre DEF Arrives
  <2>3. \A b \in Attempts \ {a} : ~Arrives(b)
    BY <1>3 DEF Moves, Arrives
  <2>4. HoldStep
    BY <2>1, <2>2, <2>3 DEF HoldStep
  <2>5. FlowOK' /\ \A b \in Attempts : FlowStep(b)
    BY <1>1, <1>3, FlowOfOne
  <2>6. RestOK'
    BY <1>1, <1>2 DEF RestOK, signalVars
  <2> QED
    BY <1>4, <2>1, <2>4, <2>5, <2>6, TypeParts DEF Steps
<1>7. CASE UNCHANGED budgetVars /\ (GoOn(a, Proceeds(a), "model") \/ Fails(a))
  <2>1. Onward(a)
    BY <1>1, <1>2, <1>7, GoOnMoves, FailsMoves, PlacesAre DEF Late, AtEnd
  <2> QED
    BY <1>5, <1>7, <2>1 DEF Onward, Late
<1> QED
  BY <1>6, <1>7 DEF Reserve, BudgetKey

LEMMA OwnRow ==
  ASSUME NEW a \in Attempts, NEW n \in Nat
  PROVE  /\ Rows(a) = {a} \X (1..n) => Own(a) = <<a, n>>
         /\ Rows(a)' = {a} \X (1..n) => Own(a)' = <<a, n>>
<1>1. Cardinality({a} \X (1..n)) = n
  BY RowCount
<1> QED
  BY <1>1 DEF Own, BudgetKey, Rows

LEMMA LinkSteps ==
  ASSUME TypeOK, Tried, NEW a \in Attempts, Reservations(a), Link(a)
  PROVE  Steps
<1>1. FlowOK /\ JobsOK /\ B!BudgetsTypeOK
  BY TypeParts
<1>2. UNCHANGED <<state, attempt, output, signalVars>> /\ at[a] = "link"
  BY DEF Link
<1>3. faults' = faults \/ (faults > 0 /\ faults' = faults - 1)
  BY FaultsFall DEF Link
<1>4. Moves(a) /\ FlowStep(a) /\ at'[a] # "link"
  BY <1>1, LinkFlows
<1>5. CASE Proceeds(a)
  <2>1. linked' = [linked EXCEPT ![a[1]] = Own(a)] /\ UNCHANGED budgetVars
    BY <1>5 DEF Link
  <2>2. Own(a) \in B!Ids
    <3>1. PICK n \in 1..MaxReservations : Rows(a) = {a} \X (1..n)
      BY <1>2, Constants DEF Reservations
    <3>2. Own(a) = <<a, n>>
      BY <3>1, OwnRow, Constants
    <3> QED
      BY <3>2 DEF B!Ids
  <2>3. B!BudgetsTypeOK' /\ Untouched
    BY <1>1, <2>1, SameBudget
  <2>4. JobsOK'
    BY <1>1, <1>2, <2>1, <2>2 DEF JobsOK
  <2>5. a[1] \in Jobs /\ Current(a[1]) = a /\ state[a[1]] \in Live
    BY <1>5, AttemptParts DEF Proceeds, Current
  <2>6. Links(a[1])
    BY <1>1, <1>2, <1>4, <2>1, <2>3, <2>5 DEF Links, JobsOK
  <2>7. \A j \in Jobs : JobStep(j)
    BY <1>1, <1>2, <2>1, <2>6 DEF JobStep, Retried, JobsOK
  <2> QED
    BY <1>2, <1>3, <1>4, <2>3, <2>4, <2>7, WorkflowSteps
<1>6. CASE ~Proceeds(a)
  <2>1. B!CloseOne(a, "released") /\ UNCHANGED jobVars
    BY <1>2, <1>6 DEF Link, BudgetKey, jobVars
  <2>2. B!BudgetsTypeOK' /\ (Untouched \/ Closes(a))
    BY <1>1, <2>1, CloseOneCloses
  <2>3. MayClose(a)
    BY <1>2, <1>4, <1>6 DEF MayClose
  <2>4. JobsOK' /\ \A j \in Jobs : JobStep(j)
    BY <1>1, <2>1, SameJobs
  <2> QED
    BY <1>2, <1>3, <1>4, <2>2, <2>3, <2>4, WorkflowSteps
<1> QED
  BY <1>5, <1>6

\* People and the relay leave the workflows where they are.
LEMMA FlowStays ==
  ASSUME TypeOK, Tried, UNCHANGED flowVars
  PROVE  /\ FlowOK' /\ \A a \in Attempts : FlowStep(a)
         /\ \A a \in Attempts : ~Arrives(a)
<1>1. FlowOK /\ at' = at /\ tries' = tries
  BY TypeParts DEF flowVars
<1> QED
  BY <1>1, StillFlows DEF FlowOK, Arrives

LEMMA ReleaseCloses ==
  ASSUME TypeOK, NEW j \in Jobs, ReleaseLinked(j),
         state'[j] \notin Live \/ linked'[j] = None
  PROVE  /\ B!BudgetsTypeOK'
         /\ Untouched \/ \E a \in Attempts : Closes(a) /\ MayClose(a)
<1>1. JobsOK /\ B!BudgetsTypeOK
  BY TypeParts
<1>2. CASE linked[j] = None
  BY <1>1, <1>2, SameBudget DEF ReleaseLinked
<1>3. CASE linked[j] # None
  <2>1. linked[j][1] \in Attempts
    BY <1>1, <1>3, IdParts DEF JobsOK
  <2>2. B!CloseOne(linked[j][1], "released")
    BY <1>3 DEF ReleaseLinked
  <2>3. B!BudgetsTypeOK' /\ (Untouched \/ Closes(linked[j][1]))
    BY <1>1, <2>2, CloseOneCloses
  <2>4. MayClose(linked[j][1])
    BY <1>3 DEF MayClose
  <2> QED
    BY <2>1, <2>3, <2>4
<1> QED
  BY <1>2, <1>3

LEMMA StartSteps ==
  ASSUME TypeOK, Tried, NEW j \in Jobs, LinkedOwn(j), Start(j)
  PROVE  Steps
<1>1. JobsOK /\ B!BudgetsTypeOK /\ RestOK
  BY TypeParts
<1>2. /\ UNCHANGED <<budgetVars, attempt, linked, output, flowVars, signalVars, faults>>
      /\ state[j] = "none" /\ state' = [state EXCEPT ![j] = "queued"]
  BY DEF Start
<1>3. FlowOK' /\ (\A a \in Attempts : FlowStep(a)) /\ \A a \in Attempts : ~Arrives(a)
  BY <1>2, FlowStays
<1>4. JobsOK'
  BY <1>1, <1>2 DEF JobsOK, States, Live
<1>5. linked[j] = None
  BY <1>2 DEF LinkedOwn
<1>6. \A i \in Jobs : JobStep(i)
  BY <1>1, <1>2, <1>5 DEF JobStep, Retried, JobsOK
<1>7. B!BudgetsTypeOK' /\ Untouched
  BY <1>1, <1>2, SameBudget
<1>8. RestOK'
  BY <1>1, <1>2 DEF RestOK, signalVars
<1> QED
  BY <1>3, <1>4, <1>6, <1>7, <1>8, TypeParts DEF Steps, HoldStep

LEMMA CancelSteps ==
  ASSUME TypeOK, Tried, NEW j \in Jobs, Cancel(j)
  PROVE  Steps
<1>1. JobsOK /\ B!BudgetsTypeOK /\ RestOK
  BY TypeParts
<1>2. /\ UNCHANGED <<attempt, linked, output, flowVars, told, faults>>
      /\ state[j] \in Live /\ state' = [state EXCEPT ![j] = "cancelled"]
      /\ ReleaseLinked(j) /\ asked' = asked \cup {<<j, attempt[j]>>}
  BY DEF Cancel
<1>3. FlowOK' /\ (\A a \in Attempts : FlowStep(a)) /\ \A a \in Attempts : ~Arrives(a)
  BY <1>2, FlowStays
<1>4. JobsOK' /\ state'[j] \notin Live
  BY <1>1, <1>2 DEF JobsOK, States, Live
<1>5. \A i \in Jobs : JobStep(i)
  BY <1>1, <1>2, <1>4 DEF JobStep, Retried, JobsOK
<1>6. /\ B!BudgetsTypeOK'
      /\ Untouched \/ \E a \in Attempts : Closes(a) /\ MayClose(a)
  BY <1>2, <1>4, ReleaseCloses
<1>7. RestOK'
  BY <1>1, <1>2 DEF RestOK, JobsOK, Attempts
<1> QED
  BY <1>3, <1>4, <1>5, <1>6, <1>7, TypeParts DEF Steps, HoldStep

\* A job has had as many retries as its attempts before the present one.
LEMMA RetriesBound ==
  ASSUME JobsOK, NEW j \in Jobs,
         Cardinality({a \in Attempts : a[2] < attempt[a[1]]}) < MaxRetries
  PROVE  attempt[j] + 1 \in 1..MaxAttempts
<1> DEFINE past == {a \in Attempts : a[2] < attempt[a[1]]}
           mine == {j} \X (1..(attempt[j] - 1))
<1>1. MaxRetries \in Nat /\ IsFiniteSet(Jobs)
  BY GenerationAssumption DEF GenerationAssumption
<1>2. attempt[j] \in 1..MaxAttempts /\ attempt[j] - 1 \in Nat
  BY <1>1 DEF JobsOK, MaxAttempts
<1>3. IsFiniteSet(Attempts)
  <2>1. IsFiniteSet(1..MaxAttempts)
    BY <1>1, FS_Interval DEF MaxAttempts
  <2> QED
    BY <1>1, <2>1, FS_Product DEF Attempts
<1>4. IsFiniteSet(past)
  BY <1>3, FS_Subset
<1>5. mine \subseteq past
  <2>1. ASSUME NEW k \in 1..(attempt[j] - 1)
        PROVE  <<j, k>> \in past
    BY <1>1, <1>2 DEF Attempts, MaxAttempts
  <2> QED
    BY <2>1
<1>6. Cardinality(mine) = attempt[j] - 1
  BY <1>2, RowCount
<1>7. Cardinality(mine) <= Cardinality(past)
  BY <1>4, <1>5, FS_Subset
<1>8. Cardinality(past) \in Nat
  BY <1>4, FS_CardinalityType
<1> HIDE DEF past, mine
<1>9. attempt[j] - 1 < MaxRetries
  BY <1>1, <1>2, <1>6, <1>7, <1>8 DEF past
<1> QED
  BY <1>1, <1>2, <1>9 DEF MaxAttempts

LEMMA RetrySteps ==
  ASSUME TypeOK, Tried, NEW j \in Jobs, Retry(j)
  PROVE  Steps
<1>1. JobsOK /\ B!BudgetsTypeOK /\ RestOK
  BY TypeParts
<1>2. /\ UNCHANGED <<flowVars, signalVars, faults>>
      /\ state' = [state EXCEPT ![j] = "queued"]
      /\ attempt' = [attempt EXCEPT ![j] = attempt[j] + 1]
      /\ ReleaseLinked(j)
      /\ linked' = [linked EXCEPT ![j] = None]
      /\ output' = [output EXCEPT ![j] = FALSE]
  BY DEF Retry
<1>3. FlowOK' /\ (\A a \in Attempts : FlowStep(a)) /\ \A a \in Attempts : ~Arrives(a)
  BY <1>2, FlowStays
<1>4. attempt[j] + 1 \in 1..MaxAttempts
  BY <1>1, RetriesBound DEF Retry
<1>5. JobsOK' /\ linked'[j] = None
  BY <1>1, <1>2, <1>4 DEF JobsOK, States, Live
<1>6. \A i \in Jobs : JobStep(i)
  BY <1>1, <1>2, <1>5 DEF JobStep, Retried, JobsOK
<1>7. /\ B!BudgetsTypeOK'
      /\ Untouched \/ \E a \in Attempts : Closes(a) /\ MayClose(a)
  BY <1>2, <1>5, ReleaseCloses
<1>8. RestOK'
  BY <1>1, <1>2 DEF RestOK, signalVars
<1> QED
  BY <1>3, <1>5, <1>6, <1>7, <1>8, TypeParts DEF Steps, HoldStep

LEMMA RelaySteps ==
  ASSUME TypeOK, Tried, UNCHANGED vars \/ \E a \in Attempts : RelayCancel(a)
  PROVE  Steps
<1>1. JobsOK /\ B!BudgetsTypeOK /\ RestOK
  BY TypeParts
<1>2. UNCHANGED <<budgetVars, jobVars, flowVars, asked, faults>>
  BY DEF vars, RelayCancel, signalVars
<1>3. told' \subseteq asked
  BY <1>1 DEF vars, RelayCancel, signalVars, RestOK
<1>4. FlowOK' /\ (\A a \in Attempts : FlowStep(a)) /\ \A a \in Attempts : ~Arrives(a)
  BY <1>2, FlowStays
<1>5. JobsOK' /\ \A i \in Jobs : JobStep(i)
  BY <1>1, <1>2, SameJobs
<1>6. B!BudgetsTypeOK' /\ Untouched
  BY <1>1, <1>2, SameBudget
<1>7. RestOK'
  BY <1>1, <1>2, <1>3 DEF RestOK
<1> QED
  BY <1>4, <1>5, <1>6, <1>7, TypeParts DEF Steps, HoldStep

LEMMA NextSteps == GenerationInv /\ [Next]_vars => Steps
<1> SUFFICES ASSUME GenerationInv, [Next]_vars PROVE Steps
  OBVIOUS
<1>1. /\ TypeOK /\ Tried
      /\ \A a \in Attempts : Reservations(a)
      /\ \A j \in Jobs : LinkedOwn(j)
  BY DEF GenerationInv, Linking, Tried
<1>2. ASSUME NEW a \in Attempts, Workflow(a) \/ LoseAttempt(a) PROVE Steps
  BY <1>1, <1>2, QuietSteps, BeginSteps, StateSteps, BillSteps, ReserveSteps, LinkSteps
     DEF Workflow
<1>3. ASSUME NEW j \in Jobs, Start(j) \/ Cancel(j) \/ Retry(j) PROVE Steps
  BY <1>1, <1>3, StartSteps, CancelSteps, RetrySteps
<1> QED
  BY <1>1, <1>2, <1>3, RelaySteps DEF Next

-----------------------------------------------------------------------------
(* The invariant is preserved *)

\* An attempt that arrives at its link has opened the next of its rows.
LEMMA ArrivalOpens ==
  ASSUME GenerationInv, Steps, NEW a \in Attempts, Opens(a), Arrives(a)
  PROVE  \E n \in 0..MaxReservations :
           /\ n < MaxReservations /\ n + tries[a] <= ActTries
           /\ Rows(a) = {a} \X (1..n) /\ Rows(a)' = {a} \X (1..(n + 1))
           /\ held'[<<a, n + 1>>] = "held"
           /\ \A b : b # a => Rows(b)' = Rows(b)
           /\ \A i \in B!Ids : held[i] = "held" => held'[i] = "held"
<1>1. B!BudgetsTypeOK /\ Reservations(a) /\ Linking(a) /\ FlowOK
  BY TypeParts DEF GenerationInv
<1>2. at[a] = "reserve"
  BY DEF Steps, FlowStep, Arrives
<1>3. tries[a] >= 1 /\ tries[a] \in Nat
  BY <1>1, <1>2, Constants DEF Linking, FlowOK
<1>4. PICK n \in 0..MaxReservations :
        Rows(a) = {a} \X (1..n) /\ n + tries[a] <= ActTries
  BY <1>1, <1>2 DEF Reservations
<1>5. n \in Nat /\ n < MaxReservations
  BY <1>3, <1>4, Constants
<1>6. /\ Rows(a)' = {a} \X (1..(n + 1))
      /\ held'[<<a, n + 1>>] = "held"
      /\ \A b : b # a => Rows(b)' = Rows(b)
      /\ \A i \in B!Ids : held[i] = "held" => held'[i] = "held"
  BY <1>1, <1>4, <1>5, RowsGrow
<1> QED
  BY <1>4, <1>5, <1>6

LEMMA RowsStep ==
  ASSUME GenerationInv, Steps, NEW a \in Attempts, ~Arrives(a)
  PROVE  Rows(a)' = Rows(a)
<1>1. B!BudgetsTypeOK
  BY TypeParts DEF GenerationInv
<1>2. CASE Untouched \/ \E b \in Attempts : Closes(b)
  BY <1>1, <1>2, RowsStay
<1>3. CASE \E b \in Attempts : Opens(b) /\ Arrives(b)
  <2>1. PICK b \in Attempts : Opens(b) /\ Arrives(b)
    BY <1>3
  <2>2. a # b
    BY <2>1
  <2> QED
    BY <2>1, <2>2, ArrivalOpens
<1> QED
  BY <1>2, <1>3 DEF Steps, HoldStep

\* A row is closed by one who may close it.
LEMMA HeldStep ==
  ASSUME GenerationInv, Steps, NEW i \in B!Ids, held[i] = "held", held'[i] # "held"
  PROVE  MayClose(i[1])
<1>1. B!BudgetsTypeOK
  BY TypeParts DEF GenerationInv
<1>2. ~Untouched
  BY DEF Untouched
<1>3. ~\E b \in Attempts : Opens(b) /\ Arrives(b)
  BY ArrivalOpens
<1>4. PICK a \in Attempts : Closes(a) /\ MayClose(a)
  BY <1>2, <1>3 DEF Steps, HoldStep
<1>5. i \in Rows(a)
  BY <1>1, <1>4 DEF Closes, B!BudgetsTypeOK
<1>6. i[1] = a
  BY <1>5 DEF Rows, B!OwnedBy
<1> QED
  BY <1>4, <1>6

LEMMA ReservationsStep ==
  ASSUME GenerationInv, Steps, NEW a \in Attempts
  PROVE  Reservations(a)'
<1>1. Reservations(a) /\ Linking(a) /\ FlowOK /\ FlowOK' /\ FlowStep(a)
  BY TypeParts DEF GenerationInv, Steps
<1>2. tries[a] \in Nat /\ tries'[a] \in Nat
  BY <1>1, Constants DEF FlowOK
<1>3. PICK n \in 0..MaxReservations :
        /\ Rows(a) = {a} \X (1..n)
        /\ at[a] \in {"idle", "begin"} => n = 0
        /\ at[a] = "reserve" => n + tries[a] <= ActTries
        /\ at[a] = "link" => n + tries[a] <= ActTries + 1 /\ n >= 1
  BY <1>1 DEF Reservations
<1>4. CASE ~Arrives(a)
  <2>1. Rows(a)' = {a} \X (1..n)
    BY <1>3, <1>4, RowsStep
  <2>2. at'[a] \in {"idle", "begin"} => n = 0
    BY <1>1, <1>3 DEF FlowStep
  <2>3. at'[a] = "reserve" => n + tries'[a] <= ActTries
    <3> SUFFICES ASSUME at'[a] = "reserve" PROVE n + tries'[a] <= ActTries
      OBVIOUS
    <3>1. \/ at[a] = "begin" /\ tries'[a] = ActTries
          \/ at[a] = "reserve" /\ tries'[a] <= tries[a]
          \/ at[a] = "link" /\ tries'[a] < tries[a]
      BY <1>1 DEF FlowStep
    <3> QED
      BY <1>2, <1>3, <3>1, Constants
  <2>4. at'[a] = "link" => n + tries'[a] <= ActTries + 1 /\ n >= 1
    BY <1>1, <1>3, <1>4 DEF FlowStep, Arrives
  <2> QED
    BY <2>1, <2>2, <2>3, <2>4 DEF Reservations
<1>5. CASE Arrives(a)
  <2>1. Opens(a) /\ at'[a] = "link" /\ tries'[a] = tries[a]
    BY <1>1, <1>5 DEF FlowStep, Arrives
  <2>2. PICK m \in 0..MaxReservations :
          /\ m < MaxReservations /\ m + tries[a] <= ActTries
          /\ Rows(a)' = {a} \X (1..(m + 1))
    BY <1>5, <2>1, ArrivalOpens
  <2>3. m + 1 \in 0..MaxReservations /\ m + 1 >= 1
        /\ (m + 1) + tries'[a] <= ActTries + 1
    BY <1>2, <2>1, <2>2, Constants
  <2> QED
    BY <2>1, <2>2, <2>3 DEF Reservations
<1> QED
  BY <1>4, <1>5

LEMMA LinkedOwnStep ==
  ASSUME GenerationInv, Steps, NEW j \in Jobs
  PROVE  LinkedOwn(j)'
<1>1. LinkedOwn(j) /\ JobStep(j)
  BY DEF GenerationInv, Steps
<1>2. "none" \notin Live
  BY DEF Live
<1>3. CASE linked'[j] = None
  BY <1>3 DEF LinkedOwn
<1>4. CASE linked'[j] # None /\ linked'[j] = linked[j]
  BY <1>1, <1>4 DEF LinkedOwn, JobStep, Retried, Current
<1>5. CASE Links(j)
  <2>1. linked'[j][1] = Current(j) /\ attempt'[j] = attempt[j] /\ state[j] # "none"
    BY <1>2, <1>5 DEF Links, Own, BudgetKey
  <2> QED
    BY <1>1, <2>1 DEF LinkedOwn, JobStep, Retried, Current
<1> QED
  BY <1>1, <1>3, <1>4, <1>5 DEF JobStep, Retried

LEMMA LinkingStep ==
  ASSUME GenerationInv, Steps, NEW a \in Attempts
  PROVE  Linking(a)'
<1>1. /\ Linking(a) /\ Reservations(a) /\ FlowStep(a) /\ TypeOK
      /\ a[1] \in Jobs /\ a[2] \in Nat /\ a = <<a[1], a[2]>>
      /\ LinkedOwn(a[1]) /\ JobStep(a[1])
  BY AttemptParts DEF GenerationInv, Steps
<1>2. attempt[a[1]] \in Nat /\ attempt'[a[1]] \in {attempt[a[1]], attempt[a[1]] + 1}
  BY <1>1, TypeParts DEF JobsOK, JobStep, Retried
<1>3. a[2] > attempt'[a[1]] => at'[a] = "idle"
  BY <1>1, <1>2 DEF Linking, FlowStep
<1>4. ASSUME at'[a] = "link", attempt'[a[1]] = a[2]
      PROVE  linked'[a[1]] = None /\ held'[Own(a)'] = "held"
  <2>1. CASE Arrives(a)
    <3>1. Opens(a) /\ Proceeds(a) /\ ~Linked(a) /\ UNCHANGED jobVars
      BY <1>1, <2>1 DEF FlowStep, Arrives
    <3>2. linked[a[1]] = None
      BY <1>1, <3>1 DEF Linked, LinkedOwn, Proceeds, Current, BudgetKey
    <3>3. PICK n \in 0..MaxReservations :
            Rows(a)' = {a} \X (1..(n + 1)) /\ held'[<<a, n + 1>>] = "held"
      BY <2>1, <3>1, ArrivalOpens
    <3>4. Own(a)' = <<a, n + 1>>
      BY <3>3, OwnRow, Constants
    <3> QED
      BY <3>1, <3>2, <3>3, <3>4 DEF jobVars
  <2>2. CASE ~Arrives(a)
    <3>1. at[a] = "link"
      BY <1>4, <2>2 DEF Arrives
    <3>2. attempt[a[1]] = a[2]
      BY <1>1, <1>2, <1>4, <3>1 DEF Linking
    <3>3. linked[a[1]] = None /\ held[Own(a)] = "held"
      BY <1>1, <3>1, <3>2 DEF Linking
    <3>4. linked'[a[1]] = None
      <4>1. ~Links(a[1])
        BY <1>1, <1>4, <3>2 DEF Links, Current
      <4> QED
        BY <1>1, <3>3, <4>1 DEF JobStep, Retried
    <3>5. PICK n \in 1..MaxReservations : Rows(a) = {a} \X (1..n)
      BY <1>1, <3>1, Constants DEF Reservations
    <3>6. Rows(a)' = {a} \X (1..n)
      BY <2>2, <3>5, RowsStep
    <3>7. Own(a) = <<a, n>> /\ Own(a)' = <<a, n>> /\ <<a, n>> \in B!Ids
      BY <3>5, <3>6, OwnRow, Constants DEF B!Ids
    <3>8. held'[<<a, n>>] = "held"
      <4> SUFFICES ASSUME held'[<<a, n>>] # "held" PROVE FALSE
        OBVIOUS
      <4>1. MayClose(a)
        BY <3>3, <3>7, HeldStep
      <4>2. PICK j \in Jobs : linked[j] # None /\ a = linked[j][1]
        BY <1>4, <3>1, <4>1 DEF MayClose
      <4>3. a = Current(j)
        BY <4>2 DEF GenerationInv, LinkedOwn
      <4>4. j = a[1]
        BY <1>1, <4>3 DEF Current
      <4> QED
        BY <3>3, <4>2, <4>4
    <3> QED
      BY <3>4, <3>7, <3>8
  <2> QED
    BY <2>1, <2>2
<1>5. at'[a] # "idle" => tries'[a] >= 1
  BY <1>1 DEF FlowStep
<1> QED
  BY <1>3, <1>4, <1>5 DEF Linking

LEMMA LiveStep ==
  ASSUME GenerationInv, Steps
  PROVE  LiveAttemptHolds'
<1> SUFFICES ASSUME NEW j \in Jobs, state'[j] \in Live, linked'[j] # None
             PROVE  /\ linked'[j][1] = <<j, attempt'[j]>>
                    /\ \/ held'[linked'[j]] = "held"
                       \/ at'[<<j, attempt'[j]>>] \in {"settle", "over"}
  BY DEF LiveAttemptHolds
<1>1. linked'[j][1] = <<j, attempt'[j]>>
  BY LinkedOwnStep DEF LinkedOwn, Current
<1>2. JobStep(j) /\ JobsOK /\ LinkedOwn(j)
  BY TypeParts DEF Steps, GenerationInv
<1>3. state[j] \in Live /\ attempt'[j] = attempt[j]
  BY <1>2 DEF JobStep, Retried
<1>4. Current(j) \in Attempts /\ FlowStep(Current(j))
  BY <1>2 DEF Current, Attempts, JobsOK, Steps
<1>5. CASE linked'[j] = linked[j]
  <2>1. linked[j] \in B!Ids /\ linked[j][1] = Current(j)
    BY <1>2, <1>5 DEF JobsOK, LinkedOwn
  <2>2. CASE at[Current(j)] \in AtEnd
    <3>1. at'[Current(j)] \in {"settle", "over"}
      BY <1>4, <2>2 DEF FlowStep, AtEnd
    <3>2. Current(j) = <<j, attempt'[j]>>
      BY <1>3 DEF Current
    <3> QED
      BY <1>1, <3>1, <3>2
  <2>3. CASE at[Current(j)] \notin AtEnd
    <3>1. held[linked[j]] = "held"
      BY <1>3, <1>5, <2>3 DEF GenerationInv, LiveAttemptHolds, Current, AtEnd
    <3>2. ~MayClose(Current(j))
      <4>1. at[Current(j)] # "settle"
        BY <2>3 DEF AtEnd
      <4>2. Proceeds(Current(j))
        BY <1>3 DEF Proceeds, Current
      <4>3. ASSUME NEW i \in Jobs, linked[i] # None, Current(j) = linked[i][1],
                   state'[i] \notin Live \/ linked'[i] = None
            PROVE  FALSE
        <5>1. Current(i) = Current(j)
          BY <4>3 DEF GenerationInv, LinkedOwn
        <5>2. i = j
          BY <5>1 DEF Current
        <5> QED
          BY <4>3, <5>2
      <4> QED
        BY <4>1, <4>2, <4>3 DEF MayClose
    <3>3. held'[linked[j]] = "held"
      BY <2>1, <3>1, <3>2, HeldStep
    <3> QED
      BY <1>1, <1>5, <3>3
  <2> QED
    BY <2>2, <2>3
<1>6. CASE Links(j)
  <2>1. Linking(Current(j)) /\ at[Current(j)] = "link"
    BY <1>4, <1>6 DEF GenerationInv, Links
  <2>2. held[Own(Current(j))] = "held"
    BY <2>1 DEF Linking, Current
  <2> QED
    BY <1>1, <1>6, <2>2 DEF Links, Untouched
<1> QED
  BY <1>1, <1>2, <1>5, <1>6 DEF JobStep, Retried

LEMMA GenerationInit == Init => GenerationInv
<1> SUFFICES ASSUME Init PROVE GenerationInv
  OBVIOUS
<1>1. TypeOK
  <2>1. B!BudgetsTypeOK
    BY DEF Init, B!BudgetsInit, B!BudgetsTypeOK
  <2>2. JobsOK
    BY Constants DEF Init, JobsOK, States
  <2>3. FlowOK
    BY Constants, PlacesAre DEF Init, FlowOK
  <2>4. RestOK
    BY Constants DEF Init, RestOK
  <2> QED
    BY <2>1, <2>2, <2>3, <2>4, TypeParts
<1>2. ASSUME NEW a \in Attempts PROVE Reservations(a) /\ Linking(a)
  <2>1. at[a] = "idle" /\ Rows(a) = {}
    BY <1>2 DEF Init, Rows, B!OwnedBy, B!BudgetsInit
  <2>2. {a} \X (1..0) = {}
    OBVIOUS
  <2>3. 0 \in 0..MaxReservations
    BY Constants
  <2>4. Reservations(a)
    BY <2>1, <2>2, <2>3 DEF Reservations
  <2> QED
    BY <2>1, <2>4 DEF Linking
<1>3. \A j \in Jobs : linked[j] = None
  BY DEF Init
<1> QED
  BY <1>1, <1>2, <1>3 DEF GenerationInv, LinkedOwn, LiveAttemptHolds

LEMMA GenerationNext == GenerationInv /\ [Next]_vars => GenerationInv'
<1> SUFFICES ASSUME GenerationInv, [Next]_vars PROVE GenerationInv'
  OBVIOUS
<1>1. Steps
  BY NextSteps
<1>2. TypeOK'
  BY <1>1 DEF Steps
<1>3. \A a \in Attempts : Reservations(a)' /\ Linking(a)'
  BY <1>1, ReservationsStep, LinkingStep
<1>4. \A j \in Jobs : LinkedOwn(j)'
  BY <1>1, LinkedOwnStep
<1>5. LiveAttemptHolds'
  BY <1>1, LiveStep
<1> QED
  BY <1>2, <1>3, <1>4, <1>5 DEF GenerationInv

\* The rows, jobs and workflows stay well typed: no attempt comes to own more
\* rows than it has attempts of its reservation, and no job more attempts than
\* retries allow.
THEOREM GenerationTypeCorrect == Spec => []TypeOK
<1>1. GenerationInv => TypeOK
  BY DEF GenerationInv
<1> QED
  BY <1>1, GenerationInit, GenerationNext, PTL DEF Spec

\* While a job goes on its reservation is its attempt's own and open until that
\* attempt settles it, whatever cancels, retries, lost attempts and workflows of
\* earlier attempts do.
THEOREM LiveAttemptKeepsItsReservation == Spec => []LiveAttemptHolds
<1>1. GenerationInv => LiveAttemptHolds
  BY DEF GenerationInv
<1> QED
  BY <1>1, GenerationInit, GenerationNext, PTL DEF Spec

-----------------------------------------------------------------------------
(* Sums *)

\* The units a sum counts.
Units(f, S) == UNION {{x} \X (1..f[x]) : x \in S}

LEMMA UnitsFinite ==
  ASSUME NEW S, IsFiniteSet(S), NEW f, \A x \in S : f[x] \in Nat
  PROVE  IsFiniteSet(Units(f, S))
<1> DEFINE each == [x \in S |-> {x} \X (1..f[x])]
           parts == {{x} \X (1..f[x]) : x \in S}
<1>1. each \in Surjection(S, parts)
  BY DEF Surjection
<1>2. IsFiniteSet(parts)
  BY <1>1, FS_Surjection DEF ExistsSurjection
<1>3. ASSUME NEW x \in S PROVE IsFiniteSet({x} \X (1..f[x]))
  <2>1. IsFiniteSet({x})
    BY FS_Singleton
  <2>2. IsFiniteSet(1..f[x])
    BY FS_Interval
  <2> QED
    BY <2>1, <2>2, FS_Product
<1>4. \A T \in parts : IsFiniteSet(T)
  BY <1>3
<1> QED
  BY <1>2, <1>4, FS_UNION DEF Units

LEMMA UnitsOfOne ==
  ASSUME NEW S, IsFiniteSet(S), NEW f, \A x \in S : f[x] \in Nat, NEW x \in S
  PROVE  Cardinality(Units(f, S)) = Cardinality(Units(f, S \ {x})) + f[x]
<1> DEFINE own == {x} \X (1..f[x])
           rest == Units(f, S \ {x})
<1>1. IsFiniteSet(rest)
  BY UnitsFinite, FS_RemoveElement
<1>2. IsFiniteSet(own) /\ Cardinality(own) = f[x]
  <2>1. IsFiniteSet({x}) /\ Cardinality({x}) = 1
    BY FS_Singleton
  <2>2. IsFiniteSet(1..f[x]) /\ Cardinality(1..f[x]) = f[x]
    BY FS_Interval
  <2> QED
    BY <2>1, <2>2, FS_Product
<1>3. Units(f, S) = rest \cup own
  BY DEF Units
<1>4. rest \cap own = {}
  BY DEF Units
<1>5. Cardinality(rest) \in Nat
  BY <1>1, FS_CardinalityType
<1> HIDE DEF rest, own
<1>6. Cardinality(rest \cup own) = Cardinality(rest) + Cardinality(own) - Cardinality(rest \cap own)
  BY <1>1, <1>2, FS_Union
<1>7. Cardinality(rest \cap own) = 0
  BY <1>4, FS_EmptySet
<1> QED
  BY <1>2, <1>3, <1>5, <1>6, <1>7 DEF rest

LEMMA TotalIs ==
  ASSUME NEW S, NEW f \in [S -> Nat]
  PROVE  B!Total(f) = Cardinality(Units(f, S))
<1>1. DOMAIN f = S
  OBVIOUS
<1>2. B!Total(f) = B!Cardinality(Units(f, S))
  BY <1>1 DEF B!Total, Units
<1>3. B!Cardinality(Units(f, S)) = Cardinality(Units(f, S))
  BY DEF B!Cardinality, Cardinality
<1> QED
  BY <1>2, <1>3

\* A sum is a number, and changes by what one of its terms changes by.
LEMMA TotalType ==
  ASSUME NEW S, IsFiniteSet(S), NEW f \in [S -> Nat]
  PROVE  B!Total(f) \in Nat
BY TotalIs, UnitsFinite, FS_CardinalityType

LEMMA TotalUpdate ==
  ASSUME NEW S, IsFiniteSet(S), NEW f \in [S -> Nat], NEW g \in [S -> Nat],
         NEW x \in S, \A y \in S \ {x} : g[y] = f[y]
  PROVE  B!Total(g) + f[x] = B!Total(f) + g[x]
<1>1. Units(g, S \ {x}) = Units(f, S \ {x})
  BY DEF Units
<1>2. Cardinality(Units(f, S \ {x})) \in Nat
  BY UnitsFinite, FS_RemoveElement, FS_CardinalityType
<1>3. /\ Cardinality(Units(f, S)) = Cardinality(Units(f, S \ {x})) + f[x]
      /\ Cardinality(Units(g, S)) = Cardinality(Units(g, S \ {x})) + g[x]
  BY UnitsOfOne
<1>4. f[x] \in Nat /\ g[x] \in Nat
  OBVIOUS
<1> QED
  BY <1>1, <1>2, <1>3, <1>4, TotalIs

-----------------------------------------------------------------------------
(* Model calls.  Each of an attempt's calls takes one attempt of             *)
(* callGenerationModel, so it charges no more often than there are those.    *)

Early == {"idle", "begin", "reserve", "link"}
Answered == {"closed", "refused", "record"}
Ending == {"fail", "settle", "over"}

\* A model call is made when the reservation is linked, is billed once answered,
\* and is made again only by another attempt of the activity.  What has failed
\* ends, and so does what is stopped before or after its call.
CallStep(a) ==
  /\ at'[a] \in Early => at[a] \in Early
  /\ at'[a] = "idle" => at[a] = "idle"
  /\ at[a] = "idle" => at'[a] = "idle" \/ state[a[1]] # "none"
  /\ at[a] \in Ending => at'[a] \in Ending
  /\ at'[a] = "bill" => at[a] \in {"ask", "bill"} /\ tries'[a] = tries[a]
  /\ at'[a] = "ask" =>
       /\ tries'[a] = tries[a]
       /\ at[a] = "ask" \/ (at[a] = "model" /\ Linked(a))
  /\ at'[a] = "model" =>
       \/ at[a] \in Early /\ tries'[a] <= ModelTries
       \/ at[a] = "model" /\ tries'[a] <= tries[a]
       \/ at[a] \in Answered \cup {"ask", "bill"} /\ tries'[a] < tries[a]
  /\ at'[a] \in Answered => at[a] \in {at'[a], "bill"} /\ tries'[a] = tries[a]
  /\ at[a] \in {"closed", "model"} /\ ~Proceeds(a) =>
       at'[a] \in {"closed", "model"} \cup Ending

LEMMA StillCalls ==
  ASSUME FlowOK, NEW b \in Attempts, at'[b] = at[b], tries'[b] = tries[b]
  PROVE  CallStep(b)
<1>1. tries[b] \in Nat
  BY Constants DEF FlowOK
<1>2. tries'[b] <= tries[b]
  BY <1>1
<1> QED
  BY <1>2 DEF CallStep, Early, Answered, Ending

LEMMA FailsCalls ==
  ASSUME FlowOK, NEW a \in Attempts, at[a] \notin {"idle", "over"}, Fails(a)
  PROVE  CallStep(a) /\ at'[a] \in Ending
<1> DEFINE x == IF at[a] = "settle" THEN "over"
                ELSE IF at[a] = "fail" THEN "settle" ELSE "fail"
<1>1. x \in Places /\ x \in Ending
  BY PlacesAre DEF Ending
<1>2. Enter(a, x)
  BY DEF Fails
<1> HIDE DEF x
<1>3. at'[a] \in Ending
  BY <1>1, <1>2, EnterMoves
<1> QED
  BY <1>3 DEF CallStep, Ending, Early, Answered

LEMMA AgainCalls ==
  ASSUME FlowOK, NEW a \in Attempts, at[a] \notin {"idle", "over"}, Again(a)
  PROVE  CallStep(a)
<1>1. at[a] \in Places /\ tries[a] \in Nat
  BY Constants DEF FlowOK
<1>2. CASE tries[a] > 1
  <2>1. at'[a] = Entry[at[a]] /\ tries'[a] = tries[a] - 1
    BY <1>2 DEF Again, FlowOK
  <2>2. \/ at[a] = "begin" /\ at'[a] = "begin"
        \/ at[a] \in {"reserve", "link"} /\ at'[a] = "reserve"
        \/ at[a] \in Answered \cup {"model", "ask", "bill"} /\ at'[a] = "model"
        \/ at[a] = "save" /\ at'[a] = "save"
        \/ at[a] \in {"fail", "settle"} /\ at'[a] = at[a]
    BY <1>1, <2>1, PlacesAre DEF Entry, Answered
  <2> QED
    BY <1>1, <2>1, <2>2 DEF CallStep, Ending, Early, Answered
<1>3. CASE ~(tries[a] > 1)
  BY <1>3, FailsCalls DEF Again
<1> QED
  BY <1>2, <1>3

\* An activity that is over hands on, or has the attempt end.
LEMMA GoOnGoes ==
  ASSUME FlowOK, NEW a \in Attempts, NEW P \in BOOLEAN, NEW x \in Places, GoOn(a, P, x)
  PROVE  /\ at'[a] = "settle" \/ (P /\ at'[a] = x)
         /\ at'[a] = "model" => tries'[a] = ModelTries
<1> DEFINE y == IF P /\ a \notin told THEN x ELSE "settle"
<1>1. y \in Places /\ (y = "settle" \/ (P /\ y = x))
  BY PlacesAre
<1>2. Enter(a, y)
  BY DEF GoOn
<1> HIDE DEF y
<1> QED
  BY <1>1, <1>2, EnterMoves

LEMMA WorkflowCalls ==
  ASSUME FlowOK, NEW a \in Attempts, Workflow(a) \/ LoseAttempt(a)
  PROVE  CallStep(a)
<1>0. /\ {"begin", "reserve", "model", "save", "fail", "settle"} \subseteq Places
      /\ {"link", "ask", "bill", "closed", "refused", "record"} \subseteq Places
      /\ ModelTries \in Nat /\ Proceeds(a) \in BOOLEAN
  BY PlacesAre, Constants DEF Proceeds
<1>a. Lost(a) /\ at[a] \notin {"idle", "over"} => CallStep(a)
  BY AgainCalls DEF Lost
<1>1. CASE Deliver(a)
  <2>1. at[a] = "idle" /\ at'[a] = "begin" /\ state[a[1]] # "none"
    BY <1>0, <1>1, EnterMoves DEF Deliver
  <2> QED
    BY <2>1 DEF CallStep, Early, Answered, Ending
<1>2. CASE Denied(a)
  BY <1>2, FailsCalls DEF Denied
<1>3. CASE Begin(a)
  <2>1. at[a] = "begin"
    BY <1>3 DEF Begin
  <2>2. CASE GoOn(a, Proceeds(a), "reserve")
    <3>1. at'[a] \in {"settle", "reserve"}
      BY <1>0, <2>2, GoOnGoes
    <3> QED
      BY <2>1, <3>1 DEF CallStep, Early, Answered, Ending
  <2> QED
    BY <1>3, <1>a, <2>1, <2>2 DEF Begin, Answers
<1>4. CASE Reserve(a)
  <2>1. at[a] = "reserve"
    BY <1>4 DEF Reserve
  <2>2. CASE GoOn(a, Proceeds(a), "model")
    <3>1. at'[a] \in {"settle", "model"} /\ (at'[a] = "model" => tries'[a] = ModelTries)
      BY <1>0, <2>2, GoOnGoes
    <3> QED
      BY <1>0, <2>1, <3>1 DEF CallStep, Early, Answered, Ending
  <2>3. CASE Stage(a, "link")
    <3>1. at'[a] = "link"
      BY <1>0, <2>3, StageMoves
    <3> QED
      BY <2>1, <3>1 DEF CallStep, Early, Answered, Ending
  <2> QED
    BY <1>4, <2>1, <2>2, <2>3, FailsCalls DEF Reserve
<1>5. CASE Link(a)
  <2>1. at[a] = "link"
    BY <1>5 DEF Link
  <2>2. CASE GoOn(a, Proceeds(a), "model")
    <3>1. at'[a] \in {"settle", "model"} /\ (at'[a] = "model" => tries'[a] = ModelTries)
      BY <1>0, <2>2, GoOnGoes
    <3> QED
      BY <1>0, <2>1, <3>1 DEF CallStep, Early, Answered, Ending
  <2> QED
    BY <1>5, <1>a, <2>1, <2>2 DEF Link, Answers
<1>6. CASE PrepareCall(a)
  <2>1. at[a] = "model"
    BY <1>6 DEF PrepareCall
  <2>2. CASE ~Calls(a) /\ GoOn(a, Proceeds(a), "save")
    <3>1. at'[a] = "settle" \/ (Proceeds(a) /\ at'[a] = "save")
      BY <1>0, <2>2, GoOnGoes
    <3> QED
      BY <2>1, <3>1 DEF CallStep, Early, Answered, Ending
  <2>3. CASE Calls(a) /\ Linked(a) /\ Stage(a, "ask")
    <3>1. at'[a] = "ask" /\ tries'[a] = tries[a]
      BY <1>0, <2>3, StageMoves
    <3> QED
      BY <2>1, <2>3, <3>1 DEF CallStep, Early, Answered, Ending, Calls
  <2> QED
    BY <1>6, <2>1, <2>2, <2>3, FailsCalls DEF PrepareCall
<1>7. CASE ModelAnswers(a)
  <2>1. at[a] = "ask"
    BY <1>7 DEF ModelAnswers
  <2>2. CASE Stage(a, "bill")
    <3>1. at'[a] = "bill" /\ tries'[a] = tries[a]
      BY <1>0, <2>2, StageMoves
    <3> QED
      BY <2>1, <3>1 DEF CallStep, Early, Answered, Ending
  <2> QED
    BY <1>7, <2>1, <2>2, AgainCalls DEF ModelAnswers
<1>8. CASE Bill(a)
  <2>1. at[a] = "bill"
    BY <1>8 DEF Bill
  <2>2. ASSUME NEW x \in {"closed", "refused", "record"}, Stage(a, x) PROVE CallStep(a)
    <3>1. at'[a] = x /\ tries'[a] = tries[a]
      BY <1>0, <2>2, StageMoves
    <3> QED
      BY <2>1, <3>1 DEF CallStep, Early, Answered, Ending
  <2> QED
    BY <1>8, <2>1, <2>2, FailsCalls DEF Bill
<1>9. CASE StopCall(a)
  <2>1. at[a] \in {"closed", "refused"}
    BY <1>9 DEF StopCall
  <2>2. CASE GoOn(a, FALSE, "save")
    <3>1. at'[a] = "settle"
      BY <1>0, <2>2, GoOnGoes
    <3> QED
      BY <2>1, <3>1 DEF CallStep, Early, Answered, Ending
  <2> QED
    BY <1>9, <1>a, <2>1, <2>2, FailsCalls DEF StopCall
<1>10. CASE RecordOutput(a)
  <2>1. at[a] = "record"
    BY <1>10 DEF RecordOutput
  <2>2. CASE GoOn(a, Proceeds(a), "save")
    <3>1. at'[a] \in {"settle", "save"}
      BY <1>0, <2>2, GoOnGoes
    <3> QED
      BY <2>1, <3>1 DEF CallStep, Early, Answered, Ending
  <2> QED
    BY <1>10, <1>a, <2>1, <2>2 DEF RecordOutput, Answers
<1>11. CASE Save(a)
  <2>1. at[a] = "save"
    BY <1>11 DEF Save
  <2>2. CASE Enter(a, "settle") \/ GoOn(a, FALSE, "save")
    <3>1. at'[a] = "settle"
      BY <1>0, <2>2, EnterMoves, GoOnGoes
    <3> QED
      BY <2>1, <3>1 DEF CallStep, Early, Answered, Ending
  <2> QED
    BY <1>11, <1>a, <2>1, <2>2, FailsCalls DEF Save, Answers
<1>12. CASE Fail(a)
  <2>1. at[a] = "fail"
    BY <1>12 DEF Fail
  <2>2. CASE GoOn(a, FALSE, "fail")
    <3>1. at'[a] = "settle"
      BY <1>0, <2>2, GoOnGoes
    <3> QED
      BY <2>1, <3>1 DEF CallStep, Early, Answered, Ending
  <2> QED
    BY <1>12, <1>a, <2>1, <2>2 DEF Fail, Answers
<1>13. CASE Settle(a)
  <2>1. at[a] = "settle"
    BY <1>13 DEF Settle
  <2>2. CASE Enter(a, "over")
    <3>1. at'[a] = "over"
      BY <2>2, PlacesAre, EnterMoves
    <3> QED
      BY <2>1, <3>1 DEF CallStep, Early, Answered, Ending
  <2> QED
    BY <1>13, <1>a, <2>1, <2>2 DEF Settle
<1>14. CASE LoseAttempt(a)
  BY <1>14, <1>a DEF LoseAttempt
<1> QED
  BY <1>1, <1>2, <1>3, <1>4, <1>5, <1>6, <1>7, <1>8, <1>9, <1>10, <1>11, <1>12, <1>13, <1>14
     DEF Workflow

LEMMA NextCalls ==
  ASSUME GenerationInv, [Next]_vars
  PROVE  \A b \in Attempts : CallStep(b)
<1>1. FlowOK /\ Tried
  BY TypeParts DEF GenerationInv, Linking, Tried
<1>2. ASSUME NEW a \in Attempts, Workflow(a) \/ LoseAttempt(a)
      PROVE  \A b \in Attempts : CallStep(b)
  <2>1. Moves(a)
    <3>1. CASE Deliver(a)
      BY <1>1, <3>1, DeliverFlows
    <3>2. CASE Begin(a)
      BY <1>1, <3>2, BeginFlows
    <3>3. CASE Reserve(a)
      BY <1>1, <3>3, ReserveFlows, TypeParts DEF GenerationInv
    <3>4. CASE Link(a)
      BY <1>1, <3>4, LinkFlows
    <3>5. CASE LoseAttempt(a)
      BY <1>1, <3>5, LoseFlows
    <3>6. CASE \/ Denied(a) \/ PrepareCall(a) \/ ModelAnswers(a) \/ Bill(a) \/ StopCall(a)
               \/ RecordOutput(a) \/ Save(a) \/ Fail(a) \/ Settle(a)
      BY <1>1, <3>6, OthersOnward DEF Onward
    <3> QED
      BY <1>2, <3>1, <3>2, <3>3, <3>4, <3>5, <3>6 DEF Workflow
  <2> QED
    BY <1>1, <1>2, <2>1, StillCalls, WorkflowCalls DEF Moves
<1>3. ASSUME UNCHANGED flowVars
      PROVE  \A b \in Attempts : CallStep(b)
  BY <1>1, <1>3, StillCalls DEF flowVars
<1> QED
  BY <1>2, <1>3 DEF Next, Start, Cancel, Retry, RelayCancel, vars

-----------------------------------------------------------------------------
(* What a step does to the money *)

MoneyStep ==
  \/ UNCHANGED budgetVars
  \/ \E a \in Attempts :
       \/ Bill(a)
       \/ B!ReserveSpend(a) /\ Arrives(a)
       \/ \E as \in {"settled", "released"} : B!CloseOne(a, as)

LEMMA NextMoney ==
  ASSUME GenerationInv, [Next]_vars
  PROVE  MoneyStep
<1>1. ASSUME NEW j \in Jobs, ReleaseLinked(j) PROVE MoneyStep
  <2>1. linked[j] # None => linked[j][1] \in Attempts
    BY TypeParts, IdParts DEF GenerationInv, JobsOK
  <2> QED
    BY <1>1, <2>1 DEF ReleaseLinked, MoneyStep
<1>2. ASSUME NEW j \in Jobs, Start(j) \/ Cancel(j) \/ Retry(j) PROVE MoneyStep
  BY <1>1, <1>2 DEF Start, Cancel, Retry, MoneyStep
<1>3. ASSUME NEW a \in Attempts, Workflow(a) PROVE MoneyStep
  <2>1. CASE Bill(a)
    BY <2>1 DEF MoneyStep
  <2>2. CASE Reserve(a)
    <3>1. FlowOK /\ at[a] = "reserve"
      BY <2>2, TypeParts DEF GenerationInv, Reserve
    <3>2. Stage(a, "link") => Arrives(a)
      BY <3>1, StageMoves, PlacesAre DEF Arrives
    <3> QED
      BY <2>2, <3>2 DEF Reserve, BudgetKey, MoneyStep
  <2>3. CASE Link(a)
    BY <2>3 DEF Link, BudgetKey, MoneyStep
  <2>4. CASE Settle(a)
    BY <2>4 DEF Settle, BudgetKey, MoneyStep
  <2>5. CASE \/ Deliver(a) \/ Denied(a) \/ Begin(a) \/ PrepareCall(a) \/ ModelAnswers(a)
             \/ StopCall(a) \/ RecordOutput(a) \/ Save(a) \/ Fail(a)
    BY <2>5 DEF Deliver, Denied, Begin, PrepareCall, ModelAnswers, StopCall, RecordOutput,
                Save, Fail, MoneyStep
  <2> QED
    BY <1>3, <2>1, <2>2, <2>3, <2>4, <2>5 DEF Workflow
<1>4. ASSUME NEW a \in Attempts, LoseAttempt(a) \/ RelayCancel(a) PROVE MoneyStep
  BY <1>4 DEF LoseAttempt, RelayCancel, MoneyStep
<1> QED
  BY <1>2, <1>3, <1>4 DEF Next, vars, MoneyStep

\* The rows a job's reservation and a call's charge are found in.
Charged(a) == {k \in B!Keys : k[1] = a /\ ledger[k] > 0}

\* An attempt has charged its calls by number, each of them once, and has an
\* attempt of callGenerationModel left for the one it is making.
Charging(a) ==
  \E c \in 0..ModelTries :
    /\ Charged(a) = {<<a, n, 0>> : n \in 1..c}
    /\ at[a] \in Early => c = 0
    /\ at[a] \in {"model", "ask", "bill"} => c + tries[a] <= ModelTries
    /\ at[a] \in Answered => c + tries[a] <= ModelTries + 1

\* Who calls the model has a row to charge, which its job names if the attempt
\* is still the job's.
Asking(a) ==
  /\ at[a] # "idle" => state[a[1]] # "none"
  /\ at[a] \in {"ask", "bill"} =>
       /\ Rows(a) # {}
       /\ attempt[a[1]] = a[2] => linked[a[1]] # None

\* The reservation a job names is the newest of its attempt.
LinkedLast(j) ==
  linked[j] # None => linked[j] = Own(Current(j)) /\ Rows(Current(j)) # {}

\* What was charged past a reservation was the attempt's last charge.
Overrun(a) ==
  unplanned[a] > 0 =>
    \/ at[a] \in Ending
    \/ at[a] \in {"closed", "model"} /\ ~Proceeds(a)

\* A row that is closed promises nothing.
Booked(i) ==
  /\ held[i] = "none" => consumed[i] = 0
  /\ held[i] \in {"settled", "released"} => reserved[i] = consumed[i]

CallsInv ==
  /\ \A a \in Attempts : Charging(a) /\ Asking(a) /\ Overrun(a)
  /\ \A j \in Jobs : LinkedLast(j)
  /\ \A i \in B!Ids : Booked(i)

LEMMA ChargeCount ==
  ASSUME NEW a, NEW c \in Nat
  PROVE  Cardinality({<<a, n, 0>> : n \in 1..c}) = c
<1> DEFINE S == {<<a, n, 0>> : n \in 1..c}
           f == [n \in 1..c |-> <<a, n, 0>>]
<1>1. f \in [1..c -> S]
  OBVIOUS
<1>2. \A m, n \in 1..c : f[m] = f[n] => m = n
  OBVIOUS
<1>3. \A s \in S : \E n \in 1..c : f[n] = s
  OBVIOUS
<1> HIDE DEF f, S
<1>4. f \in Bijection(1..c, S)
  BY <1>1, <1>2, <1>3 DEF Bijection, Injection, IsInjective, Surjection
<1>5. ExistsBijection(1..c, S)
  BY <1>4 DEF ExistsBijection
<1> QED
  BY <1>5, FS_CountingElements DEF S

\* An attempt that bills charges its newest row, under a key of its own.
LEMMA BillBooks ==
  ASSUME GenerationInv, CallsInv, NEW a \in Attempts, Bill(a)
  PROVE  \E c \in 0..ModelTries, n \in 1..MaxReservations :
           /\ c < ModelTries /\ c + tries[a] <= ModelTries
           /\ Charged(a) = {<<a, m, 0>> : m \in 1..c}
           /\ Own(a) = <<a, n>> /\ Own(a) \in B!Ids /\ held[Own(a)] # "none"
           /\ NewCharge(a) = <<a, c + 1, 0>>
           /\ NewCharge(a) \in B!Keys /\ ledger[NewCharge(a)] = 0
           /\ B!Book(Own(a), NewCharge(a))
<1>1. /\ at[a] = "bill" /\ Charging(a) /\ Asking(a) /\ Linking(a) /\ Reservations(a)
      /\ FlowOK /\ B!BudgetsTypeOK
  BY TypeParts DEF CallsInv, GenerationInv, Bill
<1>2. PICK c \in 0..ModelTries :
        Charged(a) = {<<a, m, 0>> : m \in 1..c} /\ c + tries[a] <= ModelTries
  BY <1>1 DEF Charging
<1>3. c \in Nat /\ c < ModelTries
  BY <1>1, <1>2, Constants DEF Linking, FlowOK
<1>4. PICK n \in 0..MaxReservations : Rows(a) = {a} \X (1..n)
  BY <1>1 DEF Reservations
<1>5. n \in 1..MaxReservations
  <2>1. n # 0
    BY <1>1, <1>4 DEF Asking
  <2> QED
    BY <2>1, Constants
<1>6. Own(a) = <<a, n>>
  BY <1>4, OwnRow, Constants
<1>7. <<a, n>> \in Rows(a)
  BY <1>4, <1>5
<1>8. Own(a) \in B!Ids /\ held[Own(a)] # "none"
  BY <1>6, <1>7 DEF Rows, B!OwnedBy
<1>9. NewCharge(a) = <<a, c + 1, 0>>
  <2>1. Cardinality(Charged(a)) = c
    BY <1>2, <1>3, ChargeCount
  <2> QED
    BY <1>3, <2>1 DEF NewCharge, Charged
<1>10. <<a, c + 1, 0>> \in B!Keys
  BY <1>3, Constants DEF B!Keys, B!Steps, B!Calls
<1>11. ledger[<<a, c + 1, 0>>] = 0
  <2>1. <<a, c + 1, 0>> \notin Charged(a)
    BY <1>2, <1>3
  <2>2. ledger[<<a, c + 1, 0>>] \in Nat
    BY <1>1, <1>10 DEF B!BudgetsTypeOK
  <2> QED
    BY <1>10, <2>1, <2>2 DEF Charged
<1>12. B!Book(Own(a), NewCharge(a))
  BY <1>9, <1>11 DEF Bill, B!Charge, B!Seen
<1> QED
  BY <1>2, <1>3, <1>5, <1>6, <1>8, <1>9, <1>10, <1>11, <1>12

\* Only billing charges, and only its own attempt.
LEMMA ChargesStay ==
  ASSUME GenerationInv, CallsInv, MoneyStep, NEW a \in Attempts, ~Bill(a)
  PROVE  Charged(a)' = Charged(a) /\ unplanned'[a] = unplanned[a]
<1>1. B!BudgetsTypeOK
  BY TypeParts DEF GenerationInv
<1>2. CASE UNCHANGED <<ledger, unplanned>>
  BY <1>2 DEF Charged
<1>3. ASSUME NEW b \in Attempts, Bill(b)
      PROVE  Charged(a)' = Charged(a) /\ unplanned'[a] = unplanned[a]
  <2>1. PICK c \in 0..ModelTries, n \in 1..MaxReservations :
          /\ Own(b) = <<b, n>> /\ NewCharge(b) = <<b, c + 1, 0>>
          /\ B!Book(Own(b), NewCharge(b))
    BY <1>3, BillBooks
  <2>2. a # b
    BY <1>3
  <2>3. ledger' = [ledger EXCEPT ![<<b, c + 1, 0>>] = ledger[<<b, c + 1, 0>>] + 1]
    BY <2>1 DEF B!Book
  <2>4. \A k \in B!Keys : k[1] = a => ledger'[k] = ledger[k]
    <3>1. ASSUME NEW k \in B!Keys, k[1] = a PROVE k # <<b, c + 1, 0>>
      BY <2>2, <3>1
    <3> QED
      BY <1>1, <2>3, <3>1 DEF B!BudgetsTypeOK
  <2>5. \/ unplanned' = unplanned
        \/ unplanned' = [unplanned EXCEPT ![b] = unplanned[b] + 1]
    BY <2>1 DEF B!Book
  <2>6. unplanned'[a] = unplanned[a]
    BY <1>1, <2>2, <2>5 DEF B!BudgetsTypeOK
  <2> QED
    BY <2>4, <2>6 DEF Charged
<1>4. UNCHANGED <<ledger, unplanned>> \/ \E b \in Attempts : Bill(b)
  BY DEF MoneyStep, budgetVars, B!budgetVars, B!ReserveSpend, B!CloseOne
<1> QED
  BY <1>2, <1>3, <1>4

\* A charge that the reservation did not allow for ends the attempt, or stops
\* one that is no longer the job's.
LEMMA BillGoes ==
  ASSUME GenerationInv, CallsInv, NEW a \in Attempts, Bill(a)
  PROVE  /\ at'[a] \in Ending \/ (at'[a] \in Answered /\ tries'[a] = tries[a])
         /\ unplanned[a] = 0
         /\ \/ unplanned' = unplanned
            \/ /\ unplanned' = [unplanned EXCEPT ![a] = 1]
               /\ at'[a] \in Ending \/ (at'[a] = "closed" /\ ~Proceeds(a))
<1>1. /\ at[a] = "bill" /\ FlowOK /\ B!BudgetsTypeOK /\ Overrun(a) /\ Asking(a)
      /\ UNCHANGED jobVars
  BY TypeParts DEF GenerationInv, CallsInv, Bill
<1>2. unplanned[a] = 0
  <2>1. unplanned[a] \in Nat
    BY <1>1 DEF B!BudgetsTypeOK
  <2> QED
    BY <1>1, <2>1 DEF Overrun, Ending
<1>3. PICK n \in 1..MaxReservations :
        /\ Own(a) = <<a, n>> /\ Own(a) \in B!Ids /\ held[Own(a)] # "none"
        /\ B!Book(Own(a), NewCharge(a))
  BY BillBooks
<1>4. {"closed", "refused", "record"} \subseteq Places
  BY PlacesAre
<1>a. Own(a)[1] = a /\ unplanned[a] + 1 = 1
  BY <1>2, <1>3
<1>5. CASE B!Closed(Own(a))
  <2>1. at'[a] = "closed" /\ tries'[a] = tries[a]
    BY <1>1, <1>4, <1>5, StageMoves DEF Bill
  <2>2. unplanned' = [unplanned EXCEPT ![a] = 1]
    BY <1>a, <1>3, <1>5 DEF B!Closed, B!Book
  <2>3. ~Proceeds(a)
    <3> SUFFICES ASSUME Proceeds(a) PROVE FALSE
      OBVIOUS
    <3>1. a[1] \in Jobs /\ Current(a[1]) = a /\ state[a[1]] \in Live
      BY AttemptParts DEF Proceeds, Current
    <3>2. linked[a[1]] # None
      BY <1>1 DEF Asking, Proceeds
    <3>3. linked[a[1]] = Own(a)
      BY <3>1, <3>2 DEF CallsInv, LinkedLast
    <3>4. held[Own(a)] = "held"
      BY <1>1, <3>1, <3>2, <3>3 DEF GenerationInv, LiveAttemptHolds, Current
    <3> QED
      BY <1>5, <3>4 DEF B!Closed
  <2> QED
    BY <1>2, <2>1, <2>2, <2>3 DEF Answered
<1>6. CASE ~B!Closed(Own(a)) /\ B!ExceededAfter(Own(a))
  <2>1. at'[a] \in Ending
    BY <1>1, <1>6, FailsCalls DEF Bill
  <2>2. unplanned' = unplanned \/ unplanned' = [unplanned EXCEPT ![a] = 1]
    BY <1>a, <1>3 DEF B!Book
  <2> QED
    BY <1>2, <2>1, <2>2
<1>7. CASE ~B!Closed(Own(a)) /\ ~B!ExceededAfter(Own(a))
  <2>1. \E x \in {"refused", "record"} : Stage(a, x)
    BY <1>7 DEF Bill
  <2>2. at'[a] \in Answered /\ tries'[a] = tries[a]
    BY <1>1, <1>4, <2>1, StageMoves DEF Answered
  <2>3. held[Own(a)] = "held" /\ reserved' = reserved
    BY <1>3, <1>7 DEF B!Closed, B!Book
  <2>4. consumed'[Own(a)] = consumed[Own(a)] + 1
    BY <1>1, <1>3 DEF B!BudgetsTypeOK, B!Book
  <2>5. consumed[Own(a)] + 1 <= reserved[Own(a)]
    <3>1. consumed[Own(a)] \in Nat /\ reserved[Own(a)] \in Nat
      BY <1>1, <1>3 DEF B!BudgetsTypeOK
    <3> QED
      BY <1>7, <2>3, <2>4, <3>1 DEF B!ExceededAfter
  <2>6. unplanned' = unplanned
    BY <1>3, <2>3, <2>5 DEF B!Book
  <2> QED
    BY <1>2, <2>2, <2>6
<1> QED
  BY <1>5, <1>6, <1>7

\* An attempt that is to stop stays so.
LEMMA StaysStopped ==
  ASSUME GenerationInv, CallsInv, Steps, NEW a \in Attempts, at[a] # "idle", ~Proceeds(a)
  PROVE  ~Proceeds(a)'
<1>1. /\ a[1] \in Jobs /\ a[2] \in Nat /\ JobsOK /\ JobStep(a[1])
      /\ Linking(a) /\ state[a[1]] # "none"
  BY AttemptParts, TypeParts DEF GenerationInv, CallsInv, Asking, Steps
<1>2. attempt[a[1]] \in Nat /\ a[2] <= attempt[a[1]]
  BY <1>1 DEF Linking, JobsOK
<1>3. CASE Retried(a[1])
  BY <1>2, <1>3 DEF Retried, Proceeds
<1>4. CASE ~Retried(a[1])
  <2>1. attempt'[a[1]] = attempt[a[1]]
    BY <1>1, <1>4 DEF JobStep
  <2>2. state'[a[1]] \in Live => state[a[1]] \in Live
    BY <1>1, <1>4 DEF JobStep
  <2> QED
    BY <2>1, <2>2 DEF Proceeds
<1> QED
  BY <1>3, <1>4

LEMMA ChargingStep ==
  ASSUME GenerationInv, CallsInv, Steps, MoneyStep, NEW a \in Attempts, CallStep(a)
  PROVE  Charging(a)'
<1>1. Charging(a) /\ FlowOK /\ FlowOK' /\ B!BudgetsTypeOK
  BY TypeParts DEF GenerationInv, CallsInv, Steps
<1>2. tries[a] \in Nat /\ tries'[a] \in Nat /\ ModelTries \in Nat
  BY <1>1, Constants DEF FlowOK
<1>3. CASE Bill(a)
  <2>1. PICK c \in 0..ModelTries :
          /\ c < ModelTries /\ c + tries[a] <= ModelTries
          /\ Charged(a) = {<<a, m, 0>> : m \in 1..c}
          /\ <<a, c + 1, 0>> \in B!Keys /\ ledger[<<a, c + 1, 0>>] = 0
          /\ ledger' = [ledger EXCEPT ![<<a, c + 1, 0>>] = ledger[<<a, c + 1, 0>>] + 1]
    <3>1. PICK c \in 0..ModelTries :
            /\ c < ModelTries /\ c + tries[a] <= ModelTries
            /\ Charged(a) = {<<a, m, 0>> : m \in 1..c}
            /\ NewCharge(a) = <<a, c + 1, 0>>
            /\ NewCharge(a) \in B!Keys /\ ledger[NewCharge(a)] = 0
            /\ B!Book(Own(a), NewCharge(a))
      BY <1>3, BillBooks
    <3>2. ledger' = [ledger EXCEPT ![<<a, c + 1, 0>>] = ledger[<<a, c + 1, 0>>] + 1]
      BY <3>1 DEF B!Book
    <3> QED
      BY <3>1, <3>2
  <2>2. \A k \in B!Keys : ledger'[k] = IF k = <<a, c + 1, 0>> THEN 1 ELSE ledger[k]
    BY <1>1, <2>1 DEF B!BudgetsTypeOK
  <2>3. Charged(a)' = Charged(a) \cup {<<a, c + 1, 0>>}
    BY <2>1, <2>2 DEF Charged
  <2>4. 1..(c + 1) = (1..c) \cup {c + 1}
    BY <2>1
  <2>5. Charged(a)' = {<<a, m, 0>> : m \in 1..(c + 1)}
    BY <2>1, <2>3, <2>4
  <2>6. at'[a] \in Ending \/ (at'[a] \in Answered /\ tries'[a] = tries[a])
    BY <1>3, BillGoes
  <2>7. at'[a] \notin Early /\ at'[a] \notin {"model", "ask", "bill"}
    BY <2>6 DEF Ending, Answered, Early
  <2>8. at'[a] \in Answered => (c + 1) + tries'[a] <= ModelTries + 1
    BY <1>2, <2>1, <2>6 DEF Ending, Answered
  <2>9. c + 1 \in 0..ModelTries
    BY <1>2, <2>1
  <2> QED
    BY <2>5, <2>7, <2>8, <2>9 DEF Charging
<1>4. CASE ~Bill(a)
  <2>1. PICK c \in 0..ModelTries :
          /\ Charged(a) = {<<a, n, 0>> : n \in 1..c}
          /\ at[a] \in Early => c = 0
          /\ at[a] \in {"model", "ask", "bill"} => c + tries[a] <= ModelTries
          /\ at[a] \in Answered => c + tries[a] <= ModelTries + 1
    BY <1>1 DEF Charging
  <2>2. Charged(a)' = {<<a, n, 0>> : n \in 1..c}
    BY <1>4, <2>1, ChargesStay
  <2>3. at'[a] \in Early => c = 0
    BY <2>1 DEF CallStep
  <2>4. at'[a] \in {"model", "ask", "bill"} => c + tries'[a] <= ModelTries
    BY <1>2, <2>1 DEF CallStep, Early, Answered
  <2>5. at'[a] \in Answered => c + tries'[a] <= ModelTries + 1
    BY <1>2, <2>1 DEF CallStep, Answered
  <2> QED
    BY <2>2, <2>3, <2>4, <2>5 DEF Charging
<1> QED
  BY <1>3, <1>4

LEMMA AskingStep ==
  ASSUME GenerationInv, CallsInv, Steps, NEW a \in Attempts, CallStep(a)
  PROVE  Asking(a)'
<1>1. /\ Asking(a) /\ Linking(a) /\ JobsOK /\ a[1] \in Jobs /\ a[2] \in Nat
      /\ a = <<a[1], a[2]>> /\ JobStep(a[1]) /\ LinkedOwn(a[1]) /\ LinkedLast(a[1])
  BY AttemptParts, TypeParts DEF GenerationInv, CallsInv, Steps
<1>2. at'[a] # "idle" => state'[a[1]] # "none"
  BY <1>1 DEF CallStep, Asking, JobStep
<1>3. ASSUME at'[a] \in {"ask", "bill"}
      PROVE  Rows(a)' # {} /\ (attempt'[a[1]] = a[2] => linked'[a[1]] # None)
  <2>1. at[a] \in {"ask", "bill"} \/ (at[a] = "model" /\ Linked(a))
    BY <1>3 DEF CallStep
  <2>2. Rows(a)' = Rows(a)
    BY <1>3, RowsStep DEF Arrives
  <2>3. ASSUME Linked(a) PROVE Rows(a) # {} /\ linked[a[1]] # None
    BY <1>1, <2>3 DEF Linked, BudgetKey, LinkedOwn, LinkedLast
  <2>4. Rows(a) # {}
    BY <1>1, <2>1, <2>3 DEF Asking
  <2>5. ASSUME attempt'[a[1]] = a[2] PROVE linked'[a[1]] # None
    <3>1. attempt[a[1]] \in Nat /\ a[2] <= attempt[a[1]]
      BY <1>1, <2>1 DEF Linking, JobsOK
    <3>2. ~Retried(a[1]) /\ attempt[a[1]] = a[2]
      BY <1>1, <2>5, <3>1 DEF Retried, JobStep
    <3>3. linked[a[1]] # None
      BY <1>1, <2>1, <2>3, <3>2 DEF Asking
    <3>4. ~Links(a[1])
      BY <1>1, <2>1, <3>2 DEF Links, Current
    <3> QED
      BY <1>1, <3>2, <3>3, <3>4 DEF JobStep
  <2> QED
    BY <2>2, <2>4, <2>5
<1> QED
  BY <1>2, <1>3 DEF Asking

LEMMA OverrunStep ==
  ASSUME GenerationInv, CallsInv, Steps, MoneyStep, NEW a \in Attempts, CallStep(a)
  PROVE  Overrun(a)'
<1>1. Overrun(a) /\ B!BudgetsTypeOK
  BY TypeParts DEF CallsInv, GenerationInv
<1>2. at[a] # "idle" /\ ~Proceeds(a) => ~Proceeds(a)'
  BY StaysStopped
<1>3. CASE Bill(a)
  <2>1. at[a] = "bill"
    BY <1>3 DEF Bill
  <2>2. unplanned[a] = 0
    BY <1>3, BillGoes
  <2>3. \/ unplanned' = unplanned
        \/ at'[a] \in Ending
        \/ at'[a] = "closed" /\ ~Proceeds(a)
    BY <1>3, BillGoes
  <2> QED
    BY <1>2, <2>1, <2>2, <2>3 DEF Overrun
<1>4. CASE ~Bill(a)
  <2>1. unplanned'[a] = unplanned[a]
    BY <1>4, ChargesStay
  <2>2. CASE at[a] \in Ending
    BY <2>2 DEF CallStep, Overrun
  <2>3. CASE at[a] \in {"closed", "model"} /\ ~Proceeds(a)
    <3>1. at'[a] \in {"closed", "model"} \cup Ending
      BY <2>3 DEF CallStep
    <3> QED
      BY <1>2, <2>3, <3>1 DEF Overrun
  <2> QED
    BY <1>1, <2>1, <2>2, <2>3 DEF Overrun
<1> QED
  BY <1>3, <1>4

LEMMA LinkedLastStep ==
  ASSUME GenerationInv, CallsInv, Steps, NEW j \in Jobs
  PROVE  LinkedLast(j)'
<1> SUFFICES ASSUME linked'[j] # None
             PROVE  linked'[j] = Own(Current(j))' /\ Rows(Current(j))' # {}
  BY DEF LinkedLast
<1>1. /\ JobStep(j) /\ JobsOK /\ LinkedOwn(j) /\ LinkedLast(j)
      /\ Current(j) \in Attempts /\ Current(j)[1] = j
  BY TypeParts DEF GenerationInv, CallsInv, Steps, JobsOK, Current, Attempts
<1> PICK a \in Attempts : a = Current(j)
  BY <1>1
<1>2. attempt'[j] = attempt[j] /\ Current(j)' = a
  BY <1>1 DEF JobStep, Retried, Current
<1>3. linked'[j] = Own(a) /\ Rows(a) # {} /\ ~Arrives(a)
  <2>1. CASE linked'[j] = linked[j]
    <3>1. linked[j] = Own(a) /\ Rows(a) # {}
      BY <1>1, <2>1 DEF LinkedLast
    <3>2. Linked(a)
      BY <1>1, <2>1 DEF Linked, BudgetKey, LinkedOwn
    <3>3. ~Arrives(a)
      BY <3>2 DEF Steps, FlowStep, Arrives
    <3> QED
      BY <2>1, <3>1, <3>3
  <2>2. CASE Links(j)
    <3>1. at[a] = "link" /\ linked'[j] = Own(a)
      BY <2>2 DEF Links
    <3>2. Reservations(a)
      BY DEF GenerationInv
    <3>3. PICK n \in 0..MaxReservations : Rows(a) = {a} \X (1..n) /\ n >= 1
      BY <3>1, <3>2 DEF Reservations
    <3>4. <<a, 1>> \in Rows(a)
      BY <3>3, Constants
    <3> QED
      BY <3>1, <3>4 DEF Arrives
  <2>3. ~Retried(j)
    BY DEF Retried
  <2> QED
    BY <1>1, <2>1, <2>2, <2>3 DEF JobStep
<1>4. Rows(a)' = Rows(a)
  BY <1>3, RowsStep
<1>5. Rows(Current(j))' = Rows(a)'
  BY <1>2 DEF Rows, B!OwnedBy
<1>6. Own(Current(j))' = Own(a)
  <2>1. Own(Current(j))' = <<a, Cardinality(Rows(a)')>>
    BY <1>2, <1>5 DEF Own, BudgetKey, Rows
  <2> QED
    BY <1>4, <2>1 DEF Own, BudgetKey, Rows
<1> QED
  BY <1>3, <1>4, <1>5, <1>6

LEMMA BookedStep ==
  ASSUME GenerationInv, CallsInv, MoneyStep, NEW i \in B!Ids
  PROVE  Booked(i)'
<1>1. Booked(i) /\ B!BudgetsTypeOK
  BY TypeParts DEF CallsInv, GenerationInv
<1>2. CASE UNCHANGED budgetVars
  BY <1>1, <1>2 DEF budgetVars, Booked
<1>3. ASSUME NEW a \in Attempts, Bill(a) PROVE Booked(i)'
  <2>1. Own(a) \in B!Ids /\ held[Own(a)] # "none" /\ B!Book(Own(a), NewCharge(a))
    BY <1>3, BillBooks
  <2>2. CASE i = Own(a)
    BY <1>1, <2>1, <2>2 DEF B!Book, B!BudgetsTypeOK, Booked
  <2>3. CASE i # Own(a)
    BY <1>1, <2>1, <2>3 DEF B!Book, B!BudgetsTypeOK, Booked
  <2> QED
    BY <2>2, <2>3
<1>4. ASSUME NEW a \in Attempts, B!ReserveSpend(a) PROVE Booked(i)'
  <2>1. CASE i = B!Fresh(a)
    BY <1>1, <1>4, <2>1 DEF B!ReserveSpend, B!BudgetsTypeOK, Booked
  <2>2. CASE i # B!Fresh(a)
    BY <1>1, <1>4, <2>2 DEF B!ReserveSpend, B!BudgetsTypeOK, Booked
  <2> QED
    BY <2>1, <2>2
<1>5. ASSUME NEW a \in Attempts, NEW as \in {"settled", "released"}, B!CloseOne(a, as)
      PROVE  Booked(i)'
  <2>1. CASE ~UNCHANGED budgetVars
    <3>1. PICK r \in B!OwnedBy(a) :
            /\ held' = [held EXCEPT ![r] = as]
            /\ reserved' = [reserved EXCEPT ![r] = consumed[r]]
            /\ UNCHANGED <<consumed, ledger, unplanned>>
      BY <1>5, <2>1 DEF B!CloseOne, B!budgetVars, budgetVars
    <3>2. r \in B!Ids
      BY DEF B!OwnedBy
    <3> QED
      BY <1>1, <3>1, <3>2 DEF B!BudgetsTypeOK, Booked
  <2> QED
    BY <1>2, <2>1
<1> QED
  BY <1>2, <1>3, <1>4, <1>5 DEF MoneyStep

LEMMA CallsStep ==
  ASSUME GenerationInv, CallsInv, [Next]_vars
  PROVE  CallsInv'
<1>1. Steps /\ MoneyStep /\ \A a \in Attempts : CallStep(a)
  BY NextSteps, NextMoney, NextCalls
<1>2. \A a \in Attempts : Charging(a)' /\ Asking(a)' /\ Overrun(a)'
  BY <1>1, ChargingStep, AskingStep, OverrunStep
<1>3. \A j \in Jobs : LinkedLast(j)'
  BY <1>1, LinkedLastStep
<1>4. \A i \in B!Ids : Booked(i)'
  BY <1>1, BookedStep
<1> QED
  BY <1>2, <1>3, <1>4 DEF CallsInv

LEMMA CallsInit == Init => CallsInv
<1> SUFFICES ASSUME Init PROVE CallsInv
  OBVIOUS
<1>1. ASSUME NEW a \in Attempts PROVE Charging(a) /\ Asking(a) /\ Overrun(a)
  <2>1. at[a] = "idle" /\ unplanned[a] = 0
    BY DEF Init, B!BudgetsInit
  <2>2. Charged(a) = {<<a, n, 0>> : n \in 1..0}
    BY DEF Init, B!BudgetsInit, Charged
  <2>3. Charging(a)
    BY <2>1, <2>2, Constants DEF Charging, Early, Answered
  <2> QED
    BY <2>1, <2>3 DEF Asking, Overrun
<1>2. ASSUME NEW j \in Jobs PROVE LinkedLast(j)
  BY DEF Init, LinkedLast
<1>3. ASSUME NEW i \in B!Ids PROVE Booked(i)
  BY DEF Init, B!BudgetsInit, Booked
<1> QED
  BY <1>1, <1>2, <1>3 DEF CallsInv

-----------------------------------------------------------------------------
(* The caps.  A purse is what a limit is set on: the company's month, which  *)
(* every attempt draws on, or a brand's day.                                 *)

Purse(R, L) ==
  \/ R = Attempts /\ L = MonthLimit
  \/ \E b \in Attempts : R = B!SameBrand(b) /\ L = DayLimit

\* What a row takes from its purse, and what of it is still to be spent.
RowTakes(i) ==
  IF held[i] = "none" THEN 0
  ELSE IF held[i] = "released" \/ reserved[i] < consumed[i] THEN consumed[i]
  ELSE reserved[i]
RowPromises(i) ==
  IF held[i] = "held" /\ reserved[i] > consumed[i] THEN reserved[i] - consumed[i] ELSE 0

Takes(R) == [i \in B!RowsOf(R) |-> RowTakes(i)]
Promises(R) == [i \in B!RowsOf(R) |-> RowPromises(i)]
KeysOf(R) == R \X B!Steps \X B!Calls
Charges(R) == [k \in KeysOf(R) |-> ledger[k]]

\* The attempts that were charged past their reservations.
Overrunning(R) == {a \in R : unplanned[a] > 0}

\* What the reservations take is what was spent and what they still promise.
Covered(R) == B!Spent(R) + B!Promised(R) = B!Committed(R)
Within(R, L) == B!Spent(R) + B!Promised(R) <= L + Cardinality(Overrunning(R))

LEMMA PurseParts ==
  ASSUME NEW R, NEW L, Purse(R, L)
  PROVE  /\ R \subseteq Attempts /\ L \in Nat
         /\ IsFiniteSet(R) /\ IsFiniteSet(B!RowsOf(R)) /\ IsFiniteSet(KeysOf(R))
         /\ B!RowsOf(R) \subseteq B!Ids /\ KeysOf(R) \subseteq B!Keys
<1>1. R \subseteq Attempts /\ L \in Nat
  <2>1. OtherBrand \X (1..MaxAttempts) \subseteq Attempts
    BY GenerationAssumption DEF GenerationAssumption, Attempts
  <2> QED
    BY <2>1, Constants DEF Purse, B!SameBrand
<1>2. IsFiniteSet(R)
  <2>1. IsFiniteSet(Jobs) /\ IsFiniteSet(1..MaxAttempts)
    BY GenerationAssumption, Constants, FS_Interval DEF GenerationAssumption
  <2>2. IsFiniteSet(Attempts)
    BY <2>1, FS_Product DEF Attempts
  <2> QED
    BY <1>1, <2>2, FS_Subset
<1>3. IsFiniteSet(B!RowsOf(R)) /\ B!RowsOf(R) \subseteq B!Ids
  <2>1. IsFiniteSet(1..MaxReservations)
    BY Constants, FS_Interval
  <2> QED
    BY <1>1, <1>2, <2>1, FS_Product DEF B!RowsOf, B!Ids
<1>4. IsFiniteSet(KeysOf(R)) /\ KeysOf(R) \subseteq B!Keys
  <2> DEFINE T == (R \X (1..ModelTries)) \X {0}
             f == [t \in T |-> <<t[1][1], t[1][2], t[2]>>]
  <2>1. KeysOf(R) = R \X (1..ModelTries) \X {0}
    BY DEF KeysOf, B!Steps, B!Calls
  <2>2. IsFiniteSet(T)
    <3>1. IsFiniteSet(1..ModelTries)
      BY Constants, FS_Interval
    <3>a. IsFiniteSet({0})
      BY FS_Singleton
    <3>2. IsFiniteSet(R \X (1..ModelTries))
      BY <1>2, <3>1, FS_Product
    <3> QED
      BY <3>a, <3>2, FS_Product
  <2>3. f \in [T -> KeysOf(R)]
    BY <2>1
  <2>4. ASSUME NEW k \in KeysOf(R) PROVE \E t \in T : f[t] = k
    <3>1. /\ <<<<k[1], k[2]>>, k[3]>> \in T
          /\ f[<<<<k[1], k[2]>>, k[3]>>] = k
      BY <2>1
    <3> QED
      BY <3>1
  <2> HIDE DEF f, T
  <2>5. f \in Surjection(T, KeysOf(R))
    BY <2>3, <2>4 DEF Surjection
  <2>6. IsFiniteSet(KeysOf(R))
    BY <2>2, <2>5, FS_Surjection
  <2> QED
    BY <1>1, <2>1, <2>6 DEF B!Keys, B!Steps, B!Calls
<1> QED
  BY <1>1, <1>2, <1>3, <1>4

LEMMA SumsAre ==
  ASSUME NEW R
  PROVE  /\ B!Spent(R) = B!Total(Charges(R))
         /\ B!Promised(R) = B!Total(Promises(R))
         /\ B!Committed(R) = B!Total(Takes(R))
         /\ B!Spent(R)' = B!Total(Charges(R)')
         /\ B!Promised(R)' = B!Total(Promises(R)')
         /\ B!Committed(R)' = B!Total(Takes(R)')
BY DEF B!Spent, B!Promised, B!Committed, Charges, KeysOf, Promises, Takes, RowPromises, RowTakes

LEMMA SumTypes ==
  ASSUME NEW R, NEW L, Purse(R, L), B!BudgetsTypeOK
  PROVE  /\ Charges(R) \in [KeysOf(R) -> Nat]
         /\ Promises(R) \in [B!RowsOf(R) -> Nat]
         /\ Takes(R) \in [B!RowsOf(R) -> Nat]
         /\ B!Spent(R) \in Nat /\ B!Promised(R) \in Nat /\ B!Committed(R) \in Nat
         /\ Cardinality(Overrunning(R)) \in Nat /\ IsFiniteSet(Overrunning(R))
<1>1. /\ IsFiniteSet(R) /\ IsFiniteSet(B!RowsOf(R)) /\ IsFiniteSet(KeysOf(R))
      /\ B!RowsOf(R) \subseteq B!Ids /\ KeysOf(R) \subseteq B!Keys
  BY PurseParts
<1>2. Charges(R) \in [KeysOf(R) -> Nat]
  BY <1>1 DEF Charges, B!BudgetsTypeOK
<1>3. \A i \in B!RowsOf(R) : RowPromises(i) \in Nat /\ RowTakes(i) \in Nat
  BY <1>1 DEF RowPromises, RowTakes, B!BudgetsTypeOK
<1>4. Promises(R) \in [B!RowsOf(R) -> Nat] /\ Takes(R) \in [B!RowsOf(R) -> Nat]
  BY <1>3 DEF Promises, Takes
<1>5. IsFiniteSet(Overrunning(R)) /\ Cardinality(Overrunning(R)) \in Nat
  <2>1. Overrunning(R) \subseteq R
    BY DEF Overrunning
  <2> QED
    BY <1>1, <2>1, FS_Subset, FS_CardinalityType
<1> QED
  BY <1>1, <1>2, <1>4, <1>5, SumsAre, TotalType

LEMMA SumTypesPrime ==
  ASSUME NEW R, NEW L, Purse(R, L), B!BudgetsTypeOK'
  PROVE  /\ Charges(R)' \in [KeysOf(R) -> Nat]
         /\ Promises(R)' \in [B!RowsOf(R) -> Nat]
         /\ Takes(R)' \in [B!RowsOf(R) -> Nat]
         /\ B!Spent(R)' \in Nat /\ B!Promised(R)' \in Nat /\ B!Committed(R)' \in Nat
<1>1. /\ IsFiniteSet(R) /\ IsFiniteSet(B!RowsOf(R)) /\ IsFiniteSet(KeysOf(R))
      /\ B!RowsOf(R) \subseteq B!Ids /\ KeysOf(R) \subseteq B!Keys
  BY PurseParts
<1>2. Charges(R)' \in [KeysOf(R) -> Nat]
  BY <1>1 DEF Charges, B!BudgetsTypeOK
<1>3. \A i \in B!RowsOf(R) : RowPromises(i)' \in Nat /\ RowTakes(i)' \in Nat
  BY <1>1 DEF RowPromises, RowTakes, B!BudgetsTypeOK
<1>4. Promises(R)' \in [B!RowsOf(R) -> Nat] /\ Takes(R)' \in [B!RowsOf(R) -> Nat]
  BY <1>3 DEF Promises, Takes
<1> QED
  BY <1>1, <1>2, <1>4, SumsAre, TotalType

\* When one row changes, a purse's sums change by what it changes, if it is the
\* purse's.
RowsBut(i) ==
  \A x \in B!Ids \ {i} :
    held'[x] = held[x] /\ reserved'[x] = reserved[x] /\ consumed'[x] = consumed[x]

LEMMA RowMoves ==
  ASSUME NEW R, NEW L, Purse(R, L), B!BudgetsTypeOK, B!BudgetsTypeOK',
         NEW i \in B!RowsOf(R), RowsBut(i)
  PROVE  /\ B!Promised(R)' + RowPromises(i) = B!Promised(R) + RowPromises(i)'
         /\ B!Committed(R)' + RowTakes(i) = B!Committed(R) + RowTakes(i)'
<1>1. IsFiniteSet(B!RowsOf(R)) /\ B!RowsOf(R) \subseteq B!Ids
  BY PurseParts
<1>2. /\ Promises(R) \in [B!RowsOf(R) -> Nat] /\ Promises(R)' \in [B!RowsOf(R) -> Nat]
      /\ Takes(R) \in [B!RowsOf(R) -> Nat] /\ Takes(R)' \in [B!RowsOf(R) -> Nat]
  BY SumTypes, SumTypesPrime
<1>3. \A x \in B!RowsOf(R) :
        /\ Promises(R)[x] = RowPromises(x) /\ Promises(R)'[x] = RowPromises(x)'
        /\ Takes(R)[x] = RowTakes(x) /\ Takes(R)'[x] = RowTakes(x)'
  BY DEF Promises, Takes
<1>4. \A x \in B!RowsOf(R) \ {i} :
        RowPromises(x)' = RowPromises(x) /\ RowTakes(x)' = RowTakes(x)
  BY <1>1 DEF RowsBut, RowPromises, RowTakes
<1>5. B!Total(Promises(R)') + Promises(R)[i] = B!Total(Promises(R)) + Promises(R)'[i]
  BY <1>1, <1>2, <1>3, <1>4, TotalUpdate
<1>6. B!Total(Takes(R)') + Takes(R)[i] = B!Total(Takes(R)) + Takes(R)'[i]
  BY <1>1, <1>2, <1>3, <1>4, TotalUpdate
<1> QED
  BY <1>3, <1>5, <1>6, SumsAre

LEMMA RowOfOthers ==
  ASSUME NEW R, NEW L, Purse(R, L), NEW i, i \notin B!RowsOf(R), RowsBut(i)
  PROVE  B!Promised(R)' = B!Promised(R) /\ B!Committed(R)' = B!Committed(R)
<1>1. B!RowsOf(R) \subseteq B!Ids \ {i}
  BY PurseParts
<1>2. \A x \in B!RowsOf(R) :
        RowPromises(x)' = RowPromises(x) /\ RowTakes(x)' = RowTakes(x)
  BY <1>1 DEF RowsBut, RowPromises, RowTakes
<1>3. Promises(R)' = Promises(R) /\ Takes(R)' = Takes(R)
  BY <1>2 DEF Promises, Takes
<1> QED
  BY <1>3, SumsAre

\* Nothing is charged.
LEMMA ChargesSame ==
  ASSUME NEW R, UNCHANGED <<ledger, unplanned>>
  PROVE  B!Spent(R)' = B!Spent(R) /\ Overrunning(R)' = Overrunning(R)
<1>1. Charges(R)' = Charges(R)
  BY DEF Charges
<1> QED
  BY <1>1, SumsAre DEF Overrunning

LEMMA CloseKeeps ==
  ASSUME B!BudgetsTypeOK, B!BudgetsTypeOK', NEW a, NEW as \in {"settled", "released"},
         B!CloseOne(a, as), NEW R, NEW L, Purse(R, L), Covered(R), Within(R, L)
  PROVE  Covered(R)' /\ Within(R, L)'
<1>1. /\ L \in Nat /\ B!Spent(R) \in Nat /\ B!Promised(R) \in Nat /\ B!Committed(R) \in Nat
      /\ B!Promised(R)' \in Nat /\ B!Committed(R)' \in Nat
      /\ Cardinality(Overrunning(R)) \in Nat
  BY PurseParts, SumTypes, SumTypesPrime
<1>2. CASE UNCHANGED budgetVars
  <2>1. RowsBut(None)
    BY <1>2 DEF budgetVars, RowsBut
  <2>2. None \notin B!RowsOf(R)
    BY PurseParts, IdParts
  <2>3. B!Promised(R)' = B!Promised(R) /\ B!Committed(R)' = B!Committed(R)
    BY <2>1, <2>2, RowOfOthers
  <2>4. B!Spent(R)' = B!Spent(R) /\ Overrunning(R)' = Overrunning(R)
    BY <1>2, ChargesSame DEF budgetVars
  <2> QED
    BY <2>3, <2>4 DEF Covered, Within
<1>3. CASE ~UNCHANGED budgetVars
  <2>1. PICK i \in B!OwnedBy(a) :
          /\ held[i] = "held"
          /\ held' = [held EXCEPT ![i] = as]
          /\ reserved' = [reserved EXCEPT ![i] = consumed[i]]
          /\ UNCHANGED <<consumed, ledger, unplanned>>
    BY <1>3 DEF B!CloseOne, B!budgetVars, budgetVars
  <2>2. i \in B!Ids
    BY DEF B!OwnedBy
  <2>3. RowsBut(i)
    BY <2>1 DEF RowsBut, B!BudgetsTypeOK
  <2>4. /\ held'[i] = as /\ reserved'[i] = consumed[i] /\ consumed'[i] = consumed[i]
        /\ consumed[i] \in Nat /\ reserved[i] \in Nat
    BY <2>1, <2>2 DEF B!BudgetsTypeOK
  <2>5. /\ RowPromises(i)' = 0 /\ RowTakes(i)' = consumed[i]
        /\ RowTakes(i) = consumed[i] + RowPromises(i) /\ RowPromises(i) \in Nat
    <3>1. RowTakes(i)' = consumed[i]
      BY <2>4 DEF RowTakes
    <3>2. RowPromises(i)' = 0
      BY <2>4 DEF RowPromises
    <3>3. RowTakes(i) = IF reserved[i] < consumed[i] THEN consumed[i] ELSE reserved[i]
      BY <2>1 DEF RowTakes
    <3>4. RowPromises(i) = IF reserved[i] > consumed[i] THEN reserved[i] - consumed[i] ELSE 0
      BY <2>1 DEF RowPromises
    <3> QED
      BY <2>4, <3>1, <3>2, <3>3, <3>4
  <2>6. B!Spent(R)' = B!Spent(R) /\ Overrunning(R)' = Overrunning(R)
    BY <2>1, ChargesSame
  <2>7. CASE i \in B!RowsOf(R)
    <3>1. /\ B!Promised(R)' + RowPromises(i) = B!Promised(R) + RowPromises(i)'
          /\ B!Committed(R)' + RowTakes(i) = B!Committed(R) + RowTakes(i)'
      BY <2>3, <2>7, RowMoves
    <3> QED
      BY <1>1, <2>4, <2>5, <2>6, <3>1 DEF Covered, Within
  <2>8. CASE i \notin B!RowsOf(R)
    BY <2>3, <2>6, <2>8, RowOfOthers DEF Covered, Within
  <2> QED
    BY <2>7, <2>8
<1> QED
  BY <1>2, <1>3

\* A reservation is made where the purses it draws on can bear it.
LEMMA ReserveKeeps ==
  ASSUME GenerationInv, CallsInv, GenerationInv', NEW a \in Attempts, Opens(a), Arrives(a),
         B!ReserveSpend(a), Steps,
         NEW R, NEW L, Purse(R, L), Covered(R), Within(R, L)
  PROVE  Covered(R)' /\ Within(R, L)'
<1>0. B!BudgetsTypeOK /\ B!BudgetsTypeOK'
  BY TypeParts DEF GenerationInv
<1>1. /\ L \in Nat /\ B!Spent(R) \in Nat /\ B!Promised(R) \in Nat /\ B!Committed(R) \in Nat
      /\ B!Promised(R)' \in Nat /\ B!Committed(R)' \in Nat
      /\ Cardinality(Overrunning(R)) \in Nat /\ Estimate \in Nat
  BY <1>0, PurseParts, SumTypes, SumTypesPrime, Constants
<1>2. PICK n \in 0..MaxReservations : n < MaxReservations /\ Rows(a) = {a} \X (1..n)
  BY ArrivalOpens
<1> DEFINE i == <<a, n + 1>>
<1>3. i \in B!Ids /\ i \notin Rows(a) /\ B!Fresh(a) = i
  <2>1. Cardinality(Rows(a)) = n
    <3>1. n \in Nat
      BY Constants
    <3> QED
      BY <1>2, <3>1, RowCount
  <2>2. B!Cardinality(Rows(a)) = Cardinality(Rows(a))
    BY DEF B!Cardinality, Cardinality
  <2> QED
    BY <1>2, <2>1, <2>2, Constants DEF B!Fresh, Rows, B!Ids
<1>4. held[i] = "none" /\ consumed[i] = 0
  <2>1. held[i] = "none"
    BY <1>3 DEF Rows, B!OwnedBy
  <2> QED
    BY <1>3, <2>1 DEF CallsInv, Booked
<1>5. /\ held' = [held EXCEPT ![i] = "held"]
      /\ reserved' = [reserved EXCEPT ![i] = Estimate]
      /\ UNCHANGED <<consumed, ledger, unplanned>> /\ B!Affordable(a)
  BY <1>3 DEF B!ReserveSpend
<1>6. i \in B!RowsOf(R) <=> a \in R
  BY <1>2, Constants DEF B!RowsOf
<1> HIDE DEF i
<1>7. RowsBut(i)
  BY <1>0, <1>5 DEF RowsBut, B!BudgetsTypeOK
<1>8. held'[i] = "held" /\ reserved'[i] = Estimate /\ consumed'[i] = 0
  BY <1>0, <1>3, <1>4, <1>5 DEF B!BudgetsTypeOK
<1>9. /\ RowPromises(i) = 0 /\ RowTakes(i) = 0
      /\ RowPromises(i)' = Estimate /\ RowTakes(i)' = Estimate
  BY <1>1, <1>4, <1>8 DEF RowPromises, RowTakes
<1>10. B!Spent(R)' = B!Spent(R) /\ Overrunning(R)' = Overrunning(R)
  BY <1>5, ChargesSame
<1>11. CASE a \in R
  <2>1. B!Committed(R) + Estimate <= L
    <3>1. CASE R = Attempts /\ L = MonthLimit
      BY <1>5, <3>1 DEF B!Affordable
    <3>2. ASSUME NEW b \in Attempts, R = B!SameBrand(b), L = DayLimit
          PROVE  B!Committed(R) + Estimate <= L
      <4>1. R = B!SameBrand(a)
        BY <1>11, <3>2 DEF B!SameBrand
      <4> QED
        BY <1>5, <3>2, <4>1 DEF B!Affordable
    <3> QED
      BY <3>1, <3>2 DEF Purse
  <2>2. /\ B!Promised(R)' + RowPromises(i) = B!Promised(R) + RowPromises(i)'
        /\ B!Committed(R)' + RowTakes(i) = B!Committed(R) + RowTakes(i)'
    BY <1>0, <1>6, <1>7, <1>11, RowMoves
  <2> QED
    BY <1>1, <1>9, <1>10, <2>1, <2>2 DEF Covered, Within
<1>12. CASE a \notin R
  BY <1>6, <1>7, <1>10, <1>12, RowOfOthers DEF Covered, Within
<1> QED
  BY <1>11, <1>12

\* What a charge does to its row: it spends a unit that was promised, or one
\* more than was.
LEMMA BillRow ==
  ASSUME GenerationInv, CallsInv, GenerationInv', NEW a \in Attempts, Bill(a)
  PROVE  \E i \in B!Ids, k \in B!Keys :
           /\ i[1] = a /\ k[1] = a /\ RowsBut(i)
           /\ ledger[k] = 0 /\ ledger' = [ledger EXCEPT ![k] = 1]
           /\ \/ /\ RowPromises(i) = RowPromises(i)' + 1 /\ RowTakes(i)' = RowTakes(i)
                 /\ unplanned' = unplanned
              \/ /\ RowPromises(i) = RowPromises(i)' /\ RowTakes(i)' = RowTakes(i) + 1
                 /\ unplanned[a] = 0 /\ unplanned' = [unplanned EXCEPT ![a] = 1]
<1>1. PICK c \in 0..ModelTries, n \in 1..MaxReservations :
        /\ Own(a) = <<a, n>> /\ Own(a) \in B!Ids /\ held[Own(a)] # "none"
        /\ NewCharge(a) = <<a, c + 1, 0>>
        /\ NewCharge(a) \in B!Keys /\ ledger[NewCharge(a)] = 0
        /\ B!Book(Own(a), NewCharge(a))
  BY BillBooks
<1> DEFINE i == <<a, n>>
           k == <<a, c + 1, 0>>
<1>2. /\ i \in B!Ids /\ k \in B!Keys /\ i[1] = a /\ k[1] = a
      /\ held[i] # "none" /\ ledger[k] = 0 /\ B!Book(i, k)
  BY <1>1
<1> HIDE DEF i, k
<1>3. B!BudgetsTypeOK /\ B!BudgetsTypeOK' /\ unplanned[a] = 0 /\ Booked(i)
  BY <1>2, BillGoes, TypeParts DEF GenerationInv, CallsInv
<1>4. /\ consumed[i] \in Nat /\ reserved[i] \in Nat
      /\ held[i] \in {"held", "settled", "released"}
  BY <1>2, <1>3 DEF B!BudgetsTypeOK
<1>5. held' = held /\ consumed' = [consumed EXCEPT ![i] = consumed[i] + 1]
  BY <1>2 DEF B!Book
<1>6. reserved' = IF held[i] = "held" THEN reserved
                  ELSE [reserved EXCEPT ![i] = consumed[i] + 1]
  BY <1>2 DEF B!Book
<1>7. RowsBut(i)
  BY <1>3, <1>5, <1>6 DEF RowsBut, B!BudgetsTypeOK
<1>8. ledger' = [ledger EXCEPT ![k] = 1]
  <2>1. ledger[k] + 1 = 1
    BY <1>2
  <2> QED
    BY <1>2, <2>1 DEF B!Book
<1>9. /\ held'[i] = held[i] /\ consumed'[i] = consumed[i] + 1
      /\ reserved'[i] = IF held[i] = "held" THEN reserved[i] ELSE consumed[i] + 1
  BY <1>2, <1>3, <1>5, <1>6 DEF B!BudgetsTypeOK
<1>10. CASE held[i] = "held" /\ consumed[i] + 1 <= reserved[i]
  <2>1. RowPromises(i) = reserved[i] - consumed[i] /\ RowTakes(i) = reserved[i]
    BY <1>4, <1>10 DEF RowPromises, RowTakes
  <2>2. RowTakes(i)' = reserved[i]
    BY <1>4, <1>9, <1>10 DEF RowTakes
  <2>3. RowPromises(i)' = IF reserved[i] > consumed[i] + 1
                            THEN reserved[i] - (consumed[i] + 1) ELSE 0
    BY <1>9, <1>10 DEF RowPromises
  <2>4. RowPromises(i) = RowPromises(i)' + 1
    BY <1>4, <1>10, <2>1, <2>3
  <2>5. unplanned' = unplanned
    BY <1>2, <1>10 DEF B!Book
  <2> QED
    BY <1>2, <1>7, <1>8, <2>1, <2>2, <2>4, <2>5
<1>11. CASE ~(held[i] = "held" /\ consumed[i] + 1 <= reserved[i])
  <2>1. unplanned' = [unplanned EXCEPT ![a] = 1]
    <3>1. unplanned[a] + 1 = 1
      BY <1>3
    <3> QED
      BY <1>2, <1>11, <3>1 DEF B!Book
  <2>2. CASE held[i] = "held"
    <3>1. reserved[i] <= consumed[i]
      BY <1>4, <1>11, <2>2
    <3>2. RowPromises(i) = 0 /\ RowTakes(i) = consumed[i]
      BY <1>4, <2>2, <3>1 DEF RowPromises, RowTakes
    <3>3. RowTakes(i)' = consumed[i] + 1
      BY <1>4, <1>9, <2>2, <3>1 DEF RowTakes
    <3>4. RowPromises(i)' = 0
      BY <1>4, <1>9, <2>2, <3>1 DEF RowPromises
    <3> QED
      BY <1>2, <1>3, <1>7, <1>8, <2>1, <3>2, <3>3, <3>4
  <2>3. CASE held[i] # "held"
    <3>1. reserved[i] = consumed[i]
      BY <1>3, <1>4, <2>3 DEF Booked
    <3>2. RowPromises(i) = 0 /\ RowTakes(i) = consumed[i]
      BY <1>4, <2>3, <3>1 DEF RowPromises, RowTakes
    <3>3. RowTakes(i)' = consumed[i] + 1
      BY <1>2, <1>9, <2>3 DEF RowTakes
    <3>4. RowPromises(i)' = 0
      BY <1>9, <2>3 DEF RowPromises
    <3> QED
      BY <1>2, <1>3, <1>7, <1>8, <2>1, <3>2, <3>3, <3>4
  <2> QED
    BY <2>2, <2>3
<1> QED
  BY <1>10, <1>11

LEMMA BillKeeps ==
  ASSUME GenerationInv, CallsInv, GenerationInv', NEW a \in Attempts, Bill(a),
         NEW R, NEW L, Purse(R, L), Covered(R), Within(R, L)
  PROVE  Covered(R)' /\ Within(R, L)'
<1>0. B!BudgetsTypeOK /\ B!BudgetsTypeOK'
  BY TypeParts DEF GenerationInv
<1>1. /\ L \in Nat /\ B!Spent(R) \in Nat /\ B!Promised(R) \in Nat /\ B!Committed(R) \in Nat
      /\ B!Spent(R)' \in Nat /\ B!Promised(R)' \in Nat /\ B!Committed(R)' \in Nat
      /\ Cardinality(Overrunning(R)) \in Nat /\ IsFiniteSet(Overrunning(R))
      /\ R \subseteq Attempts /\ IsFiniteSet(KeysOf(R)) /\ KeysOf(R) \subseteq B!Keys
  BY <1>0, PurseParts, SumTypes, SumTypesPrime
<1>2. PICK i \in B!Ids, k \in B!Keys :
        /\ i[1] = a /\ k[1] = a /\ RowsBut(i)
        /\ ledger[k] = 0 /\ ledger' = [ledger EXCEPT ![k] = 1]
        /\ \/ /\ RowPromises(i) = RowPromises(i)' + 1 /\ RowTakes(i)' = RowTakes(i)
              /\ unplanned' = unplanned
           \/ /\ RowPromises(i) = RowPromises(i)' /\ RowTakes(i)' = RowTakes(i) + 1
              /\ unplanned[a] = 0 /\ unplanned' = [unplanned EXCEPT ![a] = 1]
  BY BillRow
<1>3. (i \in B!RowsOf(R) <=> a \in R) /\ (k \in KeysOf(R) <=> a \in R)
  BY <1>2 DEF B!RowsOf, KeysOf, B!Ids, B!Keys
<1>4. CASE a \in R
  <2>1. B!Spent(R)' = B!Spent(R) + 1
    <3>1. Charges(R) \in [KeysOf(R) -> Nat] /\ Charges(R)' \in [KeysOf(R) -> Nat]
      BY <1>0, SumTypes, SumTypesPrime
    <3>2. \A x \in KeysOf(R) : ledger'[x] = IF x = k THEN 1 ELSE ledger[x]
      BY <1>0, <1>1, <1>2 DEF B!BudgetsTypeOK
    <3>3. /\ Charges(R)[k] = 0 /\ Charges(R)'[k] = 1
          /\ \A x \in KeysOf(R) \ {k} : Charges(R)'[x] = Charges(R)[x]
      BY <1>2, <1>3, <1>4, <3>2 DEF Charges
    <3>4. B!Total(Charges(R)') + Charges(R)[k] = B!Total(Charges(R)) + Charges(R)'[k]
      BY <1>1, <1>3, <1>4, <3>1, <3>3, TotalUpdate
    <3> QED
      BY <1>1, <3>3, <3>4, SumsAre
  <2>2. /\ B!Promised(R)' + RowPromises(i) = B!Promised(R) + RowPromises(i)'
        /\ B!Committed(R)' + RowTakes(i) = B!Committed(R) + RowTakes(i)'
    BY <1>0, <1>2, <1>3, <1>4, RowMoves
  <2>3. /\ RowPromises(i) \in Nat /\ RowPromises(i)' \in Nat
        /\ RowTakes(i) \in Nat /\ RowTakes(i)' \in Nat
    BY <1>0 DEF RowPromises, RowTakes, B!BudgetsTypeOK
  <2>4. CASE /\ RowPromises(i) = RowPromises(i)' + 1 /\ RowTakes(i)' = RowTakes(i)
             /\ unplanned' = unplanned
    <3>1. Overrunning(R)' = Overrunning(R)
      BY <2>4 DEF Overrunning
    <3>2. B!Promised(R)' + 1 = B!Promised(R) /\ B!Committed(R)' = B!Committed(R)
      BY <1>1, <2>2, <2>3, <2>4
    <3> QED
      BY <1>1, <2>1, <3>1, <3>2 DEF Covered, Within
  <2>5. CASE /\ RowPromises(i) = RowPromises(i)' /\ RowTakes(i)' = RowTakes(i) + 1
             /\ unplanned[a] = 0 /\ unplanned' = [unplanned EXCEPT ![a] = 1]
    <3>1. \A x \in Attempts : unplanned'[x] = IF x = a THEN 1 ELSE unplanned[x]
      BY <1>0, <2>5 DEF B!BudgetsTypeOK
    <3>2. Overrunning(R)' = Overrunning(R) \cup {a} /\ a \notin Overrunning(R)
      BY <1>1, <1>4, <2>5, <3>1 DEF Overrunning
    <3>3. Cardinality(Overrunning(R) \cup {a}) = Cardinality(Overrunning(R)) + 1
      BY <1>1, <3>2, FS_AddElement
    <3>4. B!Promised(R)' = B!Promised(R) /\ B!Committed(R)' = B!Committed(R) + 1
      BY <1>1, <2>2, <2>3, <2>5
    <3>5. Covered(R)'
      BY <1>1, <2>1, <3>4 DEF Covered
    <3>6. Cardinality(Overrunning(R)') = Cardinality(Overrunning(R)) + 1
      BY <3>2, <3>3
    <3> QED
      BY <1>1, <2>1, <3>4, <3>5, <3>6 DEF Within
  <2> QED
    BY <1>2, <2>4, <2>5
<1>5. CASE a \notin R
  <2>1. B!Promised(R)' = B!Promised(R) /\ B!Committed(R)' = B!Committed(R)
    BY <1>2, <1>3, <1>5, RowOfOthers
  <2>2. \A x \in KeysOf(R) : ledger'[x] = ledger[x]
    BY <1>0, <1>1, <1>2, <1>3, <1>5 DEF B!BudgetsTypeOK
  <2>3. Charges(R)' = Charges(R)
    BY <2>2 DEF Charges
  <2>4. \A x \in R : unplanned'[x] = unplanned[x]
    BY <1>0, <1>1, <1>2, <1>5 DEF B!BudgetsTypeOK
  <2>5. Overrunning(R)' = Overrunning(R)
    BY <2>4 DEF Overrunning
  <2> QED
    BY <2>1, <2>3, <2>5, SumsAre DEF Covered, Within
<1> QED
  BY <1>4, <1>5

\* Every purse bears what was taken from it.
CapInv ==
  /\ Covered(Attempts) /\ Within(Attempts, MonthLimit)
  /\ \A b \in Attempts : Covered(B!SameBrand(b)) /\ Within(B!SameBrand(b), DayLimit)

SpendInv == GenerationInv /\ CallsInv /\ CapInv

LEMMA PurseStep ==
  ASSUME GenerationInv, CallsInv, [Next]_vars, NEW R, NEW L, Purse(R, L),
         Covered(R), Within(R, L)
  PROVE  Covered(R)' /\ Within(R, L)'
<1>1. Steps /\ MoneyStep /\ GenerationInv'
  BY NextSteps, NextMoney, GenerationNext
<1>2. B!BudgetsTypeOK /\ B!BudgetsTypeOK'
  BY <1>1, TypeParts DEF GenerationInv
<1>3. CASE UNCHANGED budgetVars
  <2>1. RowsBut(None) /\ UNCHANGED <<ledger, unplanned>>
    BY <1>3 DEF budgetVars, RowsBut
  <2>2. None \notin B!RowsOf(R)
    BY PurseParts, IdParts
  <2> QED
    BY <2>1, <2>2, RowOfOthers, ChargesSame DEF Covered, Within
<1>4. ASSUME NEW a \in Attempts, Bill(a) PROVE Covered(R)' /\ Within(R, L)'
  BY <1>1, <1>4, BillKeeps
<1>5. ASSUME NEW a \in Attempts, B!ReserveSpend(a), Arrives(a)
      PROVE  Covered(R)' /\ Within(R, L)'
  BY <1>1, <1>2, <1>5, ReserveOpens, ReserveKeeps
<1>6. ASSUME NEW a \in Attempts, NEW as \in {"settled", "released"}, B!CloseOne(a, as)
      PROVE  Covered(R)' /\ Within(R, L)'
  BY <1>2, <1>6, CloseKeeps
<1> QED
  BY <1>1, <1>3, <1>4, <1>5, <1>6 DEF MoneyStep

LEMMA SpendNext == SpendInv /\ [Next]_vars => SpendInv'
<1> SUFFICES ASSUME GenerationInv, CallsInv, CapInv, [Next]_vars PROVE SpendInv'
  BY DEF SpendInv
<1>1. GenerationInv' /\ CallsInv'
  BY GenerationNext, CallsStep
<1>2. Covered(Attempts)' /\ Within(Attempts, MonthLimit)'
  <2>1. Purse(Attempts, MonthLimit)
    BY DEF Purse
  <2> QED
    BY <2>1, PurseStep DEF CapInv
<1>3. ASSUME NEW b \in Attempts
      PROVE  Covered(B!SameBrand(b))' /\ Within(B!SameBrand(b), DayLimit)'
  <2>1. Purse(B!SameBrand(b), DayLimit)
    BY DEF Purse
  <2> QED
    BY <2>1, PurseStep DEF CapInv
<1> QED
  BY <1>1, <1>2, <1>3 DEF SpendInv, CapInv

LEMMA NothingTaken ==
  ASSUME Init, NEW R, NEW L, Purse(R, L)
  PROVE  Covered(R) /\ Within(R, L)
<1>1. B!BudgetsTypeOK
  BY DEF Init, B!BudgetsInit, B!BudgetsTypeOK
<1>2. R \subseteq Attempts /\ L \in Nat /\ B!RowsOf(R) \subseteq B!Ids
      /\ KeysOf(R) \subseteq B!Keys
  BY PurseParts
<1>3. \A i \in B!RowsOf(R) : RowPromises(i) = 0 /\ RowTakes(i) = 0
  BY <1>2 DEF Init, B!BudgetsInit, RowPromises, RowTakes
<1>4. \A k \in KeysOf(R) : ledger[k] = 0
  BY <1>2 DEF Init, B!BudgetsInit
<1>5. ASSUME NEW S, NEW f \in [S -> Nat], \A x \in S : f[x] = 0
      PROVE  B!Total(f) = 0
  <2>1. Units(f, S) = {}
    BY <1>5 DEF Units
  <2> QED
    BY <2>1, TotalIs, FS_EmptySet
<1>6. B!Spent(R) = 0
  BY <1>1, <1>4, <1>5, SumTypes, SumsAre DEF Charges
<1>7. B!Promised(R) = 0
  BY <1>1, <1>3, <1>5, SumTypes, SumsAre DEF Promises
<1>8. B!Committed(R) = 0
  BY <1>1, <1>3, <1>5, SumTypes, SumsAre DEF Takes
<1>9. Cardinality(Overrunning(R)) \in Nat
  BY <1>1, SumTypes
<1> QED
  BY <1>2, <1>6, <1>7, <1>8, <1>9 DEF Covered, Within

LEMMA SpendInit == Init => SpendInv
<1> SUFFICES ASSUME Init PROVE SpendInv
  OBVIOUS
<1>1. Covered(Attempts) /\ Within(Attempts, MonthLimit)
  BY NothingTaken DEF Purse
<1>2. \A b \in Attempts : Covered(B!SameBrand(b)) /\ Within(B!SameBrand(b), DayLimit)
  BY NothingTaken DEF Purse
<1> QED
  BY <1>1, <1>2, GenerationInit, CallsInit DEF SpendInv, CapInv

\* Whatever the cap is, and however often attempts retry, are cancelled, lose
\* their answers or are charged late, what a brand and the company have spent or
\* promised passes it by no more than one model call of each attempt that was
\* charged past its reservation.
THEOREM SpendStaysWithinCap == Spec => []SpendWithinCap
<1>1. SpendInv => SpendWithinCap
  BY DEF SpendInv, CapInv, SpendWithinCap, Within, Overrunning
<1> QED
  BY <1>1, SpendInit, SpendNext, PTL DEF Spec

=============================================================================
