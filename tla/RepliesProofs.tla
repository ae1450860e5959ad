---------------------------- MODULE RepliesProofs ----------------------------
(***************************************************************************)
(* Theorems about Replies, for any number of drafts, executions, retries   *)
(* and faults.                                                             *)
(***************************************************************************)
EXTENDS Replies, TLAPS

Ats == {"none", "route", "send", "wait", "record", "done", "failed"}

\* The counters of an execution.
Counted(r) ==
  /\ at[r] \in {"none", "route"} => tried[r] = 0
  /\ at[r] = "send" => tried[r] < MaxSends
  /\ at[r] = "none" => lost[r] = 0
  /\ at[r] \in {"route", "send", "wait", "record"} => lost[r] < Tries

\* Executions are numbered as they are started.
Numbered ==
  \A d \in Drafts : \A k \in 1..MaxRuns : k > started[d] => at[<<d, k>>] = "none"

\* A draft crosses the send boundary once: before it nothing was sent, and the
\* call that crossed is the only one that will.
CrossesOnce(d) ==
  /\ sends[d] <= 1
  /\ state[d] \in {"none", "queued"} =>
       sends[d] = 0 /\ \A r \in Runs : r[1] = d => call[r] # "post"
  /\ \A r, q \in Runs :
       r[1] = d /\ q[1] = d /\ call[r] = "post" =>
         sends[d] = 0 /\ (call[q] = "post" => q = r)

\* What a reply that is called sent has to show.
Shown(d) ==
  state[d] = "sent" =>
    /\ link[d] \in posted /\ inbox[link[d]] = "outbound"
    /\ Wording[link[d]] = Wording[d]

\* An acceptance still to be recorded is one of the platform, or comes too late.
Accepted(r) == result[r] = "accepted" => r[1] \in posted \/ state[r[1]] \in Terminal

\* The transaction of a pull holds a comment of the platform, and a draft of
\* its words.
Pulled ==
  pull # None =>
    /\ pull.comment \in posted
    /\ pull.match # None =>
         pull.match \in Drafts /\ Wording[pull.match] = Wording[pull.comment]

RepliesInv ==
  /\ TypeOK /\ Numbered /\ Pulled
  /\ \A r \in Runs : Counted(r) /\ Accepted(r)
  /\ \A d \in Drafts : CrossesOnce(d) /\ Shown(d)

\* What is left of the invariant for an execution's own state.
Executions == /\ Numbered
              /\ \A r \in Runs : Counted(r)

-----------------------------------------------------------------------------
(* Helpers *)

\* What an answer of the send activity does.
AnswersAs(r, res) ==
  /\ call' = [call EXCEPT ![r] = "idle"]
  /\ at' \in [Runs -> Ats] /\ result' \in [Runs -> Results \cup {None}]
  /\ \A q \in Runs :
       /\ at'[q] = at[q]
            \/ (at[q] = "wait" /\ at'[q] = "record")
            \/ (at[q] = "wait" /\ at'[q] = "send" /\ tried[q] < MaxSends)
       /\ result'[q] = result[q] \/ (q = r /\ result'[q] = res)
  /\ UNCHANGED <<started, tried, lost>>

LEMMA AnswersDoes ==
  ASSUME TypeOK, NEW r \in Runs, NEW res \in Results, Answers(r, res)
  PROVE  AnswersAs(r, res)
<1>1. CASE at[r] # "wait"
  BY <1>1 DEF TypeOK, Answers, AnswersAs, Ats
<1>2. CASE at[r] = "wait" /\ Retries(r, res)
  BY <1>2 DEF TypeOK, Answers, AnswersAs, Ats, Retries, Goes
<1>3. CASE at[r] = "wait" /\ ~Retries(r, res)
  BY <1>3 DEF TypeOK, Answers, AnswersAs, Ats, Concludes, Goes
<1> QED
  BY <1>1, <1>2, <1>3

LEMMA AnswersKeepsExecutions ==
  ASSUME TypeOK, Executions, NEW r \in Runs, NEW res \in Results, AnswersAs(r, res)
  PROVE  Executions'
<1>1. \A q \in Runs : Counted(q)'
  BY DEF Executions, Counted, AnswersAs
<1>2. Numbered'
  <2> SUFFICES ASSUME NEW d \in Drafts, NEW k \in 1..MaxRuns, k > started[d]
               PROVE  at'[<<d, k>>] = "none"
    BY DEF Numbered, AnswersAs
  <2>1. <<d, k>> \in Runs /\ at[<<d, k>>] = "none"
    BY DEF Runs, Executions, Numbered
  <2> QED
    BY <2>1 DEF AnswersAs
<1> QED
  BY <1>1, <1>2 DEF Executions

\* Only the row of d moves, and it keeps its type.
RowOf(d) ==
  /\ state' \in [Drafts -> States] /\ link' \in [Drafts -> Remote \cup {None}]
  /\ inbox' \in [Remote -> {"none", "inbound", "outbound"}]
  /\ \A e \in Drafts : e # d => state'[e] = state[e] /\ link'[e] = link[e]
  /\ \A c \in Remote : inbox[c] = "outbound" => inbox'[c] = "outbound"
  /\ state[d] \in Terminal => state'[d] \in Terminal

LEMMA SettlesDoes ==
  ASSUME TypeOK, NEW d \in Drafts, NEW res, Settles(d, res)
  PROVE  /\ RowOf(d) /\ state'[d] \in Terminal
         /\ state[d] \in Terminal => UNCHANGED rowVars
         /\ state[d] \notin Terminal /\ state'[d] = "sent" =>
              res = "accepted" /\ link'[d] = d /\ inbox'[d] = "outbound"
<1>1. CASE state[d] \in Terminal
  BY <1>1 DEF TypeOK, Settles, RowOf, rowVars
<1>2. CASE state[d] \notin Terminal
  <2>1. Outcome(d, res) \in Terminal /\ (Outcome(d, res) = "sent" => res = "accepted")
    BY DEF Outcome, Terminal
  <2>2. state' = [state EXCEPT ![d] = Outcome(d, res)]
    BY <1>2 DEF Settles
  <2>3. state' \in [Drafts -> States] /\ state'[d] = Outcome(d, res)
        /\ \A e \in Drafts : e # d => state'[e] = state[e]
    BY <2>1, <2>2 DEF TypeOK, States, Terminal
  <2>4. d \in Remote
    BY DEF Remote
  <2>5. CASE res = "accepted"
    BY <1>2, <2>1, <2>3, <2>4, <2>5 DEF TypeOK, Settles, RowOf, ShowsReply
  <2>6. CASE res # "accepted"
    BY <1>2, <2>1, <2>3, <2>6 DEF TypeOK, Settles, RowOf
  <2> QED
    BY <2>5, <2>6
<1> QED
  BY <1>1, <1>2

\* What a pull's transaction holds after reading the drafts.
LEMMA IngestDoes ==
  ASSUME NEW c \in Remote, IngestComment(c)
  PROVE  \/ UNCHANGED pull
         \/ \E m \in Drafts \cup {None} :
              /\ pull' = [comment |-> c, match |-> m]
              /\ m # None => Wording[m] = Wording[c]
BY DEF IngestComment, Unconfirmed

-----------------------------------------------------------------------------
(* Types and counters, action by action *)

Typed == TypeOK' /\ Executions'

LEMMA TypedReply ==
  ASSUME TypeOK, Executions, NEW d \in Drafts, Reply(d)
  PROVE  Typed
BY DEF TypeOK, Executions, Reply, States, platformVars, runVars, Typed, Numbered, Counted

LEMMA TypedStart ==
  ASSUME TypeOK, Executions, NEW d \in Drafts, StartWorkflow(d)
  PROVE  Typed
<1> DEFINE k == started[d] + 1
           r == <<d, k>>
<1>1. k \in 1..MaxRuns /\ k > started[d]
  BY RepliesAssumption DEF RepliesAssumption, TypeOK, StartWorkflow
<1>2. r \in Runs /\ at[r] = "none" /\ tried[r] = 0 /\ lost[r] = 0
  BY <1>1 DEF Runs, Executions, Numbered, Counted
<1>3. /\ at' = [at EXCEPT ![r] = "route"] /\ started' = [started EXCEPT ![d] = k]
      /\ UNCHANGED <<rowVars, platformVars, result, tried, lost, call, pull, faults>>
  BY DEF StartWorkflow
<1> HIDE DEF r
<1>4. TypeOK'
  BY <1>1, <1>2, <1>3 DEF TypeOK, rowVars, platformVars
<1>5. \A q \in Runs : Counted(q)'
  BY <1>2, <1>3, RepliesAssumption DEF RepliesAssumption, TypeOK, Executions, Counted
<1>6. Numbered'
  <2> SUFFICES ASSUME NEW e \in Drafts, NEW j \in 1..MaxRuns, j > started'[e]
               PROVE  at'[<<e, j>>] = "none"
    BY DEF Numbered
  <2>1. started[e] \in Nat /\ started[d] \in Nat /\ j > started[e] /\ <<e, j>> # r
    BY <1>1, <1>3 DEF TypeOK, r
  <2>2. <<e, j>> \in Runs /\ at[<<e, j>>] = "none"
    BY <2>1 DEF Runs, Executions, Numbered
  <2> QED
    BY <2>1, <2>2, <1>2, <1>3 DEF TypeOK
<1> QED
  BY <1>4, <1>5, <1>6 DEF Typed, Executions

\* A step that leaves starts alone and moves no execution that has not begun.
LEMMA BegunOnly ==
  ASSUME Executions, UNCHANGED started,
         \A q \in Runs : at[q] = "none" => at'[q] = "none"
  PROVE  Numbered'
<1> SUFFICES ASSUME NEW d \in Drafts, NEW k \in 1..MaxRuns, k > started[d]
             PROVE  at'[<<d, k>>] = "none"
  BY DEF Numbered
<1>1. <<d, k>> \in Runs /\ at[<<d, k>>] = "none"
  BY DEF Runs, Executions, Numbered
<1> QED
  BY <1>1

LEMMA LosesDoes ==
  ASSUME TypeOK, Executions, NEW r \in Runs, at[r] \in {"route", "record"}, LosesAttempt(r)
  PROVE  /\ at' \in [Runs -> Ats] /\ lost' \in [Runs -> 0..Tries]
         /\ faults' \in 0..MaxFaults
         /\ \A q \in Runs : at'[q] = at[q] \/ (q = r /\ at'[q] = "failed")
         /\ \A q \in Runs : q # r => lost'[q] = lost[q]
         /\ at'[r] # "failed" => lost'[r] < Tries
<1>1. lost[r] \in 0..Tries /\ lost[r] < Tries /\ Tries \in Nat
  BY RepliesAssumption DEF RepliesAssumption, TypeOK, Executions, Counted
<1>2. /\ lost' = [lost EXCEPT ![r] = lost[r] + 1]
      /\ at' = [at EXCEPT ![r] = IF lost[r] + 1 = Tries THEN "failed" ELSE at[r]]
      /\ faults > 0 /\ faults' = faults - 1
  BY DEF LosesAttempt, Goes, Fault
<1>3. faults' \in 0..MaxFaults
  BY <1>2, RepliesAssumption DEF RepliesAssumption, TypeOK
<1>4. lost' \in [Runs -> 0..Tries] /\ lost'[r] = lost[r] + 1
      /\ \A q \in Runs : q # r => lost'[q] = lost[q]
  BY <1>1, <1>2 DEF TypeOK
<1>5. CASE lost[r] + 1 = Tries
  BY <1>2, <1>3, <1>4, <1>5 DEF TypeOK, Ats
<1>6. CASE lost[r] + 1 # Tries
  BY <1>1, <1>2, <1>3, <1>4, <1>6 DEF TypeOK, Ats
<1> QED
  BY <1>5, <1>6

LEMMA TypedRoute ==
  ASSUME TypeOK, Executions, NEW r \in Runs, ReadRoute(r)
  PROVE  Typed
<1>1. at[r] = "route" /\ tried[r] = 0 /\ 0 < MaxSends /\ 0 < Tries /\ Tries \in Nat
  BY RepliesAssumption DEF RepliesAssumption, ReadRoute, Executions, Counted
<1>2. UNCHANGED <<rowVars, platformVars, started, tried, call, pull>>
  BY DEF ReadRoute
<1>3. CASE LosesAttempt(r) /\ UNCHANGED result
  <2>1. TypeOK'
    BY <1>1, <1>2, <1>3, LosesDoes DEF TypeOK, rowVars, platformVars, Ats
  <2>2. \A q \in Runs : Counted(q)'
    BY <1>1, <1>2, <1>3, LosesDoes DEF Executions, Counted
  <2> QED
    BY <1>1, <1>2, <1>3, <2>1, <2>2, LosesDoes, BegunOnly DEF Executions, Typed
<1>4. CASE /\ (Goes(r, "send") /\ UNCHANGED result) \/ Concludes(r, "rejected")
           /\ lost' = [lost EXCEPT ![r] = 0]
           /\ UNCHANGED faults
  <2>1. /\ at' \in [Runs -> Ats] /\ at'[r] \in {"send", "record"}
        /\ \A q \in Runs : q # r => at'[q] = at[q]
        /\ result' \in [Runs -> Results \cup {None}]
    <3>1. CASE Goes(r, "send") /\ UNCHANGED result
      BY <3>1 DEF TypeOK, Goes, Ats
    <3>2. CASE Concludes(r, "rejected")
      BY <3>2 DEF TypeOK, Concludes, Goes, Ats, Results
    <3> QED
      BY <1>4, <3>1, <3>2
  <2>2. TypeOK'
    <3>1. lost' \in [Runs -> 0..Tries] /\ UNCHANGED faults
      BY <1>1, <1>4 DEF TypeOK
    <3> QED
      BY <1>2, <2>1, <3>1 DEF TypeOK, rowVars, platformVars, Ats
  <2>3. \A q \in Runs : Counted(q)'
    BY <1>1, <1>2, <1>4, <2>1 DEF TypeOK, Executions, Counted
  <2> QED
    BY <1>1, <1>2, <2>1, <2>2, <2>3, BegunOnly DEF Executions, Typed
<1> QED
  BY <1>3, <1>4 DEF ReadRoute

LEMMA TypedSend ==
  ASSUME TypeOK, Executions, NEW r \in Runs, SendReply(r)
  PROVE  Typed
<1>1. tried[r] < MaxSends /\ MaxSends \in Nat /\ lost[r] < Tries
  BY RepliesAssumption DEF RepliesAssumption, SendReply, Executions, Counted
<1>2. TypeOK'
  BY <1>1 DEF TypeOK, SendReply, Goes, rowVars, platformVars
<1>3. \A q \in Runs : Counted(q)'
  BY <1>1 DEF TypeOK, SendReply, Goes, Executions, Counted
<1>4. Numbered'
  BY BegunOnly DEF TypeOK, SendReply, Goes
<1> QED
  BY <1>2, <1>3, <1>4 DEF Typed, Executions

LEMMA TypedTimeout ==
  ASSUME TypeOK, Executions, NEW r \in Runs, SendTimesOut(r)
  PROVE  Typed
<1>1. faults' \in 0..MaxFaults
  BY RepliesAssumption DEF RepliesAssumption, TypeOK, SendTimesOut, Fault
<1>2. TypeOK'
  BY <1>1 DEF TypeOK, SendTimesOut, Concludes, Goes, Results, rowVars, platformVars
<1>3. \A q \in Runs : Counted(q)'
  BY DEF TypeOK, SendTimesOut, Concludes, Goes, Executions, Counted
<1>4. Numbered'
  BY BegunOnly DEF TypeOK, SendTimesOut, Concludes, Goes
<1> QED
  BY <1>2, <1>3, <1>4 DEF Typed, Executions

LEMMA TypedRecord ==
  ASSUME TypeOK, Executions, NEW r \in Runs, RecordOutcome(r)
  PROVE  Typed
<1>1. at[r] = "record" /\ r[1] \in Drafts
      /\ UNCHANGED <<platformVars, started, result, tried, call, pull>>
  BY DEF RecordOutcome, Runs
<1>2. /\ state' \in [Drafts -> States] /\ link' \in [Drafts -> Remote \cup {None}]
      /\ inbox' \in [Remote -> {"none", "inbound", "outbound"}]
  <2>1. CASE Settles(r[1], result[r])
    BY <1>1, <2>1, SettlesDoes DEF RowOf
  <2>2. CASE UNCHANGED rowVars
    BY <2>2 DEF TypeOK, rowVars
  <2> QED
    BY <2>1, <2>2 DEF RecordOutcome
<1>3. CASE Goes(r, "done") /\ UNCHANGED <<lost, faults>>
  <2>1. TypeOK'
    BY <1>1, <1>2, <1>3 DEF TypeOK, Goes, platformVars
  <2>2. \A q \in Runs : Counted(q)'
    BY <1>1, <1>3 DEF TypeOK, Goes, Executions, Counted
  <2>3. Numbered'
    BY <1>1, <1>3, BegunOnly DEF TypeOK, Goes
  <2> QED
    BY <2>1, <2>2, <2>3 DEF Typed, Executions
<1>4. CASE LosesAttempt(r)
  <2>1. TypeOK'
    BY <1>1, <1>2, <1>4, LosesDoes DEF TypeOK, platformVars, Ats
  <2>2. \A q \in Runs : Counted(q)'
    BY <1>1, <1>4, LosesDoes DEF Executions, Counted
  <2>3. Numbered'
    BY <1>1, <1>4, LosesDoes, BegunOnly
  <2> QED
    BY <2>1, <2>2, <2>3 DEF Typed, Executions
<1> QED
  BY <1>3, <1>4 DEF RecordOutcome

\* A step of an activity that answers, with what else it does.
LEMMA TypedAnswer ==
  ASSUME TypeOK, Executions, NEW r \in Runs, NEW res \in Results, Answers(r, res),
         UNCHANGED <<link, inbox, shows, pull>>, state' \in [Drafts -> States],
         posted' \subseteq Remote, sends' \in [Drafts -> 0..MaxRuns],
         faults' \in 0..MaxFaults
  PROVE  Typed
<1>1. AnswersAs(r, res)
  BY AnswersDoes
<1>2. TypeOK'
  BY <1>1 DEF TypeOK, AnswersAs, Ats
<1> QED
  BY <1>1, <1>2, AnswersKeepsExecutions DEF Typed

LEMMA SettledResult == \A s \in States : Settled(s) \in Results \cup {None}
BY DEF Settled, States, Results

LEMMA TypedLoad ==
  ASSUME TypeOK, Executions, NEW r \in Runs, LoadDraft(r)
  PROVE  Typed
<1>1. UNCHANGED <<rowVars, platformVars, pull, faults>>
  BY DEF LoadDraft
<1>2. CASE call' = [call EXCEPT ![r] = "boundary"] /\ UNCHANGED runVars
  BY <1>1, <1>2 DEF TypeOK, Executions, Numbered, Counted, rowVars, platformVars, runVars, Typed
<1>3. CASE \E res \in Results : Answers(r, res)
  BY <1>1, <1>3, TypedAnswer DEF TypeOK, rowVars, platformVars
<1>4. Settled(state[r[1]]) \in Results \cup {None}
  BY SettledResult DEF TypeOK, Runs
<1> QED
  BY <1>2, <1>3, <1>4 DEF LoadDraft, Results

LEMMA TypedBoundary ==
  ASSUME TypeOK, Executions, NEW r \in Runs, Boundary(r)
  PROVE  Typed
<1> DEFINE d == r[1]
<1>1. UNCHANGED <<link, inbox, platformVars, pull>> /\ d \in Drafts
  BY DEF Boundary, Runs
<1>2. state' \in [Drafts -> States] /\ faults' \in 0..MaxFaults
  BY RepliesAssumption DEF RepliesAssumption, Boundary, TypeOK, States, Fault
<1>3. CASE call' = [call EXCEPT ![r] = "post"] /\ UNCHANGED <<runVars, faults>>
  BY <1>1, <1>2, <1>3 DEF TypeOK, Executions, Numbered, Counted, platformVars, runVars, Typed
<1>4. CASE \E res \in Results : Answers(r, res)
  BY <1>1, <1>2, <1>4, TypedAnswer DEF TypeOK, platformVars
<1> QED
  BY <1>3, <1>4 DEF Boundary, Results

\* The call's effect finds nothing sent before.
LEMMA FirstEffect ==
  ASSUME TypeOK, NEW r \in Runs, CrossesOnce(r[1]), call[r] = "post",
         posted' = posted \cup {r[1]}, sends' = [sends EXCEPT ![r[1]] = @ + 1]
  PROVE  posted' \subseteq Remote /\ sends' \in [Drafts -> 0..MaxRuns] /\ sends[r[1]] = 0
<1>1. r[1] \in Drafts /\ r[1] \in Remote
  BY DEF Runs, Remote
<1>2. 1 \in 0..MaxRuns
  BY RepliesAssumption DEF RepliesAssumption, Runs
<1>3. sends[r[1]] = 0
  BY DEF CrossesOnce
<1> QED
  BY <1>1, <1>2, <1>3 DEF TypeOK

LEMMA TypedPost ==
  ASSUME TypeOK, Executions, NEW r \in Runs, CrossesOnce(r[1]), Post(r)
  PROVE  Typed
<1>1. UNCHANGED <<rowVars, shows, pull, faults>> /\ call[r] = "post"
  BY DEF Post
<1>2. posted' \subseteq Remote /\ sends' \in [Drafts -> 0..MaxRuns]
  BY <1>1, FirstEffect DEF Post, TypeOK
<1>3. \E res \in Results : Answers(r, res)
  BY DEF Post, Results
<1> QED
  BY <1>1, <1>2, <1>3, TypedAnswer DEF TypeOK, rowVars

LEMMA TypedDies ==
  ASSUME TypeOK, Executions, NEW r \in Runs, CrossesOnce(r[1]), CallDies(r)
  PROVE  Typed
<1>1. UNCHANGED <<rowVars, shows, runVars, pull>> /\ faults' \in 0..MaxFaults
      /\ call' = [call EXCEPT ![r] = "idle"]
  BY RepliesAssumption DEF RepliesAssumption, TypeOK, CallDies, Fault
<1>2. posted' \subseteq Remote /\ sends' \in [Drafts -> 0..MaxRuns]
  BY FirstEffect DEF CallDies, TypeOK
<1> QED
  BY <1>1, <1>2 DEF TypeOK, Executions, Numbered, Counted, rowVars, runVars, Typed

LEMMA TypedOutside ==
  ASSUME TypeOK, Executions, Pulled,
         \/ \E c \in Native : PostNative(c)
         \/ \E c \in Remote : IngestComment(c)
         \/ ConfirmIngested
  PROVE  Typed
<1>1. CASE \E c \in Native : PostNative(c)
  BY <1>1 DEF TypeOK, PostNative, Executions, Numbered, Counted, Remote, rowVars, runVars, Typed
<1>2. ASSUME NEW c \in Remote, IngestComment(c)
      PROVE  Typed
  <2>3. pull' \in [comment: Remote, match: Drafts \cup {None}] \cup {None}
    BY <1>2, IngestDoes DEF TypeOK
  <2>4. inbox' \in [Remote -> {"none", "inbound", "outbound"}]
        /\ UNCHANGED <<state, link, platformVars, runVars, call, faults>>
    BY <1>2 DEF TypeOK, IngestComment
  <2> QED
    BY <2>3, <2>4 DEF TypeOK, Executions, Numbered, Counted, platformVars, runVars, Typed
<1>3. CASE ConfirmIngested
  <2>1. pull.comment \in Remote /\ pull.match \in Drafts \cup {None} /\ pull # None
    BY <1>3 DEF TypeOK, ConfirmIngested
  <2>2. /\ state' \in [Drafts -> States] /\ link' \in [Drafts -> Remote \cup {None}]
        /\ inbox' \in [Remote -> {"none", "inbound", "outbound"}]
    BY <1>3, <2>1 DEF TypeOK, ConfirmIngested, States, rowVars
  <2>3. pull' = None /\ UNCHANGED <<platformVars, runVars, call, faults>>
    BY <1>3 DEF ConfirmIngested
  <2> QED
    BY <2>2, <2>3 DEF TypeOK, Executions, Numbered, Counted, platformVars, runVars, Typed
<1> QED
  BY <1>1, <1>2, <1>3

-----------------------------------------------------------------------------
(* The send boundary *)

Crossings == \A d \in Drafts : CrossesOnce(d)

\* A step that sends nothing, lets no call cross and queues nothing anew.
LEMMA QuietKeepsCrossings ==
  ASSUME Crossings, UNCHANGED sends,
         \A r \in Runs : call'[r] = "post" => call[r] = "post",
         \A d \in Drafts : state'[d] \in {"none", "queued"} =>
                              state[d] \in {"none", "queued"}
  PROVE  Crossings'
BY DEF Crossings, CrossesOnce

\* The effect of the one call that crossed.
LEMMA EffectKeepsCrossings ==
  ASSUME TypeOK, Crossings, NEW r \in Runs, call[r] = "post", UNCHANGED state,
         call' = [call EXCEPT ![r] = "idle"],
         sends' = [sends EXCEPT ![r[1]] = @ + 1]
  PROVE  Crossings'
<1>1. r[1] \in Drafts /\ sends[r[1]] = 0
  BY DEF Runs, Crossings, CrossesOnce
<1>2. state[r[1]] \notin {"none", "queued"}
  BY <1>1 DEF Crossings, CrossesOnce
<1>3. sends'[r[1]] = 1 /\ \A d \in Drafts : d # r[1] => sends'[d] = sends[d]
  BY <1>1 DEF TypeOK
<1>4. \A q \in Runs : call'[q] = "post" => call[q] = "post" /\ q # r
  BY DEF TypeOK
<1>5. \A q \in Runs : q[1] = r[1] => call'[q] # "post"
  BY <1>1, <1>4 DEF Crossings, CrossesOnce
<1> QED
  BY <1>2, <1>3, <1>4, <1>5 DEF Crossings, CrossesOnce

\* Only a draft that is queued lets its call cross.
LEMMA BoundaryPosts ==
  ASSUME TypeOK, NEW r \in Runs, Boundary(r), call' = [call EXCEPT ![r] = "post"]
  PROVE  state[r[1]] = "queued" /\ state' = [state EXCEPT ![r[1]] = "sending"]
<1>1. \A res \in Results : ~Answers(r, res)
  BY DEF TypeOK, Answers
<1> QED
  BY <1>1 DEF Boundary, StillQueued, Results

LEMMA BoundaryKeepsCrossings ==
  ASSUME TypeOK, Crossings, NEW r \in Runs, Boundary(r)
  PROVE  Crossings'
<1> DEFINE d == r[1]
<1>1. UNCHANGED sends /\ d \in Drafts
  BY DEF Boundary, platformVars, Runs
<1>2. CASE call' = [call EXCEPT ![r] = "post"]
  <2>1. state[d] = "queued" /\ state' = [state EXCEPT ![d] = "sending"]
    BY <1>2, BoundaryPosts
  <2>2. sends[d] = 0 /\ \A q \in Runs : q[1] = d => call[q] # "post"
    BY <1>1, <2>1 DEF Crossings, CrossesOnce
  <2>3. /\ \A q \in Runs : q # r => call'[q] = call[q]
        /\ state'[d] = "sending" /\ \A e \in Drafts : e # d => state'[e] = state[e]
    BY <1>1, <1>2, <2>1 DEF TypeOK
  <2>4. \A q \in Runs : q[1] = d /\ call'[q] = "post" => q = r
    BY <2>2, <2>3
  <2> HIDE DEF d
  <2>5. CrossesOnce(d)'
    BY <1>1, <2>2, <2>3, <2>4 DEF CrossesOnce
  <2>6. \A e \in Drafts : e # d => CrossesOnce(e)'
    <3>1. \A q \in Runs : q[1] # d => call'[q] = call[q]
      BY <2>3 DEF d
    <3> QED
      BY <1>1, <2>3, <3>1 DEF Crossings, CrossesOnce
  <2> QED
    BY <2>5, <2>6 DEF Crossings
<1>3. CASE \E res \in Results : Answers(r, res)
  <2>1. \A q \in Runs : call'[q] = "post" => call[q] = "post"
    BY <1>3 DEF TypeOK, Answers
  <2>2. \A e \in Drafts : state'[e] \in {"none", "queued"} => state[e] \in {"none", "queued"}
    BY DEF TypeOK, Boundary, StillQueued
  <2> QED
    BY <1>1, <2>1, <2>2, QuietKeepsCrossings
<1> QED
  BY <1>2, <1>3 DEF Boundary, Results

-----------------------------------------------------------------------------
(* What a sent reply has to show *)

Evidence == /\ \A r \in Runs : Accepted(r)
            /\ \A d \in Drafts : Shown(d)
            /\ Pulled

\* Nothing posted is taken back, and nothing settled is unsettled.
Grows ==
  /\ posted \subseteq posted'
  /\ \A c \in Remote : inbox[c] = "outbound" => inbox'[c] = "outbound"
  /\ \A d \in Drafts : state[d] \in Terminal => state'[d] \in Terminal

LEMMA ResultsKeep ==
  ASSUME Evidence, Grows,
         \A q \in Runs : result'[q] = "accepted" =>
            \/ result[q] = "accepted" \/ q[1] \in posted' \/ state'[q[1]] \in Terminal
  PROVE  \A r \in Runs : Accepted(r)'
<1>1. \A q \in Runs : q[1] \in Drafts
  BY DEF Runs
<1> QED
  BY <1>1 DEF Evidence, Grows, Accepted

LEMMA SentKeep ==
  ASSUME TypeOK, Evidence, Grows,
         \A d \in Drafts : state'[d] = "sent" =>
            (state[d] = "sent" /\ link'[d] = link[d]) \/ Shown(d)'
  PROVE  \A d \in Drafts : Shown(d)'
BY DEF TypeOK, Evidence, Grows, Shown

\* A step that leaves the rows and the pull alone.
LEMMA AwayKeepsEvidence ==
  ASSUME TypeOK, Evidence, UNCHANGED <<rowVars, pull>>, posted \subseteq posted',
         \A q \in Runs : result'[q] = "accepted" =>
            \/ result[q] = "accepted" \/ q[1] \in posted' \/ state[q[1]] \in Terminal
  PROVE  Evidence'
<1>1. Grows
  BY DEF Grows, rowVars
<1>2. Pulled'
  BY DEF Evidence, Pulled
<1> QED
  BY <1>1, <1>2, ResultsKeep, SentKeep DEF Evidence, rowVars

LEMMA RecordKeepsEvidence ==
  ASSUME TypeOK, Evidence, NEW r \in Runs, RecordOutcome(r)
  PROVE  Evidence'
<1> DEFINE d == r[1]
<1>1. UNCHANGED <<platformVars, result, pull>> /\ d \in Drafts
  BY DEF RecordOutcome, Runs
<1>2. CASE UNCHANGED rowVars
  BY <1>1, <1>2, AwayKeepsEvidence DEF platformVars
<1>3. CASE Settles(d, result[r])
  <2>1. /\ RowOf(d) /\ state'[d] \in Terminal
        /\ state[d] \in Terminal => UNCHANGED rowVars
        /\ state[d] \notin Terminal /\ state'[d] = "sent" =>
             result[r] = "accepted" /\ link'[d] = d /\ inbox'[d] = "outbound"
    BY <1>1, <1>3, SettlesDoes
  <2>2. Grows
    BY <1>1, <2>1 DEF Grows, RowOf, platformVars
  <2>3. \A e \in Drafts : state'[e] = "sent" =>
           (state[e] = "sent" /\ link'[e] = link[e]) \/ Shown(e)'
    <3>1. state[d] \notin Terminal /\ state'[d] = "sent" => d \in posted'
      BY <1>1, <2>1 DEF Evidence, Accepted, platformVars
    <3>2. state[d] \notin Terminal /\ state'[d] = "sent" => Shown(d)'
      BY <2>1, <3>1 DEF Shown
    <3>3. state[d] \in Terminal => state'[d] = state[d] /\ link'[d] = link[d]
      BY <2>1 DEF rowVars
    <3>4. \A e \in Drafts : e # d => state'[e] = state[e] /\ link'[e] = link[e]
      BY <2>1 DEF RowOf
    <3> QED
      BY <3>2, <3>3, <3>4
  <2>4. \A e \in Drafts : Shown(e)'
    BY <2>2, <2>3, SentKeep
  <2>5. \A q \in Runs : Accepted(q)'
    BY <1>1, <2>2, ResultsKeep
  <2>6. Pulled'
    BY <1>1 DEF Evidence, Pulled, platformVars
  <2> QED
    BY <2>4, <2>5, <2>6 DEF Evidence
<1> QED
  BY <1>2, <1>3 DEF RecordOutcome

LEMMA ActivityKeepsEvidence ==
  ASSUME TypeOK, Evidence, NEW r \in Runs,
         LoadDraft(r) \/ Boundary(r) \/ Post(r) \/ CallDies(r)
  PROVE  Evidence'
<1>0. r[1] \in Drafts
  BY DEF Runs
<1>1. CASE LoadDraft(r)
  <2>1. Settled(state[r[1]]) = "accepted" => state[r[1]] \in Terminal
    BY RepliesAssumption DEF RepliesAssumption, Settled, Terminal, Results
  <2>2. \A q \in Runs : result'[q] = "accepted" =>
           result[q] = "accepted" \/ state[q[1]] \in Terminal
    <3>1. CASE UNCHANGED runVars
      BY <3>1 DEF runVars
    <3>2. ASSUME NEW res \in Results, Answers(r, res),
                 res = "accepted" => state[r[1]] \in Terminal
          PROVE  \A q \in Runs : result'[q] = "accepted" =>
                    result[q] = "accepted" \/ state[q[1]] \in Terminal
      BY <3>2, AnswersDoes DEF AnswersAs
    <3>3. Settled(state[r[1]]) \in Results \cup {None}
      BY <1>0, SettledResult DEF TypeOK
    <3> QED
      BY <1>1, <2>1, <3>1, <3>2, <3>3 DEF LoadDraft, Results
  <2> QED
    BY <1>1, <2>2, AwayKeepsEvidence DEF LoadDraft, platformVars
<1>2. CASE Boundary(r)
  <2>1. UNCHANGED <<link, inbox, platformVars, pull>>
    BY <1>2 DEF Boundary
  <2>2. /\ \A e \in Drafts : state[e] \in Terminal => state'[e] \in Terminal
        /\ \A e \in Drafts : state'[e] = "sent" => state[e] = "sent"
    BY <1>0, <1>2 DEF TypeOK, Boundary, StillQueued, Terminal
  <2>3. \A q \in Runs : result'[q] = "accepted" => result[q] = "accepted"
    <3>1. CASE UNCHANGED runVars
      BY <3>1 DEF runVars
    <3>2. ASSUME NEW res \in Results, Answers(r, res), res # "accepted"
          PROVE  \A q \in Runs : result'[q] = "accepted" => result[q] = "accepted"
      BY <3>2, AnswersDoes DEF AnswersAs
    <3> QED
      BY <1>2, <3>1, <3>2 DEF Boundary, Results
  <2>4. Grows
    BY <2>1, <2>2 DEF Grows, platformVars
  <2>5. Pulled'
    BY <2>1 DEF Evidence, Pulled, platformVars
  <2> QED
    BY <2>1, <2>2, <2>3, <2>4, <2>5, ResultsKeep, SentKeep DEF Evidence
<1>3. CASE Post(r)
  <2>1. posted \subseteq posted' /\ UNCHANGED <<rowVars, pull>>
    BY <1>3 DEF Post
  <2>2. \A q \in Runs : result'[q] = "accepted" =>
           result[q] = "accepted" \/ q[1] \in posted'
    <3>1. ASSUME NEW res \in Results, Answers(r, res),
                 res = "accepted" => r[1] \in posted'
          PROVE  \A q \in Runs : result'[q] = "accepted" =>
                    result[q] = "accepted" \/ q[1] \in posted'
      BY <3>1, AnswersDoes DEF AnswersAs
    <3> QED
      BY <1>3, <3>1 DEF Post, Results
  <2> QED
    BY <2>1, <2>2, AwayKeepsEvidence
<1>4. CASE CallDies(r)
  <2>1. posted \subseteq posted' /\ UNCHANGED <<rowVars, pull, result>>
    BY <1>4 DEF CallDies, runVars
  <2> QED
    BY <2>1, AwayKeepsEvidence
<1> QED
  BY <1>1, <1>2, <1>3, <1>4

LEMMA WorkflowKeepsEvidence ==
  ASSUME TypeOK, Evidence,
         \/ \E d \in Drafts : StartWorkflow(d)
         \/ \E r \in Runs : ReadRoute(r) \/ SendReply(r) \/ SendTimesOut(r)
  PROVE  Evidence'
<1>1. CASE \E d \in Drafts : StartWorkflow(d)
  BY <1>1, AwayKeepsEvidence DEF StartWorkflow, platformVars
<1>2. ASSUME NEW r \in Runs, ReadRoute(r) \/ SendReply(r) \/ SendTimesOut(r)
      PROVE  Evidence'
  <2>1. UNCHANGED <<rowVars, posted, pull>>
    BY <1>2 DEF ReadRoute, SendReply, SendTimesOut, platformVars
  <2>2. \A q \in Runs : result'[q] = "accepted" => result[q] = "accepted"
    BY <1>2 DEF TypeOK, ReadRoute, SendReply, SendTimesOut, Concludes
  <2> QED
    BY <2>1, <2>2, AwayKeepsEvidence
<1> QED
  BY <1>1, <1>2

LEMMA OutsideKeepsEvidence ==
  ASSUME TypeOK, Evidence,
         \/ \E d \in Drafts : Reply(d)
         \/ \E c \in Native : PostNative(c)
         \/ \E c \in Remote : IngestComment(c)
         \/ ConfirmIngested
  PROVE  Evidence'
<1>1. ASSUME NEW d \in Drafts, Reply(d)
      PROVE  Evidence'
  <2>1. UNCHANGED <<link, inbox, posted, result, pull>>
    BY <1>1 DEF Reply, platformVars, runVars
  <2>2. /\ \A e \in Drafts : state[e] \in Terminal => state'[e] \in Terminal
        /\ \A e \in Drafts : state'[e] = "sent" => state[e] = "sent"
    BY <1>1 DEF TypeOK, Reply, Terminal
  <2>3. Grows
    BY <2>1, <2>2 DEF Grows
  <2>4. Pulled'
    BY <2>1 DEF Evidence, Pulled
  <2> QED
    BY <2>1, <2>2, <2>3, <2>4, ResultsKeep, SentKeep DEF Evidence
<1>2. CASE \E c \in Native : PostNative(c)
  BY <1>2, AwayKeepsEvidence DEF PostNative, runVars
<1>3. ASSUME NEW c \in Remote, IngestComment(c)
      PROVE  Evidence'
  <2>1. UNCHANGED <<state, link, posted, result>> /\ c \in posted /\ inbox[c] = "none"
    BY <1>3 DEF IngestComment, platformVars, runVars
  <2>2. Grows
    BY <1>3, <2>1 DEF TypeOK, IngestComment, Grows
  <2>3. Pulled'
    BY <1>3, <2>1, IngestDoes DEF Evidence, Pulled
  <2> QED
    BY <2>1, <2>2, <2>3, ResultsKeep, SentKeep DEF Evidence
<1>4. CASE ConfirmIngested
  <2>1. /\ pull # None /\ pull' = None /\ UNCHANGED <<posted, result>>
        /\ pull.comment \in Remote /\ pull.comment \in posted
        /\ pull.match # None =>
             pull.match \in Drafts /\ Wording[pull.match] = Wording[pull.comment]
    BY <1>4 DEF ConfirmIngested, TypeOK, Evidence, Pulled, platformVars, runVars
  <2>2. Grows
    BY <1>4, <2>1 DEF TypeOK, ConfirmIngested, Grows, rowVars, Terminal
  <2>3. \A e \in Drafts : state'[e] = "sent" =>
           (state[e] = "sent" /\ link'[e] = link[e]) \/ Shown(e)'
    BY <1>4, <2>1 DEF TypeOK, ConfirmIngested, Shown, rowVars
  <2> QED
    BY <2>1, <2>2, <2>3, ResultsKeep, SentKeep DEF Evidence, Pulled
<1> QED
  BY <1>1, <1>2, <1>3, <1>4

-----------------------------------------------------------------------------
(* The invariant *)

LEMMA RepliesInit == Init => RepliesInv
<1> SUFFICES ASSUME Init PROVE RepliesInv
  OBVIOUS
<1>1. TypeOK
  BY RepliesAssumption DEF RepliesAssumption, Init, TypeOK, States
<1>2. Numbered
  <2> SUFFICES ASSUME NEW d \in Drafts, NEW k \in 1..MaxRuns PROVE at[<<d, k>>] = "none"
    BY DEF Numbered
  <2>1. <<d, k>> \in Runs
    BY DEF Runs
  <2> QED
    BY <2>1 DEF Init
<1>3. \A r \in Runs : Counted(r) /\ Accepted(r)
  BY RepliesAssumption DEF RepliesAssumption, Init, Counted, Accepted, Results
<1>4. \A d \in Drafts : CrossesOnce(d)
  <2>1. \A d \in Drafts : sends[d] = 0 /\ sends[d] <= 1
    <3>1. \A d \in Drafts : sends[d] = 0
      BY DEF Init
    <3>2. 0 <= 1
      OBVIOUS
    <3> QED
      BY <3>1, <3>2, Zenon
  <2>2. \A r \in Runs : call[r] # "post"
    BY DEF Init
  <2> QED
    BY <2>1, <2>2 DEF CrossesOnce
<1>5. \A d \in Drafts : Shown(d)
  BY DEF Init, Shown
<1>6. Pulled
  BY DEF Init, Pulled
<1> QED
  BY <1>1, <1>2, <1>3, <1>4, <1>5, <1>6 DEF RepliesInv

LEMMA RepliesNext == RepliesInv /\ [Next]_vars => RepliesInv'
<1> SUFFICES ASSUME RepliesInv, [Next]_vars PROVE RepliesInv'
  OBVIOUS
<1>1. TypeOK /\ Executions /\ Crossings /\ Evidence
  BY DEF RepliesInv, Executions, Crossings, Evidence
<1>2. Typed
  <2>1. \A r \in Runs : CrossesOnce(r[1])
    BY <1>1 DEF Crossings, Runs
  <2>2. CASE UNCHANGED vars
    BY <1>1, <2>2 DEF vars, rowVars, platformVars, runVars, TypeOK, Executions,
       Numbered, Counted, Typed
  <2>3. Pulled
    BY <1>1 DEF Evidence
  <2> QED
    BY <1>1, <2>1, <2>2, <2>3, TypedReply, TypedStart, TypedRoute, TypedSend,
       TypedTimeout, TypedRecord, TypedLoad, TypedBoundary, TypedPost, TypedDies,
       TypedOutside DEF Next, Workflow, Activity
<1>3. Crossings'
  <2>1. ASSUME NEW r \in Runs, Post(r) \/ CallDies(r)
        PROVE  Crossings'
    <3>1. UNCHANGED state
      BY <2>1 DEF Post, CallDies, rowVars
    <3>2. call' = [call EXCEPT ![r] = "idle"]
      BY <2>1 DEF Post, CallDies, Answers
    <3>3. CASE UNCHANGED sends
      BY <1>1, <3>1, <3>2, <3>3, QuietKeepsCrossings DEF TypeOK
    <3>4. CASE call[r] = "post" /\ sends' = [sends EXCEPT ![r[1]] = @ + 1]
      BY <1>1, <3>1, <3>2, <3>4, EffectKeepsCrossings
    <3> QED
      BY <2>1, <3>3, <3>4 DEF Post, CallDies
  <2>2. ASSUME NEW r \in Runs, SendReply(r) \/ LoadDraft(r)
        PROVE  Crossings'
    <3>1. UNCHANGED <<sends, state>>
      BY <2>2 DEF SendReply, LoadDraft, rowVars, platformVars
    <3>2. \A q \in Runs : call'[q] = "post" => call[q] = "post"
      BY <1>1, <2>2 DEF TypeOK, SendReply, LoadDraft, Answers
    <3> QED
      BY <1>1, <3>1, <3>2, QuietKeepsCrossings
  <2>3. ASSUME NEW r \in Runs, RecordOutcome(r)
        PROVE  Crossings'
    <3>1. UNCHANGED <<sends, call>> /\ r[1] \in Drafts
      BY <2>3 DEF RecordOutcome, platformVars, Runs
    <3>2. CASE UNCHANGED rowVars
      BY <1>1, <3>1, <3>2, QuietKeepsCrossings DEF rowVars
    <3>3. CASE Settles(r[1], result[r])
      BY <1>1, <3>1, <3>3, SettlesDoes, QuietKeepsCrossings DEF RowOf, Terminal
    <3> QED
      BY <2>3, <3>2, <3>3 DEF RecordOutcome
  <2>4. ASSUME UNCHANGED <<sends, call, state>>
        PROVE  Crossings'
    BY <1>1, <2>4, QuietKeepsCrossings
  <2>5. ASSUME NEW d \in Drafts, Reply(d)
        PROVE  Crossings'
    <3>1. UNCHANGED <<sends, call>> /\ state[d] = "none"
          /\ \A e \in Drafts : e # d => state'[e] = state[e]
      BY <1>1, <2>5 DEF TypeOK, Reply, platformVars
    <3> QED
      BY <1>1, <3>1, QuietKeepsCrossings
  <2>6. ASSUME ConfirmIngested
        PROVE  Crossings'
    <3>1. UNCHANGED <<sends, call>>
      BY <2>6 DEF ConfirmIngested, platformVars
    <3>2. \A e \in Drafts : state'[e] \in {"none", "queued"} => state[e] \in {"none", "queued"}
      BY <1>1, <2>6 DEF TypeOK, ConfirmIngested, rowVars
    <3> QED
      BY <1>1, <3>1, <3>2, QuietKeepsCrossings
  <2>7. CASE UNCHANGED vars
    BY <2>4, <2>7 DEF vars, rowVars, platformVars
  <2>8. CASE \E d \in Drafts : StartWorkflow(d)
    BY <2>4, <2>8 DEF StartWorkflow, rowVars, platformVars
  <2>9. CASE \E r \in Runs : ReadRoute(r) \/ SendTimesOut(r)
    BY <2>4, <2>9 DEF ReadRoute, SendTimesOut, rowVars, platformVars
  <2>10. CASE (\E c \in Native : PostNative(c)) \/ (\E c \in Remote : IngestComment(c))
    BY <2>4, <2>10 DEF PostNative, IngestComment, rowVars, platformVars
  <2> QED
    BY <1>1, <2>1, <2>2, <2>3, <2>5, <2>6, <2>7, <2>8, <2>9, <2>10,
       BoundaryKeepsCrossings DEF Next, Workflow, Activity
<1>4. Evidence'
  <2>1. CASE UNCHANGED vars
    BY <1>1, <2>1, AwayKeepsEvidence DEF vars, platformVars, runVars
  <2> QED
    BY <1>1, <2>1, RecordKeepsEvidence, ActivityKeepsEvidence, WorkflowKeepsEvidence,
       OutsideKeepsEvidence DEF Next, Workflow, Activity
<1> QED
  BY <1>2, <1>3, <1>4 DEF RepliesInv, Typed, Executions, Crossings, Evidence

\* Every reachable state satisfies the invariant, with any number of replies,
\* executions and faults.
THEOREM RepliesInvariant == Spec => []RepliesInv
BY RepliesInit, RepliesNext, PTL DEF Spec

\* A reply reaches the platform at most once, through retries, timeouts whose
\* call goes on, and workflows that are started again.
THEOREM ReplyPostedOnce == Spec => []PostedOnce
<1>1. RepliesInv => PostedOnce
  BY DEF RepliesInv, CrossesOnce, PostedOnce
<1> QED
  BY <1>1, RepliesInvariant, PTL

\* A sent reply is linked to a comment of its words that is on the platform and
\* in the inbox as the brand's own.
THEOREM SentReplyIsShown == Spec => []SentIsShown
<1>1. RepliesInv => SentIsShown
  BY DEF RepliesInv, Shown, SentIsShown
<1> QED
  BY <1>1, RepliesInvariant, PTL

-----------------------------------------------------------------------------
(* A reply that one execution handles *)

Crossed == {"sending", "outcome_unknown", "sent"}

\* No activity runs for an execution that has not begun.
Fresh == \A r \in Runs : at[r] = "none" => call[r] = "idle"

\* What holds of an execution that handles its draft alone: once its call may
\* reach the platform the draft has left `queued`, a call under way has not
\* reached it yet, and only a result that admits the effect follows one.
One(r) ==
  /\ r[1] \in posted \/ call[r] = "post" => state[r[1]] \in Crossed
  /\ call[r] # "idle" \/ at[r] \in {"route", "send"} => r[1] \notin posted
  /\ at[r] \in {"route", "send"} => call[r] = "idle"
  /\ at[r] = "record" =>
       \/ result[r] = "unknown"
       \/ call[r] = "idle" /\ (result[r] = "accepted" \/ r[1] \notin posted)

Lone(d) ==
  /\ started[d] = 0 => d \notin posted
  /\ started[d] = 1 => One(<<d, 1>>)

\* The premises under which a find can only be this draft's.
NoRival(d) ==
  /\ started[d] = 1 /\ shows[d] = "own"
  /\ \A e \in Drafts \ {d} : Wording[e] = Wording[d] => state[e] = "none"

\* A comment found is one that was posted, and a pull that found the draft's
\* own reply has matched the draft, unless it is sent already.
Found(d) ==
  /\ inbox[d] = "outbound" => d \in posted
  /\ NoRival(d) =>
       /\ inbox[d] = "outbound" => state[d] = "sent"
       /\ pull # None /\ pull.comment = d => pull.match = d \/ state[d] = "sent"

LoneInv == Fresh /\ \A d \in Drafts : Lone(d) /\ Found(d)

\* A begun execution of a draft that has one at most is the first.
LEMMA RunIsFirst ==
  ASSUME TypeOK, Numbered, Fresh, NEW q \in Runs, at[q] # "none" \/ call[q] # "idle",
         started[q[1]] \in {0, 1}
  PROVE  q = <<q[1], 1>> /\ started[q[1]] = 1
<1>1. at[q] # "none"
  BY DEF Fresh
<1>2. q[1] \in Drafts /\ q[2] \in 1..MaxRuns /\ q = <<q[1], q[2]>>
  BY DEF Runs
<1>3. ~(q[2] > started[q[1]])
  BY <1>1, <1>2 DEF Numbered
<1>4. q[2] = 1 /\ started[q[1]] = 1
  BY <1>2, <1>3, RepliesAssumption DEF RepliesAssumption
<1> QED
  BY <1>2, <1>4

\* A step that leaves the execution of d alone, and of its row changes nothing
\* but that it is queued, or found to be sent.
LEMMA AwayKeepsLone ==
  ASSUME NEW d \in Drafts, Lone(d), d \in posted' => d \in posted, started'[d] = started[d],
         at'[<<d, 1>>] = at[<<d, 1>>], call'[<<d, 1>>] = call[<<d, 1>>],
         result'[<<d, 1>>] = result[<<d, 1>>],
         \/ state'[d] = state[d]
         \/ state[d] = "none"
         \/ state'[d] = "sent"
  PROVE  Lone(d)'
<1> DEFINE r == <<d, 1>>
<1>1. r[1] = d
  OBVIOUS
<1> HIDE DEF r
<1>2. ASSUME One(r) PROVE One(r)'
  BY <1>1, <1>2 DEF One, Crossed, r
<1> QED
  BY <1>2 DEF Lone, r

\* A step of execution q keeps what holds of every draft if it keeps what holds
\* of q.
LEMMA RunKeepsLone ==
  ASSUME TypeOK, Numbered, Fresh, \A d \in Drafts : Lone(d),
         NEW q \in Runs, at[q] # "none" \/ call[q] # "idle", UNCHANGED started,
         \A p \in Runs : p # q =>
            at'[p] = at[p] /\ call'[p] = call[p] /\ result'[p] = result[p],
         \A d \in Drafts : d # q[1] => state'[d] = state[d] /\ (d \in posted' => d \in posted),
         One(q) => One(q)'
  PROVE  \A d \in Drafts : Lone(d)'
<1> SUFFICES ASSUME NEW d \in Drafts PROVE Lone(d)'
  OBVIOUS
<1>1. CASE d # q[1]
  <2>1. <<d, 1>> # q /\ 1 \in 1..MaxRuns
    BY <1>1, RepliesAssumption DEF RepliesAssumption, Runs
  <2>2. <<d, 1>> \in Runs
    BY <2>1 DEF Runs
  <2> QED
    BY <1>1, <2>1, <2>2, AwayKeepsLone
<1>2. CASE d = q[1]
  <2>1. started[d] \in {0, 1} => q = <<d, 1>> /\ started[d] = 1
    BY <1>2, RunIsFirst
  <2> QED
    BY <2>1 DEF Lone
<1> QED
  BY <1>1, <1>2

\* The send activity's answer.
LEMMA AnswerKeepsOne ==
  ASSUME TypeOK, NEW q \in Runs, NEW res \in Results, Answers(q, res), One(q),
         call[q] # "idle",
         q[1] \in posted' => state'[q[1]] \in Crossed /\ res \in {"accepted", "unknown"}
  PROVE  One(q)'
<1>1. call'[q] = "idle" /\ at[q] \notin {"route", "send"}
  BY DEF TypeOK, Answers, One
<1>2. CASE at[q] # "wait"
  <2>1. at'[q] = at[q] /\ result'[q] = result[q]
    BY <1>2 DEF Answers
  <2> QED
    BY <1>1, <2>1 DEF One
<1>3. CASE at[q] = "wait" /\ Retries(q, res)
  <2>1. at'[q] = "send" /\ res = "retryable_error"
    BY <1>3 DEF TypeOK, Answers, Goes, Retries
  <2> QED
    BY <1>1, <2>1 DEF One
<1>4. CASE at[q] = "wait" /\ ~Retries(q, res)
  <2>1. at'[q] = "record" /\ result'[q] = res
    BY <1>4 DEF TypeOK, Answers, Concludes, Goes
  <2> QED
    BY <1>1, <2>1 DEF One
<1> QED
  BY <1>2, <1>3, <1>4

LEMMA AnswerElsewhere ==
  ASSUME TypeOK, NEW q \in Runs, NEW res \in Results, Answers(q, res)
  PROVE  /\ UNCHANGED started
         /\ \A p \in Runs : p # q =>
              at'[p] = at[p] /\ call'[p] = call[p] /\ result'[p] = result[p]
BY DEF TypeOK, Answers, Concludes, Goes

LEMMA WorkflowKeepsLone ==
  ASSUME TypeOK, Numbered, Fresh, \A d \in Drafts : Lone(d), NEW q \in Runs,
         ReadRoute(q) \/ SendReply(q) \/ SendTimesOut(q)
  PROVE  \A d \in Drafts : Lone(d)'
<1>1. /\ at[q] # "none" /\ UNCHANGED <<started, posted, state>>
      /\ \A p \in Runs : p # q =>
           at'[p] = at[p] /\ call'[p] = call[p] /\ result'[p] = result[p]
  BY DEF TypeOK, ReadRoute, SendReply, SendTimesOut, LosesAttempt, Concludes, Goes,
     rowVars, platformVars
<1>2. ASSUME One(q), ReadRoute(q) PROVE One(q)'
  <2>1. at[q] = "route" /\ UNCHANGED call /\ at'[q] \in {"route", "send", "record", "failed"}
        /\ (at'[q] = "record" => result'[q] = "rejected")
    BY <1>2 DEF TypeOK, ReadRoute, LosesAttempt, Concludes, Goes
  <2> QED
    BY <1>1, <1>2, <2>1 DEF One
<1>3. ASSUME One(q), SendReply(q) PROVE One(q)'
  <2>1. at[q] = "send" /\ at'[q] = "wait" /\ call'[q] = "load"
    BY <1>3 DEF TypeOK, SendReply, Goes
  <2> QED
    BY <1>1, <1>3, <2>1 DEF One
<1>4. ASSUME One(q), SendTimesOut(q) PROVE One(q)'
  <2>1. at[q] = "wait" /\ at'[q] = "record" /\ result'[q] = "unknown" /\ UNCHANGED call
    BY <1>4 DEF TypeOK, SendTimesOut, Concludes, Goes
  <2> QED
    BY <1>1, <1>4, <2>1 DEF One
<1> QED
  BY <1>1, <1>2, <1>3, <1>4, RunKeepsLone

\* What is recorded follows from the result, and a settled draft stays.
LEMMA RecordKeepsLone ==
  ASSUME TypeOK, Numbered, Fresh, \A d \in Drafts : Lone(d), NEW q \in Runs,
         Executions, RecordOutcome(q)
  PROVE  \A d \in Drafts : Lone(d)'
<1> DEFINE d == q[1]
<1>1. /\ at[q] = "record" /\ d \in Drafts
      /\ UNCHANGED <<posted, started, result, call>>
  BY DEF RecordOutcome, Runs, platformVars
<1>2. at'[q] \in {"record", "done", "failed"} /\ \A p \in Runs : p # q => at'[p] = at[p]
  BY <1>1, LosesDoes DEF TypeOK, RecordOutcome, Goes
<1>3. \A e \in Drafts : e # d => state'[e] = state[e]
  BY <1>1, SettlesDoes DEF RecordOutcome, RowOf, rowVars
<1>4. ASSUME One(q) PROVE One(q)'
  <2>1. d \in posted \/ call[q] = "post" => state'[d] \in Crossed
    <3>1. CASE UNCHANGED state
      BY <1>4, <3>1 DEF One
    <3>2. CASE state[d] \notin Terminal /\ state' = [state EXCEPT ![d] = Outcome(d, result[q])]
      <4>1. state'[d] = Outcome(d, result[q])
        BY <1>1, <3>2 DEF TypeOK
      <4>2. ASSUME d \in posted \/ call[q] = "post"
            PROVE  state[d] = "sending" /\ result[q] \in {"accepted", "unknown"}
        BY <1>1, <1>4, <3>2, <4>2 DEF One, Crossed, Terminal
      <4> QED
        BY <4>1, <4>2 DEF Outcome, Crossed
    <3> QED
      BY <3>1, <3>2 DEF RecordOutcome, Settles, rowVars
  <2> QED
    BY <1>1, <1>2, <1>4, <2>1 DEF One
<1> QED
  BY <1>1, <1>2, <1>3, <1>4, RunKeepsLone

LEMMA ActivityKeepsLone ==
  ASSUME TypeOK, Numbered, Fresh, \A d \in Drafts : Lone(d), NEW q \in Runs,
         LoadDraft(q) \/ Boundary(q) \/ Post(q) \/ CallDies(q)
  PROVE  \A d \in Drafts : Lone(d)'
<1> DEFINE d == q[1]
<1>1. d \in Drafts /\ call[q] # "idle"
  BY DEF Runs, LoadDraft, Boundary, Post, CallDies
<1>2. \A e \in Drafts : e # d => state'[e] = state[e] /\ (e \in posted' => e \in posted)
  BY DEF TypeOK, LoadDraft, Boundary, Post, CallDies, rowVars, platformVars
<1>3. UNCHANGED started /\ \A p \in Runs : p # q =>
           at'[p] = at[p] /\ call'[p] = call[p] /\ result'[p] = result[p]
  <2>1. CASE \E res \in Results : Answers(q, res)
    BY <2>1, AnswerElsewhere
  <2>2. CASE UNCHANGED runVars /\ \E c : call' = [call EXCEPT ![q] = c]
    BY <2>2 DEF TypeOK, runVars
  <2>3. Settled(state[d]) \in Results \cup {None}
    BY <1>1, SettledResult DEF TypeOK
  <2> QED
    BY <2>1, <2>2, <2>3 DEF LoadDraft, Boundary, Post, CallDies, Results
<1>4. ASSUME One(q), LoadDraft(q) PROVE One(q)'
  <2>1. UNCHANGED <<state, posted>> /\ d \notin posted
    BY <1>1, <1>4 DEF LoadDraft, One, rowVars, platformVars
  <2>2. CASE call' = [call EXCEPT ![q] = "boundary"] /\ UNCHANGED runVars
    <3>1. call'[q] = "boundary" /\ at'[q] = at[q] /\ result'[q] = result[q]
      BY <2>2 DEF TypeOK, runVars
    <3> QED
      BY <1>1, <1>4, <2>1, <3>1 DEF One
  <2>3. CASE \E res \in Results : Answers(q, res)
    BY <1>1, <1>4, <2>1, <2>3, AnswerKeepsOne
  <2>4. Settled(state[d]) \in Results \cup {None}
    BY <1>1, SettledResult DEF TypeOK
  <2> QED
    BY <1>4, <2>2, <2>3, <2>4 DEF LoadDraft, Results
<1>5. ASSUME One(q), Boundary(q) PROVE One(q)'
  <2>1. UNCHANGED posted /\ d \notin posted
    BY <1>1, <1>5 DEF Boundary, One, platformVars
  <2>2. CASE call' = [call EXCEPT ![q] = "post"] /\ UNCHANGED runVars
    <3>1. state' = [state EXCEPT ![d] = "sending"]
      BY <1>5, <2>2, BoundaryPosts
    <3>2. call'[q] = "post" /\ at'[q] = at[q] /\ result'[q] = result[q] /\ state'[d] = "sending"
      BY <1>1, <2>2, <3>1 DEF TypeOK, runVars
    <3> QED
      BY <1>1, <1>5, <2>1, <3>2 DEF One, Crossed
  <2>3. CASE \E res \in Results : Answers(q, res)
    BY <1>1, <1>5, <2>1, <2>3, AnswerKeepsOne
  <2> QED
    BY <1>5, <2>2, <2>3 DEF Boundary, Results
<1>6. ASSUME One(q), Post(q) PROVE One(q)'
  <2>1. UNCHANGED state /\ state[d] \in Crossed /\ d \notin posted
    BY <1>1, <1>6 DEF Post, One, rowVars
  <2> QED
    BY <1>1, <1>6, <2>1, AnswerKeepsOne DEF Post, Results
<1>7. ASSUME One(q), CallDies(q) PROVE One(q)'
  <2>1. call'[q] = "idle" /\ at'[q] = at[q] /\ result'[q] = result[q] /\ UNCHANGED state
    BY <1>7 DEF TypeOK, CallDies, runVars, rowVars
  <2>2. d \in posted' => state[d] \in Crossed
    BY <1>1, <1>7 DEF CallDies, One
  <2> QED
    BY <1>1, <1>7, <2>1, <2>2 DEF One
<1> QED
  BY <1>1, <1>2, <1>3, <1>4, <1>5, <1>6, <1>7, RunKeepsLone

LEMMA StartKeepsLone ==
  ASSUME TypeOK, Numbered, Fresh, \A d \in Drafts : Lone(d), NEW e \in Drafts,
         StartWorkflow(e)
  PROVE  \A d \in Drafts : Lone(d)'
<1> DEFINE r == <<e, 1>>
<1>1. /\ started' = [started EXCEPT ![e] = started[e] + 1]
      /\ at' = [at EXCEPT ![<<e, started[e] + 1>>] = "route"]
      /\ UNCHANGED <<state, posted, call, result>> /\ started[e] < MaxRuns
  BY DEF StartWorkflow, rowVars, platformVars
<1>2. \A d \in Drafts : d # e => Lone(d)'
  <2> SUFFICES ASSUME NEW d \in Drafts, d # e PROVE Lone(d)'
    OBVIOUS
  <2>1. started'[d] = started[d] /\ (started[d] = 1 => <<d, 1>> \in Runs)
    BY <1>1, RepliesAssumption DEF RepliesAssumption, TypeOK, Runs
  <2>2. started[d] = 1 => at'[<<d, 1>>] = at[<<d, 1>>]
    BY <1>1, <2>1 DEF TypeOK
  <2> QED
    BY <1>1, <2>1, <2>2, AwayKeepsLone DEF Lone
<1>3. Lone(e)'
  <2>1. started[e] \in Nat /\ started'[e] = started[e] + 1
    BY <1>1, RepliesAssumption DEF RepliesAssumption, TypeOK
  <2>2. ASSUME started[e] = 0 PROVE One(r)'
    <3>1. 1 \in 1..MaxRuns /\ 1 > started[e] /\ r \in Runs
      BY <1>1, <2>1, <2>2, RepliesAssumption DEF RepliesAssumption, Runs
    <3>2. at[r] = "none" /\ call[r] = "idle"
      BY <3>1 DEF Numbered, Fresh
    <3>3. at'[r] = "route" /\ call'[r] = "idle" /\ e \notin posted' /\ r[1] = e
      BY <1>1, <2>2, <3>1, <3>2 DEF TypeOK, Lone
    <3> QED
      BY <3>3 DEF One
  <2> QED
    BY <2>1, <2>2 DEF Lone
<1> QED
  BY <1>2, <1>3

LEMMA OutsideKeepsLone ==
  ASSUME \A d \in Drafts : Lone(d), UNCHANGED <<runVars, call>>,
         \A d \in Drafts : d \in posted' => d \in posted,
         \A d \in Drafts : state'[d] = state[d] \/ state[d] = "none" \/ state'[d] = "sent"
  PROVE  \A d \in Drafts : Lone(d)'
<1> SUFFICES ASSUME NEW d \in Drafts PROVE Lone(d)'
  OBVIOUS
<1>1. UNCHANGED <<started, at, result, call>>
  BY DEF runVars
<1>2. state'[d] = state[d] \/ state[d] = "none" \/ state'[d] = "sent"
  OBVIOUS
<1>3. Lone(d) /\ (d \in posted' => d \in posted)
  OBVIOUS
<1> QED
  BY <1>1, <1>2, <1>3, AwayKeepsLone

LEMMA LoneNext ==
  ASSUME RepliesInv, LoneInv, [Next]_vars
  PROVE  Fresh' /\ \A d \in Drafts : Lone(d)'
<1>1. TypeOK /\ Numbered /\ Executions /\ Fresh /\ \A d \in Drafts : Lone(d)
  BY DEF RepliesInv, LoneInv, Executions
<1>2. Fresh'
  <2>1. ASSUME NEW q \in Runs, NEW res \in Results, Answers(q, res) PROVE Fresh'
    <3>1. AnswersAs(q, res)
      BY <1>1, <2>1, AnswersDoes
    <3> QED
      BY <1>1, <3>1 DEF AnswersAs, Fresh, TypeOK
  <2>2. ASSUME NEW q \in Runs, Activity(q) \/ CallDies(q) PROVE Fresh'
    <3>1. q[1] \in Drafts /\ Settled(state[q[1]]) \in Results \cup {None}
      BY <1>1, SettledResult DEF TypeOK, Runs
    <3>2. CASE call[q] # "idle" /\ UNCHANGED at /\ \E c : call' = [call EXCEPT ![q] = c]
      BY <1>1, <3>2 DEF Fresh, TypeOK
    <3> QED
      BY <2>1, <2>2, <3>1, <3>2 DEF Activity, LoadDraft, Boundary, Post, CallDies, Results, runVars
  <2>3. ASSUME NEW q \in Runs, Workflow(q) PROVE Fresh'
    BY <1>1, <2>3, LosesDoes DEF Fresh, TypeOK, Workflow, ReadRoute, SendReply, SendTimesOut,
       RecordOutcome, Concludes, Goes
  <2>4. ASSUME NEW d \in Drafts, StartWorkflow(d) PROVE Fresh'
    BY <1>1, <2>4 DEF Fresh, TypeOK, StartWorkflow
  <2>5. CASE UNCHANGED <<at, call>>
    BY <1>1, <2>5 DEF Fresh
  <2> QED
    BY <2>2, <2>3, <2>4, <2>5 DEF Next, Reply, PostNative, IngestComment, ConfirmIngested,
       vars, runVars
<1>4. ASSUME UNCHANGED vars
      PROVE  \A d \in Drafts : Lone(d)'
  BY <1>1, <1>4, OutsideKeepsLone DEF vars, rowVars, platformVars
<1>5. ASSUME NEW e \in Drafts, Reply(e)
      PROVE  \A d \in Drafts : Lone(d)'
  <2>1. UNCHANGED <<posted, runVars, call>>
    BY <1>5 DEF Reply, platformVars
  <2>2. \A d \in Drafts : state'[d] = state[d] \/ state[d] = "none"
    BY <1>1, <1>5 DEF Reply, TypeOK
  <2> QED
    BY <1>1, <2>1, <2>2, OutsideKeepsLone
<1>6. ASSUME NEW c \in Native, PostNative(c)
      PROVE  \A d \in Drafts : Lone(d)'
  <2>1. UNCHANGED <<state, runVars, call>> /\ \A d \in Drafts : d \in posted' => d \in posted
    BY <1>6, RepliesAssumption DEF RepliesAssumption, PostNative, rowVars
  <2> QED
    BY <1>1, <2>1, OutsideKeepsLone
<1>7. ASSUME NEW c \in Remote, IngestComment(c)
      PROVE  \A d \in Drafts : Lone(d)'
  <2>1. UNCHANGED <<state, posted, runVars, call>>
    BY <1>7 DEF IngestComment, platformVars
  <2> QED
    BY <1>1, <2>1, OutsideKeepsLone
<1>8. ASSUME ConfirmIngested
      PROVE  \A d \in Drafts : Lone(d)'
  <2>1. UNCHANGED <<posted, runVars, call>>
    BY <1>8 DEF ConfirmIngested, platformVars
  <2>2. \A d \in Drafts : state'[d] = state[d] \/ state'[d] = "sent"
    BY <1>1, <1>8 DEF ConfirmIngested, TypeOK, rowVars
  <2> QED
    BY <1>1, <2>1, <2>2, OutsideKeepsLone
<1> QED
  BY <1>1, <1>2, <1>4, <1>5, <1>6, <1>7, <1>8, WorkflowKeepsLone, RecordKeepsLone,
     ActivityKeepsLone, StartKeepsLone DEF Next, Workflow, Activity

\* A step that stores no comment, starts nothing and leaves the pull alone.
LEMMA AwayKeepsFound ==
  ASSUME \A d \in Drafts : Found(d), posted \subseteq posted',
         UNCHANGED <<inbox, pull, shows, started>>,
         \A d \in Drafts : (state[d] = "sent" => state'[d] = "sent")
                           /\ (state'[d] = "none" => state[d] = "none")
  PROVE  \A d \in Drafts : Found(d)'
<1> SUFFICES ASSUME NEW d \in Drafts PROVE Found(d)'
  OBVIOUS
<1>1. NoRival(d)' => NoRival(d)
  BY DEF NoRival
<1> QED
  BY <1>1 DEF Found

LEMMA StartKeepsFound ==
  ASSUME RepliesInv, LoneInv, NEW e \in Drafts, StartWorkflow(e)
  PROVE  \A d \in Drafts : Found(d)'
<1> SUFFICES ASSUME NEW d \in Drafts PROVE Found(d)'
  OBVIOUS
<1>1. /\ started' = [started EXCEPT ![e] = started[e] + 1]
      /\ UNCHANGED <<state, inbox, posted, shows, pull>>
  BY DEF StartWorkflow, rowVars, platformVars
<1>2. Found(d) /\ TypeOK /\ Pulled /\ (started[d] = 0 => d \notin posted)
  BY DEF RepliesInv, LoneInv, Lone
<1>3. CASE d # e
  BY <1>1, <1>2, <1>3 DEF TypeOK, Found, NoRival
<1>4. CASE d = e /\ started[d] = 0
  BY <1>1, <1>2, <1>4 DEF Found, Pulled
<1>5. CASE d = e /\ started[d] # 0
  <2>1. started[d] \in Nat /\ started'[d] # 1
    BY <1>1, <1>2, <1>5 DEF TypeOK
  <2> QED
    BY <1>1, <1>2, <2>1 DEF Found, NoRival
<1> QED
  BY <1>3, <1>4, <1>5

\* The record of an outcome stores a reply only as sent.
LEMMA RecordKeepsFound ==
  ASSUME RepliesInv, LoneInv, NEW q \in Runs, RecordOutcome(q)
  PROVE  \A d \in Drafts : Found(d)'
<1> DEFINE e == q[1]
<1>1. TypeOK /\ e \in Drafts /\ Accepted(q) /\ \A d \in Drafts : Found(d)
  BY DEF RepliesInv, LoneInv, Runs
<1>2. UNCHANGED <<platformVars, started, result, pull>>
  BY DEF RecordOutcome
<1>3. CASE UNCHANGED rowVars
  BY <1>1, <1>2, <1>3, AwayKeepsFound DEF rowVars, platformVars
<1>4. CASE state[e] \notin Terminal /\ Settles(e, result[q])
  <2>1. /\ state'[e] \in Terminal
        /\ \A d \in Drafts : d # e => state'[d] = state[d]
    BY <1>1, <1>4, SettlesDoes DEF RowOf
  <2>2. CASE result[q] # "accepted"
    <3>1. UNCHANGED inbox
      BY <1>4, <2>2 DEF Settles
    <3> QED
      BY <1>1, <1>2, <1>4, <2>1, <3>1, AwayKeepsFound DEF platformVars, Terminal
  <2>3. CASE result[q] = "accepted"
    <3>1. e \in posted /\ state'[e] = "sent" /\ \A c \in Remote : c # e => inbox'[c] = inbox[c]
      BY <1>1, <1>4, <2>3 DEF TypeOK, Accepted, Settles, Outcome, ShowsReply
    <3> SUFFICES ASSUME NEW d \in Drafts PROVE Found(d)'
      OBVIOUS
    <3>2. NoRival(d)' => NoRival(d)
      BY <1>2, <2>1 DEF NoRival, Terminal, platformVars
    <3>3. CASE d = e
      BY <1>2, <3>1, <3>3 DEF Found, platformVars
    <3>4. CASE d # e
      BY <1>1, <1>2, <2>1, <3>1, <3>2, <3>4 DEF Found, Remote, platformVars
    <3> QED
      BY <3>3, <3>4
  <2> QED
    BY <2>2, <2>3
<1> QED
  BY <1>3, <1>4 DEF RecordOutcome, Settles

\* A pull that has the reply of a draft without a rival matches that draft.
LEMMA PullMatches ==
  ASSUME RepliesInv, LoneInv, NEW d \in Drafts, NoRival(d), d \in posted,
         IngestComment(d)
  PROVE  state[d] = "sent" \/ pull' = [comment |-> d, match |-> d]
<1>1. state[d] \in Crossed
  BY DEF LoneInv, Lone, One, NoRival
<1>2. \A e \in Unconfirmed(d) : e = d
  BY DEF Unconfirmed, NoRival
<1>3. CASE state[d] # "sent"
  <2>1. d \in Unconfirmed(d)
    BY <1>1, <1>3 DEF Unconfirmed, Crossed
  <2> QED
    BY <1>2, <2>1 DEF IngestComment, NoRival
<1> QED
  BY <1>3

LEMMA IngestKeepsFound ==
  ASSUME RepliesInv, LoneInv, NEW c \in Remote, IngestComment(c)
  PROVE  \A d \in Drafts : Found(d)'
<1> SUFFICES ASSUME NEW d \in Drafts PROVE Found(d)'
  OBVIOUS
<1>1. TypeOK /\ Found(d)
  BY DEF RepliesInv, LoneInv
<1>2. UNCHANGED <<state, posted, shows, started>> /\ c \in posted /\ pull = None
  BY DEF IngestComment, platformVars, runVars
<1>3. d \in Remote /\ (inbox'[d] = "outbound" => inbox[d] = "outbound")
  BY <1>1 DEF IngestComment, TypeOK, Remote
<1>4. NoRival(d)' => NoRival(d)
  BY <1>2 DEF NoRival
<1>5. pull' # None => pull'.comment = c
  BY <1>2, IngestDoes
<1>6. ASSUME NoRival(d), pull' # None, pull'.comment = d
      PROVE  pull'.match = d \/ state[d] = "sent"
  BY <1>2, <1>5, <1>6, PullMatches
<1> QED
  BY <1>1, <1>2, <1>3, <1>4, <1>6 DEF Found

LEMMA ConfirmKeepsFound ==
  ASSUME RepliesInv, LoneInv, ConfirmIngested
  PROVE  \A d \in Drafts : Found(d)'
<1> SUFFICES ASSUME NEW d \in Drafts PROVE Found(d)'
  OBVIOUS
<1>1. TypeOK /\ Found(d) /\ Pulled
  BY DEF RepliesInv, LoneInv
<1>2. UNCHANGED <<posted, shows, started>> /\ pull # None /\ pull' = None
      /\ pull.comment \in posted /\ d \in Remote
  BY <1>1 DEF ConfirmIngested, platformVars, runVars, Pulled, Remote
<1>3. \A e \in Drafts : /\ state[e] = "sent" => state'[e] = "sent"
                        /\ state'[e] = "none" => state[e] = "none"
  BY <1>1 DEF ConfirmIngested, TypeOK, rowVars
<1>4. NoRival(d)' => NoRival(d)
  BY <1>2, <1>3 DEF NoRival
<1>5. CASE inbox'[d] = "outbound" => inbox[d] = "outbound"
  BY <1>1, <1>2, <1>3, <1>4, <1>5 DEF Found
<1>6. CASE inbox'[d] = "outbound" /\ inbox[d] # "outbound"
  <2>1. pull.comment = d /\ inbox[d] = "none"
    BY <1>1, <1>2, <1>6 DEF ConfirmIngested, TypeOK, rowVars
  <2>2. ASSUME NoRival(d) PROVE state'[d] = "sent"
    <3>1. state[d] \in Crossed
      BY <1>2, <2>1, <2>2 DEF LoneInv, Lone, One, NoRival
    <3>2. CASE state[d] = "sent"
      BY <1>3, <3>2
    <3>3. CASE state[d] \in {"sending", "outcome_unknown"}
      <4>1. pull.match = d
        BY <1>1, <1>2, <2>1, <2>2, <3>3 DEF Found
      <4>2. d # None
        BY RepliesAssumption DEF RepliesAssumption, Remote
      <4> QED
        BY <1>1, <2>1, <3>3, <4>1, <4>2 DEF ConfirmIngested, TypeOK
    <3> QED
      BY <3>1, <3>2, <3>3 DEF Crossed
  <2> QED
    BY <1>2, <1>4, <2>1, <2>2 DEF Found
<1> QED
  BY <1>5, <1>6

LEMMA FoundNext ==
  ASSUME RepliesInv, LoneInv, [Next]_vars
  PROVE  \A d \in Drafts : Found(d)'
<1>1. TypeOK /\ \A d \in Drafts : Found(d)
  BY DEF RepliesInv, LoneInv
<1>2. ASSUME NEW q \in Runs, Activity(q) \/ CallDies(q)
      PROVE  \A d \in Drafts : Found(d)'
  <2>1. UNCHANGED <<inbox, pull, shows, started>> /\ posted \subseteq posted'
    BY <1>2 DEF Activity, LoadDraft, Boundary, Post, CallDies, Answers, rowVars,
       platformVars, runVars
  <2>2. \A d \in Drafts : (state[d] = "sent" => state'[d] = "sent")
                          /\ (state'[d] = "none" => state[d] = "none")
    BY <1>1, <1>2 DEF TypeOK, Activity, LoadDraft, Boundary, Post, CallDies, StillQueued,
       rowVars
  <2> QED
    BY <1>1, <2>1, <2>2, AwayKeepsFound
<1>3. ASSUME NEW q \in Runs, ReadRoute(q) \/ SendReply(q) \/ SendTimesOut(q)
      PROVE  \A d \in Drafts : Found(d)'
  <2>1. UNCHANGED <<rowVars, pull, platformVars, started>>
    BY <1>3 DEF ReadRoute, SendReply, SendTimesOut
  <2> QED
    BY <1>1, <2>1, AwayKeepsFound DEF rowVars, platformVars
<1>4. ASSUME NEW e \in Drafts, Reply(e)
      PROVE  \A d \in Drafts : Found(d)'
  <2>1. UNCHANGED <<inbox, pull, platformVars, started>>
    BY <1>4 DEF Reply, runVars
  <2>2. \A d \in Drafts : (state[d] = "sent" => state'[d] = "sent")
                          /\ (state'[d] = "none" => state[d] = "none")
    BY <1>1, <1>4 DEF TypeOK, Reply
  <2> QED
    BY <1>1, <2>1, <2>2, AwayKeepsFound DEF platformVars
<1>5. ASSUME NEW c \in Native, PostNative(c)
      PROVE  \A d \in Drafts : Found(d)'
  <2>1. UNCHANGED <<rowVars, pull, shows, started>> /\ posted \subseteq posted'
    BY <1>5 DEF PostNative, runVars
  <2> QED
    BY <1>1, <2>1, AwayKeepsFound DEF rowVars
<1>6. ASSUME UNCHANGED vars
      PROVE  \A d \in Drafts : Found(d)'
  BY <1>1, <1>6, AwayKeepsFound DEF vars, rowVars, platformVars, runVars
<1> QED
  BY <1>2, <1>3, <1>4, <1>5, <1>6, StartKeepsFound, RecordKeepsFound, IngestKeepsFound,
     ConfirmKeepsFound DEF Next, Workflow, Activity

LEMMA LoneInit == Init => LoneInv
<1> SUFFICES ASSUME Init PROVE LoneInv
  OBVIOUS
<1>1. \A d \in Drafts : Lone(d)
  <2>1. \A d \in Drafts : started[d] = 0 /\ d \notin posted
    BY DEF Init
  <2>2. 0 # 1
    OBVIOUS
  <2> QED
    BY <2>1, <2>2, Zenon DEF Lone
<1>2. \A d \in Drafts : Found(d)
  BY DEF Init, Found, Remote
<1> QED
  BY <1>1, <1>2 DEF Init, LoneInv, Fresh

\* What holds of the replies that one execution handles is an invariant.
THEOREM LoneInvariant == Spec => []LoneInv
<1>1. RepliesInv /\ LoneInv /\ [Next]_vars => LoneInv'
  <2> SUFFICES ASSUME RepliesInv, LoneInv, [Next]_vars PROVE LoneInv'
    OBVIOUS
  <2> QED
    BY LoneNext, FoundNext DEF LoneInv
<1> QED
  BY <1>1, LoneInit, RepliesInvariant, PTL DEF Spec

\* A reply that failed was not posted, and its call cannot post it any more, as
\* long as one execution alone handled it: a timeout, a lost commit and a lost
\* worker end in an unknown outcome, never in a failure.
THEOREM FailedReplyWasNotPosted == Spec => []FailedWasNotPosted
<1>1. LoneInv => FailedWasNotPosted
  BY DEF LoneInv, Lone, One, Crossed, FailedWasNotPosted
<1> QED
  BY <1>1, LoneInvariant, PTL

\* A reply found on the platform as the brand's own is known to be sent,
\* whichever of its workflow and the pull came first, as long as one execution
\* handled it and no other reply of the same words may have taken the find.
THEOREM FoundReplyIsConfirmed == Spec => []FoundIsConfirmed
<1>1. LoneInv => FoundIsConfirmed
  BY DEF LoneInv, Found, NoRival, FoundIsConfirmed
<1> QED
  BY <1>1, LoneInvariant, PTL

=============================================================================
