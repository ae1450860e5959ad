-------------------------- MODULE RemoteChangeProofs --------------------------
(***************************************************************************)
(* Theorems about RemoteChange, for any number of requests, texts,         *)
(* attempts, losses and visits.                                            *)
(***************************************************************************)
EXTENDS RemoteChange, FiniteSetTheorems, TLAPS

Ats == {"idle", "call", "send", "readback", "record", "over"}

\* What the workflow of c holds of the post, and its record says of it.
Earned(c) ==
  /\ flow[c].at # "idle" => c \in Made
  /\ c \in acted => c \in Made /\ (change[c].kind = "delete" => gone)
  /\ \A l \in wire : l[1] = c => c \in Made
  /\ flow[c].at = "readback" => c \in acted
  /\ flow[c].at = "record" =>
       /\ flow[c].result = "done" => c \in acted
       /\ flow[c].result = "already_absent" => change[c].kind # "edit" /\ gone
  /\ change[c].state \in {"succeeded", "late"} =>
       c \in acted \/ (change[c].kind # "edit" /\ gone)

\* Requests are numbered as they are made.
Numbered == \E n \in 0..MaxChanges : Made = 1..n

RemoteInv ==
  /\ TypeOK /\ Numbered
  /\ \A c \in Changes : Earned(c)
  /\ pub = "removed" => gone

-----------------------------------------------------------------------------
(* The workflow of a change *)

\* The workflow of c moves, and no other.
Moves(c) == flow' = [flow EXCEPT ![c] = flow'[c]] /\ flow'[c] \in Flows

LEMMA GoesMoves ==
  ASSUME TypeOK, NEW c \in Changes, NEW w \in Ats, Goes(c, w)
  PROVE  Moves(c) /\ flow'[c].at = w /\ flow'[c].result = flow[c].result
         /\ flow'[c].revision = flow[c].revision /\ flow'[c].tries = flow[c].tries
BY DEF TypeOK, Goes, Moves, Flows, Ats

LEMMA OutcomeMoves ==
  ASSUME TypeOK, NEW c \in Changes, NEW result \in Results, Outcome(c, result)
  PROVE  Moves(c) /\ flow'[c].at = "record" /\ flow'[c].result = result
         /\ flow'[c].revision = flow[c].revision
<1>1. flow[c] \in Flows /\ RecordTries \in Nat
  BY RemoteChangeAssumption DEF RemoteChangeAssumption, TypeOK
<1> DEFINE f == [flow[c] EXCEPT !.at = "record", !.tries = RecordTries, !.result = result]
<1>2. f \in Flows /\ f.at = "record" /\ f.result = result /\ f.revision = flow[c].revision
  BY <1>1 DEF Flows
<1>3. flow' = [flow EXCEPT ![c] = f]
  BY <1>1 DEF TypeOK, Outcome
<1> HIDE DEF f
<1> QED
  BY <1>2, <1>3 DEF TypeOK, Moves

LEMMA AgainMoves ==
  ASSUME TypeOK, NEW c \in Changes, Again(c)
  PROVE  /\ Moves(c)
         /\ flow'[c].at = "call" \/ (flow'[c].at = "record" /\ flow'[c].result = "retryable")
         /\ flow'[c].revision = flow[c].revision
<1>1. CASE flow[c].tries > 1
  BY <1>1 DEF TypeOK, Again, Moves, Flows
<1>2. CASE ~(flow[c].tries > 1)
  BY <1>2, OutcomeMoves DEF Again, Results
<1> QED
  BY <1>1, <1>2

LEMMA RecordAgainMoves ==
  ASSUME TypeOK, NEW c \in Changes, RecordAgain(c)
  PROVE  /\ Moves(c) /\ flow'[c].at \in {flow[c].at, "over"}
         /\ flow'[c].result = flow[c].result /\ flow'[c].revision = flow[c].revision
<1>1. CASE flow[c].tries > 1
  BY <1>1 DEF TypeOK, RecordAgain, Moves, Flows
<1>2. CASE ~(flow[c].tries > 1)
  BY <1>2, GoesMoves DEF RecordAgain, Ats
<1> QED
  BY <1>1, <1>2

\* The answer of a call, and of a read-back.
LEMMA AnswerMoves ==
  ASSUME TypeOK, NEW c \in Changes, NEW result \in Results, Answered(c, result)
  PROVE  Moves(c) /\ flow'[c].at = "record" /\ flow'[c].result = result
<1> DEFINE f == [flow[c] EXCEPT !.at = "record", !.tries = RecordTries,
                                !.result = result, !.revision = rev]
<1>1. flow[c] \in Flows /\ RecordTries \in Nat /\ rev \in Nat
  BY RemoteChangeAssumption DEF RemoteChangeAssumption, TypeOK
<1>2. flow' = [flow EXCEPT ![c] = f]
  BY <1>1 DEF TypeOK, Answered
<1>3. f \in Flows /\ f.at = "record" /\ f.result = result
  BY <1>1 DEF Flows
<1> HIDE DEF f
<1> QED
  BY <1>2, <1>3 DEF TypeOK, Moves

LEMMA VerdictIsResult ==
  ASSUME NEW c \in Changes, NEW e
  PROVE  Verdict(c, e) \in Results
BY DEF Verdict, Results

LEMMA ArticleMoves ==
  ASSUME TypeOK, NEW c \in Changes,
         flow' = [flow EXCEPT ![c].at = "record", ![c].tries = RecordTries,
                              ![c].result = "done", ![c].revision = rev,
                              ![c].mismatch = change[c].kind = "edit"
                                                /\ shown # change[c].text]
  PROVE  Moves(c) /\ flow'[c].at = "record" /\ flow'[c].result = "done"
<1> DEFINE wrong == change[c].kind = "edit" /\ shown # change[c].text
           f == [flow[c] EXCEPT !.at = "record", !.tries = RecordTries, !.result = "done",
                                !.revision = rev, !.mismatch = wrong]
<1>1. flow[c] \in Flows /\ RecordTries \in Nat /\ rev \in Nat
  BY RemoteChangeAssumption DEF RemoteChangeAssumption, TypeOK
<1>2. wrong \in BOOLEAN
  BY Zenon
<1>3. flow' = [flow EXCEPT ![c] = f]
  BY <1>1 DEF TypeOK
<1> HIDE DEF wrong
<1>4. f \in Flows /\ f.at = "record" /\ f.result = "done"
  BY <1>1, <1>2 DEF Flows, Results
<1> HIDE DEF f
<1> QED
  BY <1>3, <1>4 DEF TypeOK, Moves

-----------------------------------------------------------------------------
(* The post *)

\* What a call does to the post and to what is remembered of it.
LEMMA PerformsPost ==
  ASSUME TypeOK, NEW c \in Changes, NEW e \in Nat, change[c].state # "none",
         Performs(c, e)
  PROVE  /\ gone' \in BOOLEAN /\ hidden' \in BOOLEAN /\ shown' \in AllTexts /\ rev' \in Nat
         /\ acted' \subseteq Changes /\ unseen' \subseteq Changes
         /\ gone => gone'
         /\ acted' \subseteq acted \cup {c} /\ acted \subseteq acted'
         /\ c \in acted' /\ c \notin acted /\ change[c].kind = "delete" => gone'
         /\ Verdict(c, e) = "done" => c \in acted'
         /\ Verdict(c, e) = "already_absent" => gone /\ change[c].kind # "edit"
         /\ Verdict(c, e) \in Results
<1>1. change[c] \in ChangeRows
  BY DEF TypeOK
<1>2. Verdict(c, e) = "done" => ~gone
  BY DEF Verdict
<1>3. /\ Verdict(c, e) = "already_absent" => gone /\ change[c].kind # "edit"
      /\ Verdict(c, e) \in Results
  BY DEF Verdict, Results
<1>4. CASE Verdict(c, e) # "done"
  BY <1>3, <1>4 DEF Performs, TypeOK, postVars
<1>5. CASE Verdict(c, e) = "done"
  <2>1. /\ gone' = (change[c].kind = "delete") /\ acted' = acted \cup {c}
        /\ hidden' = (hidden \/ change[c].kind = "unpublish")
    BY <1>5 DEF Performs
  <2>2. gone' \in BOOLEAN /\ hidden' \in BOOLEAN
    BY <2>1
  <2>3. shown' \in AllTexts
    BY <1>1, <1>5 DEF Performs, TypeOK, ChangeRows, AllTexts
  <2>4. rev' \in Nat
    BY <1>5 DEF Performs, TypeOK
  <2>5. unseen' \subseteq Changes
    BY <1>5 DEF Performs, TypeOK
  <2>6. acted' \subseteq Changes
    BY <2>1 DEF TypeOK
  <2> QED
    BY <1>2, <1>3, <1>5, <2>1, <2>2, <2>3, <2>4, <2>5, <2>6
<1> QED
  BY <1>4, <1>5

-----------------------------------------------------------------------------
(* What was earned stays earned *)

\* A step that takes nothing of d back.
Keeps(d) ==
  /\ flow'[d] = flow[d] /\ change'[d].kind = change[d].kind
  /\ d \in Made => d \in Made'
  /\ change'[d].state \in {"succeeded", "late"} =>
       change[d].state \in {"succeeded", "late"}
  /\ d \in acted' <=> d \in acted
  /\ \A l \in wire' : l[1] = d => \E m \in wire : m[1] = d
  /\ gone => gone'

LEMMA KeepsEarned ==
  ASSUME NEW d \in Changes, Earned(d), Keeps(d)
  PROVE  Earned(d)'
<1> USE DEF Earned, Keeps
<1>1. flow'[d].at # "idle" => d \in Made'
  OBVIOUS
<1>2. d \in acted' => d \in Made' /\ (change'[d].kind = "delete" => gone')
  OBVIOUS
<1>3. \A l \in wire' : l[1] = d => d \in Made'
  OBVIOUS
<1>4. flow'[d].at = "readback" => d \in acted'
  OBVIOUS
<1>5. flow'[d].at = "record" =>
        /\ flow'[d].result = "done" => d \in acted'
        /\ flow'[d].result = "already_absent" => change'[d].kind # "edit" /\ gone'
  OBVIOUS
<1>6. change'[d].state \in {"succeeded", "late"} =>
        d \in acted' \/ (change'[d].kind # "edit" /\ gone')
  OBVIOUS
<1> HIDE DEF Keeps
<1> QED
  BY <1>1, <1>2, <1>3, <1>4, <1>5, <1>6

\* A step of the workflow of c that leaves the records alone.
LEMMA OwnStep ==
  ASSUME RemoteInv, NEW c \in Changes, TypeOK', Moves(c), change' = change, pub' = pub,
         gone => gone', acted \subseteq acted', acted' \subseteq acted \cup {c},
         \A l \in wire' : l \in wire \/ l[1] = c,
         Earned(c)'
  PROVE  RemoteInv'
<1>1. Made' = Made
  BY DEF Made
<1>2. \A d \in Changes : d # c => Keeps(d)
  BY <1>1 DEF RemoteInv, TypeOK, Moves, Keeps
<1>3. \A d \in Changes : Earned(d)'
  BY <1>2, KeepsEarned DEF RemoteInv
<1> QED
  BY <1>1, <1>3 DEF RemoteInv, Numbered

\* A step of nobody's workflow that leaves the records alone.
LEMMA OthersStep ==
  ASSUME RemoteInv, TypeOK', flow' = flow, change' = change, pub' = pub,
         gone => gone', acted' = acted, wire' \subseteq wire
  PROVE  RemoteInv'
<1>1. Made' = Made
  BY DEF Made
<1>2. \A d \in Changes : Keeps(d)
  BY <1>1 DEF Keeps
<1> QED
  BY <1>1, <1>2, KeepsEarned DEF RemoteInv, Numbered

-----------------------------------------------------------------------------
(* The actions, one by one *)

LEMMA RequestInv ==
  ASSUME RemoteInv, NEW c \in Changes, NEW k \in Kinds, NEW t \in Texts \cup {Original},
         Request(c, k, t)
  PROVE  RemoteInv' /\ c \notin Made
<1>1. PICK n \in 0..MaxChanges : Made = 1..n
  BY DEF RemoteInv, Numbered
<1>2. n \in Nat /\ Cardinality(Made) = n
  BY <1>1, FS_Interval, RemoteChangeAssumption DEF RemoteChangeAssumption
<1>3. c = n + 1 /\ c \notin Made
  BY <1>1, <1>2 DEF Request
<1> DEFINE new == [state |-> "requested", kind |-> k, text |-> t, asked |-> evidence]
<1>4. \A d \in Changes :
        change'[d] = IF d = c THEN new
                     ELSE IF d \in Superseded THEN [change[d] EXCEPT !.state = "stale"]
                     ELSE change[d]
  BY DEF Request
<1>5. new \in ChangeRows /\ new.state = "requested"
  BY DEF RemoteInv, TypeOK, ChangeRows, ChangeStates
<1>6. \A d \in Changes : d # c => /\ change'[d] \in ChangeRows
                                  /\ change'[d].kind = change[d].kind
                                  /\ \/ change'[d] = change[d]
                                     \/ change'[d].state = "stale" /\ d \in Made
  <2> TAKE d \in Changes
  <2> HAVE d # c
  <2>1. change[d] \in ChangeRows
    BY DEF RemoteInv, TypeOK
  <2>2. CASE d \in Superseded
    <3>1. change'[d] = [change[d] EXCEPT !.state = "stale"] /\ d \in Made
      BY <1>4, <2>2 DEF Superseded, Open, Made
    <3> QED
      BY <2>1, <3>1 DEF ChangeRows, ChangeStates
  <2>3. CASE d \notin Superseded
    BY <1>4, <2>1, <2>3
  <2> QED
    BY <2>2, <2>3
<1> HIDE DEF new
<1>7. change' \in [Changes -> ChangeRows]
  <2>1. change' = [d \in Changes |-> change'[d]]
    BY DEF Request
  <2> QED
    BY <1>4, <1>5, <1>6, <2>1
<1>8. TypeOK'
  BY <1>7 DEF RemoteInv, TypeOK, Request, rowVars, postVars, limitVars, ghostVars
<1>9. Made' = Made \cup {c}
  BY <1>4, <1>5, <1>6 DEF Made
<1>10. Numbered'
  <2>1. Made' = 1..(n + 1)
    BY <1>1, <1>2, <1>3, <1>9
  <2>2. n + 1 \in 0..MaxChanges
    BY <1>2, <1>3, RemoteChangeAssumption DEF Changes, RemoteChangeAssumption
  <2> QED
    BY <2>1, <2>2 DEF Numbered
<1>11. \A d \in Changes : d # c => Keeps(d)
  BY <1>6, <1>9 DEF Keeps, Request, postVars, ghostVars
<1>12. Earned(c)'
  BY <1>3, <1>4, <1>5, <1>9 DEF RemoteInv, Earned, Request, postVars, ghostVars
<1>13. \A d \in Changes : Earned(d)'
  BY <1>11, <1>12, KeepsEarned DEF RemoteInv
<1> QED
  BY <1>3, <1>8, <1>10, <1>13 DEF RemoteInv, Request, rowVars, postVars

LEMMA SweepInv ==
  ASSUME RemoteInv, NEW c \in Changes, Sweep(c)
  PROVE  RemoteInv'
<1>1. change[c].state = "requested" /\ change[c] \in ChangeRows
  BY DEF Sweep, Open, RemoteInv, TypeOK
<1>2. change' = [change EXCEPT ![c] = [change[c] EXCEPT !.state = "stale"]]
  BY DEF Sweep, RemoteInv, TypeOK
<1>3. TypeOK'
  BY <1>1, <1>2 DEF RemoteInv, TypeOK, ChangeRows, ChangeStates, Sweep, rowVars, postVars,
     limitVars, ghostVars
<1>4. \A d \in Changes :
        /\ change'[d].kind = change[d].kind
        /\ change'[d].state # "none" <=> change[d].state # "none"
        /\ change'[d].state \in {"succeeded", "late"} =>
             change[d].state \in {"succeeded", "late"}
  BY <1>1, <1>2 DEF RemoteInv, TypeOK, ChangeRows
<1>5. Made' = Made
  BY <1>4 DEF Made
<1>6. \A d \in Changes : Keeps(d)
  BY <1>4, <1>5 DEF Keeps, Sweep, postVars, ghostVars
<1> QED
  BY <1>3, <1>5, <1>6, KeepsEarned
     DEF RemoteInv, Numbered, Sweep, rowVars, postVars

LEMMA AgesInv ==
  ASSUME RemoteInv, NEW c \in Changes, Ages(c)
  PROVE  RemoteInv'
<1>1. TypeOK'
  BY DEF RemoteInv, TypeOK, Ages, rowVars, postVars, limitVars, ghostVars
<1> QED
  BY <1>1, OthersStep DEF Ages, rowVars, postVars, ghostVars

LEMMA SiteEditInv ==
  ASSUME RemoteInv, SiteEdit
  PROVE  RemoteInv'
<1>1. TypeOK'
  BY RemoteChangeAssumption
     DEF RemoteInv, TypeOK, SiteEdit, Visit, rowVars, ghostVars, AllTexts,
         RemoteChangeAssumption
<1> QED
  BY <1>1, OthersStep DEF SiteEdit, rowVars, ghostVars

LEMMA FetchPageInv ==
  ASSUME RemoteInv, NEW how \in {"delayed", "asked"}, FetchPage(how)
  PROVE  RemoteInv'
<1>1. TypeOK'
  BY RemoteChangeAssumption
     DEF RemoteInv, TypeOK, FetchPage, Visit, rowVars, postVars, ghostVars, Verifications,
         RemoteChangeAssumption
<1> QED
  BY <1>1, OthersStep DEF FetchPage, rowVars, postVars, ghostVars

LEMMA RecordCheckInv ==
  ASSUME RemoteInv, RecordCheck
  PROVE  RemoteInv'
<1>1. TypeOK'
  BY DEF RemoteInv, TypeOK, RecordCheck, NoCheck, postVars, limitVars, ghostVars, Verifications
<1> QED
  BY <1>1, OthersStep DEF RecordCheck, postVars, ghostVars

LEMMA LandsInv ==
  ASSUME RemoteInv, NEW l \in wire, Lands(l)
  PROVE  RemoteInv'
<1> DEFINE c == l[1]
<1>1. c \in Changes /\ l[2] \in Nat /\ c \in Made
  BY DEF RemoteInv, TypeOK, Earned
<1>2. /\ gone' \in BOOLEAN /\ hidden' \in BOOLEAN /\ shown' \in AllTexts /\ rev' \in Nat
      /\ acted' \subseteq Changes /\ unseen' \subseteq Changes
      /\ gone => gone'
      /\ acted' \subseteq acted \cup {c} /\ acted \subseteq acted'
      /\ c \in acted' /\ c \notin acted /\ change[c].kind = "delete" => gone'
  BY <1>1, PerformsPost DEF Lands, RemoteInv, Made
<1>3. TypeOK'
  BY <1>2 DEF RemoteInv, TypeOK, Lands, rowVars, limitVars
<1>4. Moves(c)
  BY <1>1 DEF Lands, Moves, RemoteInv, TypeOK
<1>5. Made' = Made
  BY DEF Made, Lands
<1>6. Earned(c)'
  BY <1>1, <1>2, <1>5 DEF RemoteInv, Earned, Lands
<1> HIDE DEF c
<1> QED
  BY <1>1, <1>2, <1>3, <1>4, <1>6, OwnStep DEF Lands, rowVars

\* A step of the workflow that changes neither the rows nor the post.
LEMMA FlowStep ==
  ASSUME RemoteInv, NEW c \in Changes, Moves(c), change[c].state # "none",
         UNCHANGED <<rowVars, change, aged, check, postVars>>,
         faults' \in 0..MaxFaults, visits' = visits,
         acted' = acted, unseen' = unseen, outlived' \in BOOLEAN,
         wire' = wire \/ wire' = wire \cup {<<c, flow[c].revision>>},
         \/ flow'[c].at \in {"call", "send", "over"}
         \/ flow'[c].at = "record" /\ flow'[c].result \in {"rejected", "limited", "retryable"}
         \/ flow'[c].at = "record" /\ flow'[c].result = "done" /\ c \in acted
         \/ flow[c].at = "record" /\ flow'[c].at = "record" /\ flow'[c].result = flow[c].result
  PROVE  RemoteInv'
<1>1. flow[c].revision \in Nat
  BY DEF RemoteInv, TypeOK, Flows
<1>2. wire' \subseteq Changes \X Nat /\ \A l \in wire' : l \in wire \/ l[1] = c
  BY <1>1 DEF RemoteInv, TypeOK
<1>3. flow' \in [Changes -> Flows]
  BY DEF RemoteInv, TypeOK, Moves
<1>4. TypeOK'
  BY <1>2, <1>3 DEF RemoteInv, TypeOK, rowVars, postVars
<1>5. c \in Made' /\ Made' = Made
  BY DEF Made
<1>6. Earned(c)'
  BY <1>2, <1>5 DEF RemoteInv, Earned, postVars
<1> QED
  BY <1>2, <1>4, <1>6, OwnStep DEF rowVars, postVars

LEMMA Losses ==
  ASSUME TypeOK
  PROVE  (Fault \/ faults' = faults) => faults' \in 0..MaxFaults
BY RemoteChangeAssumption DEF TypeOK, Fault, RemoteChangeAssumption

\* An answered call is read back or recorded; another is made again or given up.
LEMMA SendMoves ==
  ASSUME RemoteInv, NEW c \in Changes, Send(c)
  PROVE  Moves(c) /\ flow'[c].at \in {"readback", "record", "call"}
<1> DEFINE e == flow[c].revision
           verdict == Verdict(c, e)
<1>1. change[c].state # "none" /\ e \in Nat
  BY DEF Send, RemoteInv, Earned, Made, TypeOK, Flows
<1>2. CASE Again(c)
  BY <1>2, AgainMoves DEF RemoteInv
<1>3. CASE /\ Performs(c, e)
           /\ flow' = [flow EXCEPT ![c].at = "readback", ![c].revision = rev']
  <2>1. rev' \in Nat
    BY <1>1, <1>3, PerformsPost DEF RemoteInv
  <2> QED
    BY <1>3, <2>1 DEF RemoteInv, TypeOK, Flows, Moves
<1>4. CASE Answered(c, verdict) \/ Answered(c, "limited")
  BY <1>4, AnswerMoves, VerdictIsResult DEF RemoteInv, Results
<1>5. CASE Outcome(c, "rejected")
  BY <1>5, OutcomeMoves DEF RemoteInv, Results
<1> QED
  BY <1>2, <1>3, <1>4, <1>5 DEF Send

LEMMA ReadBackMoves ==
  ASSUME RemoteInv, NEW c \in Changes, ReadBack(c)
  PROVE  Moves(c) /\ flow'[c].at \in {"record", "call"}
<1>1. CASE Again(c)
  BY <1>1, AgainMoves DEF RemoteInv
<1>2. CASE Outcome(c, "done")
  BY <1>2, OutcomeMoves DEF RemoteInv, Results
<1>3. CASE flow' = [flow EXCEPT ![c].at = "record", ![c].tries = RecordTries,
                                ![c].result = "done", ![c].revision = rev,
                                ![c].mismatch = change[c].kind = "edit"
                                                  /\ shown # change[c].text]
  BY <1>3, ArticleMoves DEF RemoteInv
<1> QED
  BY <1>1, <1>2, <1>3 DEF ReadBack

LEMMA StartInv ==
  ASSUME RemoteInv, NEW c \in Changes, Start(c)
  PROVE  RemoteInv'
<1>1. Moves(c) /\ flow'[c].at = "call" /\ change[c].state # "none"
  BY GoesMoves DEF RemoteInv, Start, Ats
<1> QED
  BY <1>1, FlowStep, Losses DEF Start, RemoteInv, TypeOK, limitVars, ghostVars

LEMMA CallInv ==
  ASSUME RemoteInv, NEW c \in Changes, Call(c)
  PROVE  RemoteInv'
<1>1. /\ change[c].state # "none" /\ faults' \in 0..MaxFaults
      /\ outlived' \in BOOLEAN
  BY Losses DEF Call, RemoteInv, Earned, Made, TypeOK, limitVars, ghostVars
<1>2. CASE Goes(c, "over")
  <2>1. Moves(c) /\ flow'[c].at = "over"
    BY <1>2, GoesMoves DEF RemoteInv, Ats
  <2> QED
    BY <1>1, <2>1, FlowStep DEF Call, limitVars, ghostVars
<1>3. CASE Outcome(c, "rejected")
  <2>1. Moves(c) /\ flow'[c].at = "record" /\ flow'[c].result = "rejected"
    BY <1>3, OutcomeMoves DEF RemoteInv, Results
  <2> QED
    BY <1>1, <2>1, FlowStep DEF Call, limitVars, ghostVars
<1>4. CASE Sending(c)
  <2>1. Moves(c) /\ flow'[c].at = "send"
    BY <1>4 DEF Sending, RemoteInv, TypeOK, Flows, Moves
  <2> QED
    BY <1>1, <2>1, FlowStep DEF Call, limitVars, ghostVars
<1> QED
  BY <1>2, <1>3, <1>4 DEF Call

LEMMA AgainInv ==
  ASSUME RemoteInv, NEW c \in Changes, Again(c), change[c].state # "none",
         UNCHANGED <<rowVars, change, aged, check, postVars>>,
         Fault \/ faults' = faults, visits' = visits,
         acted' = acted, unseen' = unseen, outlived' \in BOOLEAN,
         wire' = wire \/ wire' = wire \cup {<<c, flow[c].revision>>}
  PROVE  RemoteInv'
<1>1. /\ Moves(c)
      /\ flow'[c].at = "call" \/ (flow'[c].at = "record" /\ flow'[c].result = "retryable")
  BY AgainMoves DEF RemoteInv
<1> QED
  BY <1>1, FlowStep, Losses DEF RemoteInv

LEMMA ReadBackInv ==
  ASSUME RemoteInv, NEW c \in Changes, ReadBack(c)
  PROVE  RemoteInv'
<1>1. /\ flow[c].at = "readback" /\ change[c].state # "none" /\ c \in acted
      /\ outlived' \in BOOLEAN
  BY DEF ReadBack, RemoteInv, Earned, Made, TypeOK, ghostVars
<1>2. CASE Again(c) /\ Fault
  BY <1>1, <1>2, AgainInv DEF ReadBack, ghostVars
<1>3. CASE Outcome(c, "done") /\ faults' = faults
  <2>1. Moves(c) /\ flow'[c].at = "record" /\ flow'[c].result = "done"
    BY <1>3, OutcomeMoves DEF RemoteInv, Results
  <2> QED
    BY <1>1, <1>3, <2>1, FlowStep, Losses DEF ReadBack, RemoteInv, ghostVars
<1>4. CASE /\ flow' = [flow EXCEPT ![c].at = "record", ![c].tries = RecordTries,
                                   ![c].result = "done", ![c].revision = rev,
                                   ![c].mismatch = change[c].kind = "edit"
                                                     /\ shown # change[c].text]
           /\ faults' = faults
  <2>1. Moves(c) /\ flow'[c].at = "record" /\ flow'[c].result = "done"
    BY <1>4, ArticleMoves DEF RemoteInv
  <2> QED
    BY <1>1, <1>4, <2>1, FlowStep, Losses DEF ReadBack, RemoteInv, ghostVars
<1> QED
  BY <1>2, <1>3, <1>4 DEF ReadBack

\* A call that is carried out, whatever becomes of its answer.
LEMMA PerformStep ==
  ASSUME RemoteInv, NEW c \in Changes, Moves(c), change[c].state # "none",
         Performs(c, flow[c].revision),
         UNCHANGED <<rowVars, change, aged, check, wire, visits, outlived>>,
         Fault \/ faults' = faults,
         \/ flow'[c].at = "call"
         \/ flow'[c].at = "record" /\ flow'[c].result \in {"retryable", Verdict(c, flow[c].revision)}
         \/ flow'[c].at = "readback" /\ Verdict(c, flow[c].revision) = "done"
  PROVE  RemoteInv'
<1> DEFINE e == flow[c].revision
<1>1. e \in Nat
  BY DEF RemoteInv, TypeOK, Flows
<1>2. /\ gone' \in BOOLEAN /\ hidden' \in BOOLEAN /\ shown' \in AllTexts /\ rev' \in Nat
      /\ acted' \subseteq Changes /\ unseen' \subseteq Changes
      /\ gone => gone'
      /\ acted' \subseteq acted \cup {c} /\ acted \subseteq acted'
      /\ c \in acted' /\ c \notin acted /\ change[c].kind = "delete" => gone'
      /\ Verdict(c, e) = "done" => c \in acted'
      /\ Verdict(c, e) = "already_absent" => gone /\ change[c].kind # "edit"
  BY <1>1, PerformsPost DEF RemoteInv
<1>3. flow' \in [Changes -> Flows] /\ faults' \in 0..MaxFaults
  BY Losses DEF RemoteInv, TypeOK, Moves
<1>4. TypeOK'
  BY <1>2, <1>3 DEF RemoteInv, TypeOK, rowVars
<1>5. c \in Made' /\ Made' = Made
  BY DEF Made
<1> HIDE DEF e
<1>6. Earned(c)'
  <2>1. flow'[c].at = "readback" => c \in acted'
    BY <1>2 DEF e
  <2>2. flow'[c].at = "record" /\ flow'[c].result = "done" => c \in acted'
    BY <1>2 DEF e
  <2>3. flow'[c].at = "record" /\ flow'[c].result = "already_absent" =>
          change[c].kind # "edit" /\ gone'
    BY <1>2 DEF e
  <2>4. change[c].state \in {"succeeded", "late"} =>
          c \in acted' \/ (change[c].kind # "edit" /\ gone')
    BY <1>2 DEF RemoteInv, Earned
  <2>5. c \in acted' => (change[c].kind = "delete" => gone')
    BY <1>2 DEF RemoteInv, Earned
  <2> QED
    BY <1>5, <2>1, <2>2, <2>3, <2>4, <2>5 DEF Earned
<1> QED
  BY <1>2, <1>4, <1>6, OwnStep DEF rowVars

LEMMA SendInv ==
  ASSUME RemoteInv, NEW c \in Changes, Send(c)
  PROVE  RemoteInv'
<1> DEFINE e == flow[c].revision
           verdict == Verdict(c, e)
<1>1. /\ flow[c].at = "send" /\ change[c].state # "none"
      /\ UNCHANGED <<rowVars, change, aged, check, visits>>
      /\ outlived \in BOOLEAN /\ e \in Nat
  BY DEF Send, RemoteInv, Earned, Made, TypeOK, Flows
<1>2. CASE Performs(c, e) /\ UNCHANGED <<wire, outlived>> /\ Fault /\ Again(c)
  <2>1. /\ Moves(c)
        /\ flow'[c].at = "call" \/ (flow'[c].at = "record" /\ flow'[c].result = "retryable")
    BY <1>2, AgainMoves DEF RemoteInv
  <2> QED
    BY <1>1, <1>2, <2>1, PerformStep
<1>3. CASE /\ Performs(c, e) /\ UNCHANGED <<wire, outlived, faults>>
           /\ site /\ verdict = "done" /\ change[c].kind # "delete"
           /\ flow' = [flow EXCEPT ![c].at = "readback", ![c].revision = rev']
  <2>1. rev' \in Nat
    BY <1>1, <1>3, PerformsPost DEF RemoteInv
  <2>2. Moves(c) /\ flow'[c].at = "readback"
    BY <1>3, <2>1 DEF RemoteInv, TypeOK, Flows, Moves
  <2> QED
    BY <1>1, <1>3, <2>2, PerformStep
<1>4. CASE /\ Performs(c, e) /\ UNCHANGED <<wire, outlived, faults>>
           /\ Answered(c, verdict)
  <2>1. Moves(c) /\ flow'[c].at = "record" /\ flow'[c].result = verdict
    BY <1>4, AnswerMoves, VerdictIsResult DEF RemoteInv
  <2> QED
    BY <1>1, <1>4, <2>1, PerformStep
<1>5. CASE /\ UNCHANGED <<postVars, acted, unseen>>
           /\ Outcome(c, "rejected") \/ Answered(c, "limited")
           /\ UNCHANGED <<wire, faults, outlived>>
  <2>1. /\ Moves(c) /\ flow'[c].at = "record"
        /\ flow'[c].result \in {"rejected", "limited"}
    BY <1>5, OutcomeMoves, AnswerMoves DEF RemoteInv, Results
  <2> QED
    BY <1>1, <1>5, <2>1, FlowStep, Losses DEF RemoteInv
<1>6. CASE /\ UNCHANGED <<postVars, acted, unseen>> /\ Fault /\ Again(c)
           /\ \/ UNCHANGED <<wire, outlived>>
              \/ wire' = wire \cup {<<c, e>>} /\ outlived' = TRUE
  BY <1>1, <1>6, AgainInv
<1> QED
  BY <1>2, <1>3, <1>4, <1>5, <1>6 DEF Send

\* What writing an outcome does to the record of the change.
LEMMA RecordedState ==
  ASSUME TypeOK, NEW c \in Changes
  PROVE  /\ Recorded(c) \in ChangeStates
         /\ ~Writes(c) => Recorded(c) = change[c].state
         /\ Writes(c) => /\ change[c].state \in {"requested", "stale"}
                         /\ Recorded(c) \in {"succeeded", "late", "failed"}
                         /\ change[c].state = "stale" => Recorded(c) = "late"
                         /\ Recorded(c) \in {"succeeded", "late"} => Succeeded(flow[c].result)
<1>1. change[c].state \in ChangeStates
  BY DEF TypeOK, ChangeRows
<1> QED
  BY <1>1 DEF Recorded, Writes, Late, ChangeStates

LEMMA RecordInv ==
  ASSUME RemoteInv, NEW c \in Changes, Record(c)
  PROVE  RemoteInv'
<1>1. /\ flow[c].at = "record" /\ change[c].state # "none" /\ change[c] \in ChangeRows
      /\ flow[c].result = "done" => c \in acted
      /\ flow[c].result = "already_absent" => change[c].kind # "edit" /\ gone
  BY DEF Record, RemoteInv, Earned, Made, TypeOK
<1>2. /\ Moves(c) /\ faults' \in 0..MaxFaults /\ flow'[c].at \in {"record", "over"}
      /\ flow'[c].result = flow[c].result
  BY <1>1, GoesMoves, RecordAgainMoves, Losses DEF Record, RemoteInv, Ats
<1>3. CASE UNCHANGED <<change, current, evidence, status, verification, pub>>
  BY <1>1, <1>2, <1>3, FlowStep DEF Record, rowVars, ghostVars, RemoteInv, TypeOK
<1>4. CASE WriteOutcome(c)
  <2>1. /\ change' = [change EXCEPT ![c] = [change[c] EXCEPT !.state = Recorded(c)]]
        /\ change'[c].kind = change[c].kind /\ change'[c].state = Recorded(c)
        /\ change' \in [Changes -> ChangeRows]
    <3>1. change' = [change EXCEPT ![c] = [change[c] EXCEPT !.state = Recorded(c)]]
      BY <1>4 DEF WriteOutcome, RemoteInv, TypeOK
    <3>2. [change[c] EXCEPT !.state = Recorded(c)] \in ChangeRows
      BY <1>1, RecordedState DEF RemoteInv, ChangeRows
    <3> QED
      BY <1>1, <3>1, <3>2 DEF RemoteInv, TypeOK, ChangeRows
  <2>2. /\ UNCHANGED <<site, proven, aged, check, postVars, wire, visits, ghostVars>>
        /\ pub' \in {pub, "removed"} /\ status' \in {"live", "reverted"}
        /\ current' \in Texts \cup {Original} /\ evidence' \in Nat
        /\ verification' \in Verifications
    <3>1. current' \in Texts \cup {Original} /\ evidence' \in Nat
      BY <1>1, <1>4 DEF WriteOutcome, RemoteInv, TypeOK, ChangeRows, Flows
    <3> QED
      BY <1>4, <3>1 DEF Record, WriteOutcome, RemoteInv, TypeOK, Verifications
  <2>3. TypeOK'
    <3>1. flow' \in [Changes -> Flows]
      BY <1>2 DEF RemoteInv, TypeOK, Moves
    <3> QED
      BY <1>2, <2>1, <2>2, <3>1 DEF RemoteInv, TypeOK, postVars, ghostVars
  <2>4. Recorded(c) # "none"
    BY <1>1, RecordedState DEF RemoteInv
  <2>5. Made' = Made
    BY <1>1, <2>1, <2>4 DEF RemoteInv, TypeOK, Made
  <2>6. \A d \in Changes : d # c => Keeps(d)
    BY <1>2, <2>1, <2>2, <2>5 DEF RemoteInv, TypeOK, Moves, Keeps, postVars, ghostVars
  <2>7. Writes(c) /\ Recorded(c) \in {"succeeded", "late"} =>
          c \in acted \/ (change[c].kind # "edit" /\ gone)
    BY <1>1, RecordedState DEF RemoteInv, Succeeded
  <2>8. Earned(c)'
    <3>1. Recorded(c) \in {"succeeded", "late"} =>
            c \in acted \/ (change[c].kind # "edit" /\ gone)
      BY <2>7, RecordedState DEF RemoteInv, Earned
    <3> QED
      BY <1>1, <1>2, <2>1, <2>2, <2>5, <3>1
         DEF RemoteInv, Earned, postVars, ghostVars
  <2>9. pub' = "removed" => gone'
    <3>1. pub' = "removed" =>
            \/ pub = "removed"
            \/ /\ Writes(c) /\ Recorded(c) \in {"succeeded", "late"}
               /\ change[c].kind = "delete"
      BY <1>4 DEF WriteOutcome
    <3> QED
      BY <2>2, <2>7, <3>1 DEF RemoteInv, Earned, postVars
  <2>10. \A d \in Changes : Earned(d)'
    BY <2>6, <2>8, KeepsEarned DEF RemoteInv
  <2> QED
    BY <2>3, <2>5, <2>9, <2>10 DEF RemoteInv, Numbered
<1> QED
  BY <1>3, <1>4 DEF Record

-----------------------------------------------------------------------------
(* The invariant *)

LEMMA RemoteInit == Init => RemoteInv
<1> SUFFICES ASSUME Init PROVE RemoteInv
  OBVIOUS
<1> USE RemoteChangeAssumption DEF Init, RemoteChangeAssumption
<1>1. NoChange \in ChangeRows /\ NoChange.state = "none"
  BY DEF NoChange, ChangeRows, ChangeStates, Kinds
<1>2. [at |-> "idle", tries |-> Tries, result |-> "none", revision |-> 0,
       mismatch |-> FALSE] \in Flows
  BY DEF Flows, Results
<1>3. TypeOK
  <2>1. change \in [Changes -> ChangeRows] /\ flow \in [Changes -> Flows]
    BY <1>1, <1>2
  <2>2. check \in [at : {"none", "delayed", "asked"}, outcome : Verifications,
                   text : Texts \cup {Original}]
    BY DEF NoCheck, Verifications
  <2>3. gone \in BOOLEAN /\ hidden \in BOOLEAN /\ outlived \in BOOLEAN
    BY Zenon
  <2>4. /\ site \in BOOLEAN /\ pub \in {"published", "removed"}
        /\ status \in {"live", "reverted"} /\ verification \in Verifications
        /\ current \in Texts \cup {Original} /\ proven \in Texts \cup {Original}
        /\ shown \in AllTexts
    BY DEF AllTexts, Verifications
  <2>5. /\ evidence \in Nat /\ rev \in Nat
        /\ faults \in 0..MaxFaults /\ visits \in 0..MaxVisits
    OBVIOUS
  <2>6. /\ aged \subseteq Changes /\ wire \subseteq Changes \X Nat
        /\ acted \subseteq Changes /\ unseen \subseteq Changes
    OBVIOUS
  <2> HIDE DEF Init
  <2> QED
    BY <2>1, <2>2, <2>3, <2>4, <2>5, <2>6 DEF TypeOK
<1>4. Made = 1..0
  BY <1>1 DEF Made
<1>5. Numbered
  BY <1>4 DEF Numbered
<1>6. \A c \in Changes : Earned(c)
  BY <1>1 DEF Earned
<1> QED
  BY <1>3, <1>5, <1>6 DEF RemoteInv

LEMMA IdleInv ==
  ASSUME RemoteInv, UNCHANGED vars
  PROVE  RemoteInv'
<1>1. TypeOK'
  BY DEF RemoteInv, TypeOK, vars, rowVars, postVars, limitVars, ghostVars
<1> QED
  BY <1>1, OthersStep DEF vars, rowVars, postVars, ghostVars

LEMMA RemoteNext == RemoteInv /\ [Next]_vars => RemoteInv'
<1> SUFFICES ASSUME RemoteInv, [Next]_vars PROVE RemoteInv'
  OBVIOUS
<1>1. ASSUME NEW c \in Changes, Workflow(c) PROVE RemoteInv'
  BY <1>1, StartInv, CallInv, SendInv, ReadBackInv, RecordInv DEF Workflow
<1> QED
  BY <1>1, AgesInv, SweepInv, RequestInv, LandsInv, SiteEditInv, FetchPageInv,
     RecordCheckInv, IdleInv DEF Next

LEMMA RemoteInvariant == Spec => []RemoteInv
<1> QED
  BY RemoteInit, RemoteNext, PTL DEF Spec

\* Type correctness.
THEOREM RemoteTypeCorrect == Spec => []TypeOK
<1>1. RemoteInv => TypeOK
  BY DEF RemoteInv
<1> QED
  BY <1>1, RemoteInvariant, PTL

\* No change is recorded as succeeded, and no publication as removed, that the
\* platform did not carry out: the workflow's result is one of a call made, and
\* a post that is gone does not come back.
THEOREM SuccessIsEarned == Spec => []RecordIsEarned
<1>1. RemoteInv => RecordIsEarned
  BY DEF RemoteInv, Earned, RecordIsEarned
<1> QED
  BY <1>1, RemoteInvariant, PTL

-----------------------------------------------------------------------------
(* Outcomes *)

\* What OutcomeIsFinal asks of one step.
KeepsOutcomes ==
  /\ \A c \in Changes :
       change[c].state \in {"succeeded", "failed", "stale", "late"} =>
         \/ change'[c] = change[c]
         \/ change[c].state = "stale" /\ change'[c].state = "late"
  /\ pub = "removed" => pub' = "removed"

LEMMA NextKeepsOutcomes == RemoteInv /\ [Next]_vars => KeepsOutcomes
<1> SUFFICES ASSUME RemoteInv, [Next]_vars PROVE KeepsOutcomes
  OBVIOUS
<1>1. CASE change' = change /\ pub' = pub
  BY <1>1 DEF KeepsOutcomes
<1>2. ASSUME NEW c \in Changes, NEW k \in Kinds, NEW t \in Texts \cup {Original},
             Request(c, k, t)
      PROVE  KeepsOutcomes
  <2>1. c \notin Made
    BY <1>2, RequestInv
  <2>2. \A d \in Changes : change[d].state \in {"succeeded", "failed", "stale", "late"} =>
          d # c /\ d \notin Superseded
    BY <2>1 DEF Made, Superseded, Open
  <2> QED
    BY <1>2, <2>2 DEF Request, rowVars, KeepsOutcomes
<1>3. ASSUME NEW c \in Changes, Sweep(c) PROVE KeepsOutcomes
  <2>1. change[c].state = "requested"
    BY <1>3 DEF Sweep, Open
  <2> QED
    BY <1>3, <2>1 DEF Sweep, rowVars, KeepsOutcomes, RemoteInv, TypeOK
<1>4. ASSUME NEW c \in Changes, Record(c) PROVE KeepsOutcomes
  <2>1. CASE UNCHANGED <<change, pub>>
    BY <1>1, <2>1
  <2>2. CASE WriteOutcome(c)
    <3>1. change[c] \in ChangeRows
      BY DEF RemoteInv, TypeOK
    <3>2. change' = [change EXCEPT ![c] = [change[c] EXCEPT !.state = Recorded(c)]]
      BY <2>2 DEF WriteOutcome, RemoteInv, TypeOK
    <3>3. \A d \in Changes : d # c => change'[d] = change[d]
      BY <3>2 DEF RemoteInv, TypeOK
    <3>4. change[c].state \in {"succeeded", "failed", "stale", "late"} =>
            change'[c] = change[c] \/ (change[c].state = "stale" /\ change'[c].state = "late")
      BY <3>1, <3>2, RecordedState DEF RemoteInv, TypeOK, ChangeRows
    <3>5. pub = "removed" => pub' = "removed"
      BY <2>2 DEF WriteOutcome
    <3> QED
      BY <3>3, <3>4, <3>5 DEF KeepsOutcomes
  <2> QED
    BY <1>4, <2>1, <2>2 DEF Record
<1>5. ASSUME NEW c \in Changes, Workflow(c) PROVE KeepsOutcomes
  BY <1>1, <1>4, <1>5 DEF Workflow, Start, Call, Send, ReadBack, rowVars
<1>6. CASE UNCHANGED vars
  BY <1>1, <1>6 DEF vars, rowVars
<1> QED
  BY <1>1, <1>2, <1>3, <1>5, <1>6
     DEF Next, Ages, Lands, SiteEdit, FetchPage, RecordCheck, rowVars

\* An outcome is written once; a stale closure alone gives way, to a success.
THEOREM OutcomesAreFinal == Spec => OutcomeIsFinal
<1>1. RemoteInv /\ [Next]_vars => [KeepsOutcomes]_vars
  BY NextKeepsOutcomes
<1>2. Spec => [][KeepsOutcomes]_vars
  BY <1>1, RemoteInvariant, PTL DEF Spec
<1> QED
  BY <1>2 DEF OutcomeIsFinal, KeepsOutcomes

-----------------------------------------------------------------------------
(* What people write on the website *)

NoStale == \A c \in Changes : change[c].state \notin {"stale", "late"}

\* Until a request is closed as stale, one is open at a time, so that the
\* evidence a call expects is the evidence there was when it was asked for.
Asked ==
  NoStale =>
    /\ unseen = {}
    /\ \A c, d \in Open : c = d
    /\ \A c \in Open : change[c].asked = evidence
    /\ \A c \in Changes : flow[c].at = "send" => flow[c].revision = change[c].asked
    /\ \A l \in wire : l[2] = change[l[1]].asked

LEMMA StaleStays ==
  ASSUME KeepsOutcomes, NoStale'
  PROVE  NoStale
BY DEF KeepsOutcomes, NoStale

\* The website refuses a call that expects an older revision than it has.
LEMMA PerformsSees ==
  ASSUME NEW c \in Changes, RemoteInv, NEW e \in Nat, Performs(c, e), e = change[c].asked
  PROVE  unseen' = unseen
<1>1. CASE Verdict(c, e) # "done"
  BY <1>1 DEF Performs
<1>2. CASE Verdict(c, e) = "done"
  <2>1. ~gone /\ (site /\ change[c].kind = "edit" => e = rev)
    BY <1>2 DEF Verdict
  <2>2. ~(rev > e) \/ ~(site /\ change[c].kind = "edit")
    BY <2>1
  <2> QED
    BY <1>2, <2>2 DEF Performs
<1> QED
  BY <1>1, <1>2

LEMMA AskedStep ==
  ASSUME RemoteInv, Asked, NEW c \in Changes, Moves(c), change' = change,
         evidence' = evidence,
         unseen' = unseen
           \/ (Performs(c, flow[c].revision) /\ flow[c].at = "send"),
         flow'[c].at # "send" \/ (c \in Open /\ flow'[c].revision = evidence),
         \A l \in wire' : l \in wire
           \/ (l = <<c, flow[c].revision>> /\ flow[c].at = "send")
  PROVE  Asked'
<1> SUFFICES ASSUME NoStale'
             PROVE  /\ unseen' = {}
                    /\ \A d, b \in Open' : d = b
                    /\ \A d \in Open' : change'[d].asked = evidence'
                    /\ \A d \in Changes : flow'[d].at = "send" =>
                         flow'[d].revision = change'[d].asked
                    /\ \A l \in wire' : l[2] = change'[l[1]].asked
  BY DEF Asked
<1>1. NoStale /\ Open' = Open
  BY DEF NoStale, Open
<1>2. unseen' = unseen
  <2>1. flow[c].revision \in Nat
    BY DEF RemoteInv, TypeOK, Flows
  <2>2. flow[c].at = "send" => flow[c].revision = change[c].asked
    BY <1>1 DEF Asked
  <2> QED
    BY <2>1, <2>2, PerformsSees
<1>3. \A d \in Changes : flow'[d].at = "send" => flow'[d].revision = change'[d].asked
  BY <1>1 DEF Asked, Moves, RemoteInv, TypeOK
<1>4. \A l \in wire' : l[2] = change'[l[1]].asked
  BY <1>1 DEF Asked
<1> QED
  BY <1>1, <1>2, <1>3, <1>4 DEF Asked

LEMMA AskedIdle ==
  ASSUME Asked, flow' = flow, change' = change, evidence' = evidence,
         unseen' = unseen, wire' = wire
  PROVE  Asked'
BY DEF Asked, NoStale, Open

LEMMA WorkflowAsked ==
  ASSUME RemoteInv, Asked, NEW c \in Changes, Start(c) \/ Call(c) \/ Send(c) \/ ReadBack(c)
  PROVE  Asked'
<1>1. CASE Start(c)
  <2>1. Moves(c) /\ flow'[c].at = "call"
    BY <1>1, GoesMoves DEF RemoteInv, Start, Ats
  <2> QED
    BY <1>1, <2>1, AskedStep DEF Start, rowVars, ghostVars
<1>2. CASE Call(c)
  <2>1. CASE Goes(c, "over") \/ Outcome(c, "rejected")
    <3>1. Moves(c) /\ flow'[c].at \in {"over", "record"}
      BY <2>1, GoesMoves, OutcomeMoves DEF RemoteInv, Ats, Results
    <3> QED
      BY <1>2, <3>1, AskedStep DEF Call, rowVars, ghostVars
  <2>2. CASE change[c].state = "requested" /\ Sending(c)
    <3>1. Moves(c) /\ flow'[c].revision = evidence /\ c \in Open
      BY <2>2 DEF Sending, RemoteInv, TypeOK, Flows, Moves, Open
    <3> QED
      BY <1>2, <3>1, AskedStep DEF Call, rowVars, ghostVars
  <2> QED
    BY <1>2, <2>1, <2>2 DEF Call
<1>3. CASE Send(c)
  <2>1. Moves(c) /\ flow'[c].at # "send"
    BY <1>3, SendMoves
  <2>2. /\ flow[c].at = "send" /\ change' = change /\ evidence' = evidence
        /\ unseen' = unseen \/ Performs(c, flow[c].revision)
        /\ wire' = wire \/ wire' = wire \cup {<<c, flow[c].revision>>}
    BY <1>3 DEF Send, rowVars
  <2> QED
    BY <2>1, <2>2, AskedStep
<1>4. CASE ReadBack(c)
  <2>1. Moves(c) /\ flow'[c].at # "send"
    BY <1>4, ReadBackMoves
  <2> QED
    BY <1>4, <2>1, AskedStep DEF ReadBack, rowVars, ghostVars
<1> QED
  BY <1>1, <1>2, <1>3, <1>4

\* What the record of an outcome leaves of the requests, and of the workflow.
LEMMA RecordLeaves ==
  ASSUME RemoteInv, NEW c \in Changes, Record(c)
  PROVE  /\ flow[c].at = "record" /\ Moves(c) /\ flow'[c].at \in {"record", "over"}
         /\ \A d \in Changes : /\ d # c => change'[d] = change[d]
                               /\ change'[d].kind = change[d].kind
                               /\ change'[d].text = change[d].text
                               /\ change'[d].asked = change[d].asked
         /\ \/ change' = change /\ evidence' = evidence /\ current' = current
            \/ /\ Writes(c) /\ change'[c].state = Recorded(c)
               /\ current' = IF Recorded(c) \in {"succeeded", "late"} /\ change[c].kind = "edit"
                               THEN change[c].text ELSE current
         /\ UNCHANGED <<postVars, wire, ghostVars>>
<1>1. flow[c].at = "record" /\ Moves(c) /\ flow'[c].at \in {"record", "over"}
  BY GoesMoves, RecordAgainMoves DEF Record, RemoteInv, Ats
<1>2. UNCHANGED <<postVars, wire, ghostVars>>
  BY DEF Record
<1>3. CASE UNCHANGED <<change, current, evidence>>
  BY <1>1, <1>2, <1>3
<1>4. CASE WriteOutcome(c)
  <2>1. change[c] \in ChangeRows /\ Recorded(c) \in ChangeStates
    BY RecordedState DEF RemoteInv, TypeOK
  <2> DEFINE row == [change[c] EXCEPT !.state = Recorded(c)]
  <2>2. change' = [change EXCEPT ![c] = row]
    BY <1>4 DEF WriteOutcome, RemoteInv, TypeOK
  <2>3. /\ row.kind = change[c].kind /\ row.text = change[c].text
        /\ row.asked = change[c].asked /\ row.state = Recorded(c)
    BY <2>1 DEF ChangeRows
  <2>4. ~Writes(c) => row = change[c]
    BY <2>1, RecordedState DEF RemoteInv, ChangeRows
  <2> HIDE DEF row
  <2>5. \A d \in Changes : /\ d # c => change'[d] = change[d]
                           /\ change'[d].kind = change[d].kind
                           /\ change'[d].text = change[d].text
                           /\ change'[d].asked = change[d].asked
    BY <2>2, <2>3 DEF RemoteInv, TypeOK
  <2>6. CASE ~Writes(c)
    <3>1. change' = change
      BY <2>2, <2>4, <2>6 DEF RemoteInv, TypeOK
    <3>2. evidence' = evidence /\ current' = current
      BY <1>4, <2>6 DEF WriteOutcome
    <3> QED
      BY <1>1, <1>2, <2>5, <3>1, <3>2
  <2>7. CASE Writes(c)
    <3>1. change'[c].state = Recorded(c)
      BY <2>2, <2>3 DEF RemoteInv, TypeOK
    <3>2. current' = IF Recorded(c) \in {"succeeded", "late"} /\ change[c].kind = "edit"
                       THEN change[c].text ELSE current
      BY <1>4, <2>7 DEF WriteOutcome
    <3> QED
      BY <1>1, <1>2, <2>5, <2>7, <3>1, <3>2
  <2> QED
    BY <2>6, <2>7
<1> QED
  BY <1>3, <1>4 DEF Record

\* The record of an outcome that is not a late one closes the open request.
LEMMA RecordCloses ==
  ASSUME RemoteInv, NoStale, \A d, b \in Open : d = b, NEW c \in Changes, Record(c)
  PROVE  \/ change' = change /\ evidence' = evidence /\ current' = current
         \/ c \in Open /\ Open' = {} /\ Recorded(c) \in {"succeeded", "late", "failed"}
            /\ change'[c].state = Recorded(c)
<1>1. CASE Writes(c) /\ change'[c].state = Recorded(c)
  <2>1. c \in Open /\ Recorded(c) \in {"succeeded", "late", "failed"}
    BY <1>1, RecordedState DEF RemoteInv, NoStale, Open
  <2>2. \A d \in Changes : change'[d].state = "requested" => d # c /\ d \in Open
    BY <1>1, <2>1, RecordLeaves DEF Open
  <2>3. Open' = {}
    BY <2>1, <2>2 DEF Open
  <2> QED
    BY <1>1, <2>1, <2>3
<1> QED
  BY <1>1, RecordLeaves

\* Without a stale closure, a request is made when none is open.
LEMMA RequestOpens ==
  ASSUME RemoteInv, NEW c \in Changes, NEW k \in Kinds, NEW t \in Texts \cup {Original},
         Request(c, k, t), NoStale'
  PROVE  /\ Open = {} /\ Open' = {c} /\ c \notin Made
         /\ change'[c].asked = evidence
         /\ \A d \in Changes : d # c => change'[d] = change[d]
<1>1. c \notin Made
  BY RequestInv
<1>2. \A d \in Changes :
        change'[d] = IF d = c
          THEN [state |-> "requested", kind |-> k, text |-> t, asked |-> evidence]
        ELSE IF d \in Superseded THEN [change[d] EXCEPT !.state = "stale"]
        ELSE change[d]
  BY DEF Request
<1>3. \A d \in Changes : d \in Open => d # c /\ change'[d].state = "stale"
  BY <1>1, <1>2 DEF Open, Made, Superseded, RemoteInv, TypeOK, ChangeRows
<1>4. Open = {}
  BY <1>3 DEF NoStale, Open
<1>5. \A d \in Changes : d # c => change'[d] = change[d]
  BY <1>2, <1>4 DEF Superseded
<1>6. change'[c].state = "requested" /\ change'[c].asked = evidence
  <2>1. change'[c] = [state |-> "requested", kind |-> k, text |-> t, asked |-> evidence]
    BY <1>2, Zenon
  <2> QED
    BY <2>1
<1>7. Open' = {c}
  <2>1. \A d \in Changes : d \in Open' <=> d = c
    BY <1>4, <1>5, <1>6 DEF Open
  <2> QED
    BY <2>1 DEF Open
<1> QED
  BY <1>1, <1>4, <1>5, <1>6, <1>7

LEMMA NextAsked == RemoteInv /\ Asked /\ [Next]_vars => Asked'
<1> SUFFICES ASSUME RemoteInv, Asked, [Next]_vars, NoStale' PROVE Asked'
  BY DEF Asked
<1>1. NoStale
  BY NextKeepsOutcomes, StaleStays
<1> USE <1>1
<1>2. ASSUME NEW c \in Changes, Record(c) PROVE Asked'
  <2>1. CASE change' = change /\ evidence' = evidence
    BY <1>2, <2>1, RecordLeaves, AskedStep DEF ghostVars
  <2>2. CASE Open' = {}
    <3>1. \A d \in Changes : flow'[d].at = "send" => flow'[d] = flow[d]
      BY <1>2, RecordLeaves DEF Moves, RemoteInv, TypeOK
    <3>2. \A d \in Changes : flow'[d].at = "send" => flow'[d].revision = change'[d].asked
      BY <1>2, <3>1, RecordLeaves DEF Asked
    <3>3. \A l \in wire' : l[2] = change'[l[1]].asked
      BY <1>2, RecordLeaves DEF Asked, RemoteInv, TypeOK
    <3>4. unseen' = {}
      BY <1>2, RecordLeaves DEF Asked, ghostVars
    <3> QED
      BY <2>2, <3>2, <3>3, <3>4 DEF Asked
  <2> QED
    BY <1>2, <2>1, <2>2, RecordCloses DEF Asked
<1>3. ASSUME NEW c \in Changes, NEW k \in Kinds, NEW t \in Texts \cup {Original},
             Request(c, k, t)
      PROVE  Asked'
  <2>1. /\ Open' = {c} /\ c \notin Made /\ change'[c].asked = evidence
        /\ \A d \in Changes : d # c => change'[d] = change[d]
    BY <1>3, RequestOpens
  <2>2. UNCHANGED <<flow, wire, evidence, unseen>>
    BY <1>3 DEF Request, rowVars, ghostVars
  <2>3. \A d \in Changes : flow[d].at = "send" => d # c
    BY <2>1 DEF RemoteInv, Earned
  <2>4. \A l \in wire : l[1] # c /\ l[1] \in Changes
    BY <2>1 DEF RemoteInv, TypeOK, Earned
  <2>5. \A d \in Changes : flow'[d].at = "send" => flow'[d].revision = change'[d].asked
    BY <2>1, <2>2, <2>3 DEF Asked
  <2>6. \A l \in wire' : l[2] = change'[l[1]].asked
    BY <2>1, <2>2, <2>4 DEF Asked
  <2> QED
    BY <2>1, <2>2, <2>5, <2>6 DEF Asked
<1>4. ASSUME NEW c \in Changes, Sweep(c) PROVE Asked'
  BY <1>4 DEF Sweep, NoStale, RemoteInv, TypeOK, ChangeRows
<1>5. ASSUME NEW l \in wire, Lands(l) PROVE Asked'
  <2>1. l[1] \in Changes /\ l[2] \in Nat /\ l[2] = change[l[1]].asked
    BY DEF RemoteInv, TypeOK, Asked
  <2>2. unseen' = unseen
    BY <1>5, <2>1, PerformsSees DEF Lands
  <2>3. Open' = Open /\ UNCHANGED <<flow, change, evidence>> /\ wire' \subseteq wire
    BY <1>5 DEF Lands, rowVars, Open
  <2> QED
    BY <2>2, <2>3 DEF Asked
<1>6. ASSUME NEW c \in Changes, Workflow(c) PROVE Asked'
  BY <1>2, <1>6, WorkflowAsked DEF Workflow
<1>7. CASE UNCHANGED vars
  BY <1>7, AskedIdle DEF vars, rowVars, ghostVars
<1> QED
  BY <1>3, <1>4, <1>5, <1>6, <1>7, AskedIdle
     DEF Next, Ages, SiteEdit, FetchPage, RecordCheck, rowVars, ghostVars

LEMMA AskedInvariant == Spec => []Asked
<1>1. Init => Asked
  BY DEF Init, Asked, Open, NoChange
<1>2. RemoteInv /\ Asked /\ [Next]_vars => Asked'
  BY NextAsked
<1> QED
  BY <1>1, <1>2, RemoteInvariant, PTL DEF Spec

\* Until a request is closed as stale, no edit replaces what a person wrote on
\* the website after it was asked for: a call expects the revision of then.
THEOREM SiteEditsAreKept == Spec => []SiteEditKept
<1>1. Asked => SiteEditKept
  BY DEF Asked, NoStale, SiteEditKept
<1> QED
  BY <1>1, AskedInvariant, PTL

-----------------------------------------------------------------------------
(* The text on the record *)

\* Nothing the record says so far can be in doubt later.
Certain ==
  /\ ~outlived /\ NoStale
  /\ \A c \in Changes : change[c].state = "failed" => c \notin acted

Edited(c) == c \in Open /\ c \in acted /\ change[c].kind = "edit"

\* The post shows the text on the record, or what the open edit has put there.
Shows ==
  \/ \E c \in Changes : Edited(c) /\ shown = change[c].text
  \/ (\A c \in Changes : ~Edited(c)) /\ shown = current

Text ==
  Certain =>
    /\ wire = {}
    /\ \A c, d \in Open : c = d
    /\ \A c \in Changes : change[c].state \in {"succeeded", "failed"} =>
         flow[c].at \in {"record", "over"}
    /\ gone \/ shown = Foreign \/ Shows

LEMMA NeverCertainAgain ==
  ASSUME RemoteInv, KeepsOutcomes, outlived => outlived', acted \subseteq acted', Certain'
  PROVE  Certain
<1>1. NoStale
  BY StaleStays DEF Certain
<1>2. \A c \in Changes : change[c].state = "failed" => c \notin acted
  BY DEF Certain, KeepsOutcomes
<1> QED
  BY <1>1, <1>2 DEF Certain

\* In a certain world, a workflow that is not recording has an open request.
LEMMA CertainlyOpen ==
  ASSUME RemoteInv, Text, Certain, NEW c \in Changes,
         flow[c].at \in {"call", "send", "readback"}
  PROVE  c \in Open
<1>1. change[c].state \in {"requested", "succeeded", "failed", "stale", "late"}
  BY DEF RemoteInv, TypeOK, ChangeRows, ChangeStates, Earned, Made
<1>2. change[c].state = "requested"
  BY <1>1 DEF Text, Certain, NoStale
<1> QED
  BY <1>2 DEF Open

LEMMA TextIdle ==
  ASSUME RemoteInv, Text, Certain, change' = change, current' = current, acted' = acted,
         wire' \subseteq wire, UNCHANGED <<gone, shown>> \/ shown' = Foreign,
         \A c \in Changes : flow[c].at \in {"record", "over"} =>
           flow'[c].at \in {"record", "over"}
  PROVE  Text'
<1>1. Open' = Open
  BY DEF Open
<1>2. \A c \in Changes : Edited(c)' <=> Edited(c)
  BY <1>1 DEF Edited
<1>3. gone' \/ shown' = Foreign \/ Shows'
  BY <1>2 DEF Text, Shows
<1> QED
  BY <1>1, <1>3 DEF Text

\* The call of the open request is carried out.
LEMMA PerformsText ==
  ASSUME RemoteInv, Text, Certain, NEW c \in Open, NEW e, Performs(c, e),
         change' = change, current' = current
  PROVE  gone' \/ shown' = Foreign \/ Shows'
<1>1. c \in Changes /\ \A d \in Open : d = c
  BY DEF Text, Open
<1>2. Open' = Open
  BY DEF Open
<1>3. CASE Verdict(c, e) # "done"
  BY <1>2, <1>3 DEF Performs, postVars, Text, Shows, Edited
<1>4. CASE Verdict(c, e) = "done" /\ change[c].kind = "edit"
  <2>1. acted' = acted \cup {c} /\ shown' = change[c].text
    BY <1>4 DEF Performs
  <2> QED
    BY <1>1, <1>2, <1>4, <2>1 DEF Shows, Edited
<1>5. CASE Verdict(c, e) = "done" /\ change[c].kind # "edit"
  <2>1. acted' = acted \cup {c} /\ shown' = shown /\ ~gone
    BY <1>5 DEF Performs, Verdict
  <2>2. \A d \in Changes : Edited(d)' <=> Edited(d)
    BY <1>1, <1>2, <1>5, <2>1 DEF Edited
  <2> QED
    BY <2>1, <2>2 DEF Text, Shows
<1> QED
  BY <1>3, <1>4, <1>5

LEMMA SendText ==
  ASSUME RemoteInv, Text, Certain, NEW c \in Changes, Send(c), Certain'
  PROVE  Text'
<1>1. c \in Open /\ flow[c].at = "send"
  BY CertainlyOpen DEF Send
<1>2. change' = change /\ current' = current /\ Open' = Open
  BY DEF Send, rowVars, Open
<1>3. wire' = wire
  BY DEF Send, Certain
<1>4. \A d \in Changes : change'[d].state \in {"succeeded", "failed"} =>
        flow'[d].at \in {"record", "over"}
  <2>1. Moves(c)
    BY SendMoves
  <2>2. \A d \in Changes : change[d].state \in {"succeeded", "failed"} => d # c
    BY <1>1 DEF Open
  <2> QED
    BY <1>2, <2>1, <2>2 DEF Text, Moves, RemoteInv, TypeOK
<1>5. gone' \/ shown' = Foreign \/ Shows'
  <2>1. CASE Performs(c, flow[c].revision)
    BY <1>1, <1>2, <2>1, PerformsText
  <2>2. CASE UNCHANGED <<postVars, acted>>
    BY <1>2, <2>2 DEF Text, Shows, Edited, postVars
  <2> QED
    BY <2>1, <2>2 DEF Send
<1> QED
  BY <1>2, <1>3, <1>4, <1>5 DEF Text

LEMMA RecordText ==
  ASSUME RemoteInv, Text, Certain, NEW c \in Changes, Record(c), Certain'
  PROVE  Text'
<1>1. /\ flow[c].at = "record" /\ Moves(c) /\ flow'[c].at \in {"record", "over"}
      /\ \A d \in Changes : d # c => change'[d] = change[d]
      /\ UNCHANGED <<gone, shown, wire, acted>>
  BY RecordLeaves DEF postVars, ghostVars
<1>2. \A d \in Changes : flow[d].at \in {"record", "over"} =>
        flow'[d].at \in {"record", "over"}
  BY <1>1 DEF Moves, RemoteInv, TypeOK
<1>3. CASE change' = change /\ current' = current
  BY <1>1, <1>2, <1>3, TextIdle
<1>4. CASE /\ c \in Open /\ Open' = {} /\ Recorded(c) \in {"succeeded", "late", "failed"}
           /\ change'[c].state = Recorded(c)
  <2>1. Recorded(c) \in {"succeeded", "failed"}
    BY <1>4 DEF Certain, NoStale
  <2>2. change[c].state = "requested"
    BY <1>4 DEF Open
  <2>3. change' # change
    BY <2>1, <2>2, <1>4
  <2>4. /\ Writes(c)
        /\ current' = IF Recorded(c) = "succeeded" /\ change[c].kind = "edit"
                        THEN change[c].text ELSE current
    BY <2>1, <2>3, RecordLeaves
  <2>5. Recorded(c) = "succeeded" /\ change[c].kind = "edit" => Edited(c)
    BY <1>1, <1>4, <2>4, RecordedState DEF RemoteInv, Earned, Succeeded, Edited
  <2>6. Recorded(c) = "failed" => ~Edited(c)
    BY <1>1, <1>4 DEF Certain, Edited
  <2>7. \A d \in Changes : Edited(d) => d = c
    BY <1>4 DEF Text, Edited
  <2>8. gone \/ shown = Foreign \/ shown = current'
    BY <2>1, <2>4, <2>5, <2>6, <2>7 DEF Text, Shows, Edited
  <2>9. gone' \/ shown' = Foreign \/ Shows'
    BY <1>1, <1>4, <2>8 DEF Shows, Edited
  <2>10. \A d \in Changes : change'[d].state \in {"succeeded", "failed"} =>
           flow'[d].at \in {"record", "over"}
    BY <1>1, <1>2 DEF Text
  <2> QED
    BY <1>1, <1>4, <2>9, <2>10 DEF Text
<1> QED
  BY <1>3, <1>4, RecordCloses DEF Text, Certain

LEMMA RequestText ==
  ASSUME RemoteInv, Text, Certain, NEW c \in Changes, NEW k \in Kinds,
         NEW t \in Texts \cup {Original}, Request(c, k, t), Certain'
  PROVE  Text'
<1>1. /\ Open = {} /\ Open' = {c} /\ c \notin Made
      /\ \A d \in Changes : d # c => change'[d] = change[d]
  BY RequestOpens DEF Certain
<1>2. UNCHANGED <<flow, current, wire, gone, shown, acted>>
  BY DEF Request, rowVars, postVars, ghostVars
<1>3. \A d \in Changes : ~Edited(d) /\ ~Edited(d)'
  BY <1>1, <1>2 DEF Edited, RemoteInv, Earned
<1>4. gone' \/ shown' = Foreign \/ Shows'
  BY <1>2, <1>3 DEF Text, Shows
<1>5. change'[c].state = "requested"
  BY <1>1 DEF Open
<1>6. \A d \in Changes : change'[d].state \in {"succeeded", "failed"} =>
        flow'[d].at \in {"record", "over"}
  BY <1>1, <1>2, <1>5 DEF Text
<1> QED
  BY <1>1, <1>2, <1>4, <1>6 DEF Text

LEMMA NextText == RemoteInv /\ Text /\ [Next]_vars => Text'
<1> SUFFICES ASSUME RemoteInv, Text, [Next]_vars, Certain' PROVE Text'
  BY DEF Text
<1>1. Certain
  <2>1. KeepsOutcomes
    BY NextKeepsOutcomes
  <2>2. outlived => outlived'
    BY DEF Next, Workflow, Start, Call, Send, ReadBack, Record, Ages, Sweep, Request,
           Lands, SiteEdit, FetchPage, RecordCheck, vars, ghostVars
  <2>3. acted \subseteq acted'
    BY DEF Next, Workflow, Start, Call, Send, ReadBack, Record, Ages, Sweep, Request,
           Lands, SiteEdit, FetchPage, RecordCheck, Performs, vars, ghostVars
  <2> QED
    BY <2>1, <2>2, <2>3, NeverCertainAgain
<1> USE <1>1
<1>2. ASSUME NEW c \in Changes, Start(c) \/ Call(c) \/ ReadBack(c) PROVE Text'
  <2>1. Moves(c) /\ flow[c].at \notin {"record", "over"}
    <3>1. CASE Start(c) \/ ReadBack(c)
      BY <3>1, GoesMoves, ReadBackMoves DEF RemoteInv, Start, ReadBack, Ats
    <3>2. CASE Call(c)
      <4>1. flow[c].at = "call"
        BY <3>2 DEF Call
      <4>2. CASE Goes(c, "over") \/ Outcome(c, "rejected")
        BY <4>1, <4>2, GoesMoves, OutcomeMoves DEF RemoteInv, Ats, Results
      <4>3. CASE Sending(c)
        BY <4>1, <4>3 DEF Sending, RemoteInv, TypeOK, Flows, Moves
      <4> QED
        BY <3>2, <4>1, <4>2, <4>3 DEF Call
    <3> QED
      BY <1>2, <3>1, <3>2
  <2>2. \A d \in Changes : flow[d].at \in {"record", "over"} =>
          flow'[d].at \in {"record", "over"}
    BY <2>1 DEF Moves, RemoteInv, TypeOK
  <2> QED
    BY <1>2, <2>2, TextIdle DEF Start, Call, ReadBack, rowVars, postVars, ghostVars
<1>3. ASSUME NEW c \in Changes, Workflow(c) PROVE Text'
  BY <1>2, <1>3, SendText, RecordText DEF Workflow
<1>4. ASSUME NEW c \in Changes, Sweep(c) PROVE Text'
  BY <1>4 DEF Sweep, Certain, NoStale, RemoteInv, TypeOK, ChangeRows
<1>5. ASSUME NEW l \in wire PROVE Text'
  BY <1>5 DEF Text
<1>6. CASE SiteEdit \/ RecordCheck \/ UNCHANGED vars
             \/ (\E c \in Changes : Ages(c)) \/ (\E how \in {"delayed", "asked"} : FetchPage(how))
  BY <1>6, TextIdle DEF SiteEdit, RecordCheck, Ages, FetchPage, vars, rowVars, postVars,
     ghostVars
<1> QED
  BY <1>3, <1>4, <1>5, <1>6, RequestText DEF Next

LEMMA TextInvariant == Spec => []Text
<1>1. Init => Text
  BY DEF Init, Text, Shows, Edited, Open, NoChange
<1>2. RemoteInv /\ Text /\ [Next]_vars => Text'
  BY NextText
<1> QED
  BY <1>1, <1>2, RemoteInvariant, PTL DEF Spec

\* The text on the record is the one the post shows, where nothing of the record
\* is in doubt: an edit that was carried out is recorded, or fails in doubt.
THEOREM RecordedTextIsShown == Spec => []TextIsKnown
<1>1. Text => TextIsKnown
  <2> SUFFICES ASSUME Text, NoDoubt, ~gone, shown # Foreign PROVE shown = current
    BY DEF TextIsKnown
  <2>1. Certain
    BY DEF NoDoubt, Certain, NoStale
  <2>2. Open = {}
    BY DEF NoDoubt, Open
  <2> QED
    BY <2>1, <2>2 DEF Text, Shows, Edited
<1> QED
  BY <1>1, TextInvariant, PTL

=============================================================================
