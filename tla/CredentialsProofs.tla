------------------------- MODULE CredentialsProofs -------------------------
(***************************************************************************)
(* Theorems about Credentials, for any number of consents, disconnects,    *)
(* overlapping attempts and faults.                                        *)
(***************************************************************************)
EXTENDS Credentials, TLAPS

\* The newest row is the one the connection has; only rows that were made are
\* destroyed; and an attempt past its lookup, or a revoke past its own, has a row.
RowsFollow ==
  /\ cred = made
  /\ destroyed \subseteq 1..made
  /\ \A s \in Slots : attempt[s].at \in {"open", "call", "record"} =>
       attempt[s].cred \in Creds
  /\ \A d \in Disconnects : revoke[d].at = "call" => revoke[d].cred \in Creds

CredentialsInv == TypeOK /\ RowsFollow /\ OnlyCurrentOpens /\ ActiveIsIntact

LEMMA CredentialsInvInit == Init => CredentialsInv
<1> SUFFICES ASSUME Init PROVE CredentialsInv
  OBVIOUS
<1> USE CredentialsAssumption DEF CredentialsAssumption, Init
<1>1. /\ revocable \in BOOLEAN /\ expiring \in BOOLEAN /\ expires \in BOOLEAN
      /\ pending \in BOOLEAN
  OBVIOUS
<1>2. /\ cred \in Creds /\ made \in Creds
      /\ grant \in [Creds -> Grants] /\ connects \in Grants
  BY DEF Creds, Grants
<1>3. slot \in Slots
  OBVIOUS
<1>4. /\ attempt \in [Slots -> Attempts]
      /\ revoke \in [Disconnects -> Revokes]
  BY DEF NoAttempt, Attempts, Answers, NoRevoke, Revokes
<1>5. TypeOK
  BY <1>1, <1>2, <1>3, <1>4 DEF TypeOK, Statuses
<1>6. RowsFollow
  BY DEF RowsFollow, NoAttempt, NoRevoke
<1> QED
  BY <1>5, <1>6 DEF CredentialsInv, OnlyCurrentOpens, ActiveIsIntact

-----------------------------------------------------------------------------
(* Type correctness, step by step *)

\* A new row is in range, and only rows that were made are destroyed.
LEMMA ReplacesRows ==
  ASSUME TypeOK, RowsFollow, NEW g \in Grants, NEW old, Replaces(g, old)
  PROVE  /\ cred' \in Creds /\ made' \in Creds /\ made' = cred'
         /\ grant' \in [Creds -> Grants]
         /\ destroyed' \subseteq 1..made /\ destroyed' \subseteq Creds
         /\ made' = made + 1
         /\ status' \in Statuses /\ expires' \in BOOLEAN
<1> USE CredentialsAssumption
    DEF CredentialsAssumption, TypeOK, RowsFollow, Creds, Replaces, Statuses
<1>1. made' = made + 1 /\ cred' = made + 1 /\ made + 1 \in Creds
  OBVIOUS
<1>2. grant' \in [Creds -> Grants]
  BY <1>1
<1>3. destroyed' \subseteq 1..made /\ destroyed' \subseteq Creds
  OBVIOUS
<1> QED
  BY <1>1, <1>2, <1>3

LEMMA SchedulesType ==
  ASSUME TypeOK, NEW n \in 0..Tries, Schedules(n)
  PROVE  /\ attempt' \in [Slots -> Attempts] /\ slot' \in Slots
         /\ flow' = "refresh" /\ tries' = n
         /\ \A s \in Slots : attempt'[s].at \in {"open", "call", "record"} =>
              attempt'[s] = attempt[s]
<1> DEFINE Idle == {s \in Slots : attempt[s].at = "idle"}
           c == CHOOSE i \in Idle : TRUE
<1>1. c \in Slots
  BY DEF Schedules
<1>2. [NoAttempt EXCEPT !.at = "load"] \in Attempts
  BY CredentialsAssumption DEF CredentialsAssumption, NoAttempt, Attempts, Answers
<1>3. attempt' = [attempt EXCEPT ![c] = [NoAttempt EXCEPT !.at = "load"]]
  BY DEF Schedules
<1>4. [NoAttempt EXCEPT !.at = "load"].at = "load"
  BY DEF NoAttempt
<1>5. slot' = c /\ flow' = "refresh" /\ tries' = n
  BY DEF Schedules
<1>6. attempt \in [Slots -> Attempts]
  BY DEF TypeOK
<1> HIDE DEF c
<1> QED
  BY <1>1, <1>2, <1>3, <1>4, <1>5, <1>6

LEMMA ReturnsType ==
  ASSUME TypeOK, NEW s \in Slots, NEW answer, Returns(s, answer)
  PROVE  /\ attempt' \in [Slots -> Attempts] /\ slot' \in Slots
         /\ flow' \in {"none", "completed", "failed"} \cup Running
         /\ delays' \in 0..Delays /\ tries' \in 0..Tries
         /\ faults' \in 0..MaxFaults
         /\ \A q \in Slots : attempt'[q].at \in {"open", "call", "record"} =>
              attempt'[q] = attempt[q]
<1> USE CredentialsAssumption DEF CredentialsAssumption, TypeOK
<1>1. NoAttempt \in Attempts /\ NoAttempt.at = "idle"
  BY DEF NoAttempt, Attempts, Answers
<1>2. attempt' = [attempt EXCEPT ![s] = NoAttempt] /\ UNCHANGED <<tries, slot>>
  BY DEF Returns
<1>3. CASE Continues(s, answer) /\ UNCHANGED faults
  BY <1>1, <1>2, <1>3 DEF Continues, Running
<1>4. CASE Fault /\ UNCHANGED <<flow, delays>>
  BY <1>1, <1>2, <1>4 DEF Fault
<1> QED
  BY <1>3, <1>4 DEF Returns

\* An attempt, and a revoke, that goes on with the row it has just read.
LEMMA AttemptGoesOn ==
  ASSUME TypeOK, NEW s \in Slots, NEW w \in {"open", "call"},
         attempt' = [attempt EXCEPT ![s].at = w, ![s].cred = cred]
  PROVE  /\ attempt' \in [Slots -> Attempts]
         /\ \A q \in Slots : attempt'[q] = attempt[q] \/ attempt'[q].cred = cred
<1> DEFINE f == [attempt EXCEPT ![s].at = w]
<1>1. attempt \in [Slots -> Attempts] /\ cred \in 0..MaxCreds
  BY DEF TypeOK, Creds
<1>2. f \in [Slots -> Attempts]
  BY <1>1 DEF Attempts
<1>3. attempt' = [f EXCEPT ![s].cred = cred]
  BY <1>1
<1>4. [f EXCEPT ![s].cred = cred] \in [Slots -> Attempts]
  <2> HIDE DEF f
  <2> QED
    BY <1>1, <1>2 DEF Attempts
<1>5. \A q \in Slots : attempt'[q] = attempt[q] \/ attempt'[q].cred = cred
  <2>1. \A q \in Slots \ {s} : f[q] = attempt[q]
    BY <1>1
  <2>2. f[s] \in Attempts
    BY <1>2
  <2> HIDE DEF f
  <2>3. attempt'[s].cred = cred
    BY <1>2, <1>3, <2>2 DEF Attempts
  <2> QED
    BY <1>2, <1>3, <2>1, <2>3
<1> HIDE DEF f
<1> QED
  BY <1>3, <1>4, <1>5

LEMMA RevokeGoesOn ==
  ASSUME TypeOK, NEW d \in Disconnects,
         revoke' = [revoke EXCEPT ![d].at = "call", ![d].cred = cred]
  PROVE  /\ revoke' \in [Disconnects -> Revokes]
         /\ \A e \in Disconnects : revoke'[e] = revoke[e] \/ revoke'[e].cred = cred
<1> DEFINE f == [revoke EXCEPT ![d].at = "call"]
<1>1. revoke \in [Disconnects -> Revokes] /\ cred \in 0..MaxCreds
  BY DEF TypeOK, Creds
<1>2. f \in [Disconnects -> Revokes]
  BY <1>1 DEF Revokes
<1>3. revoke' = [f EXCEPT ![d].cred = cred]
  BY <1>1
<1>4. [f EXCEPT ![d].cred = cred] \in [Disconnects -> Revokes]
  <2> HIDE DEF f
  <2> QED
    BY <1>1, <1>2 DEF Revokes
<1>5. \A q \in Disconnects : revoke'[q] = revoke[q] \/ revoke'[q].cred = cred
  <2>1. \A q \in Disconnects \ {d} : f[q] = revoke[q]
    BY <1>1
  <2>2. f[d] \in Revokes
    BY <1>2
  <2> HIDE DEF f
  <2>3. revoke'[d].cred = cred
    BY <1>2, <1>3, <2>2 DEF Revokes
  <2> QED
    BY <1>2, <1>3, <2>1, <2>3
<1> HIDE DEF f
<1> QED
  BY <1>3, <1>4, <1>5

-----------------------------------------------------------------------------
(* The invariant, action by action *)

LEMMA PeopleStep ==
  ASSUME CredentialsInv, Connect \/ Disconnect
  PROVE  CredentialsInv'
<1> USE CredentialsAssumption
    DEF CredentialsAssumption, CredentialsInv
<1>1. CASE Connect
  <2>1. connects + 1 \in Grants /\ connects' = connects + 1
    BY <1>1 DEF Connect, TypeOK, Grants
  <2>2. Replaces(connects + 1, cred)
    BY <1>1 DEF Connect
  <2>3. TypeOK'
    BY <1>1, <2>1, <2>2, ReplacesRows
       DEF Connect, TypeOK, flowVars, revokeVars
  <2>4. RowsFollow'
    BY <1>1, <2>1, <2>2, ReplacesRows
       DEF Connect, RowsFollow, TypeOK, flowVars, revokeVars, Creds
  <2>5. OnlyCurrentOpens' /\ ActiveIsIntact'
    BY <2>1, <2>2, ReplacesRows
       DEF Replaces, OnlyCurrentOpens, ActiveIsIntact, RowsFollow, TypeOK, Creds
  <2> QED
    BY <2>3, <2>4, <2>5
<1>2. CASE Disconnect
  <2>1. disconnects + 1 \in Disconnects /\ disconnects' \in 0..MaxDisconnects
    BY <1>2 DEF Disconnect, TypeOK, Disconnects
  <2>2. revoke' \in [Disconnects -> Revokes]
    BY <1>2, <2>1 DEF Disconnect, TypeOK, Revokes
  <2>3. TypeOK'
    BY <1>2, <2>1, <2>2 DEF Disconnect, TypeOK, flowVars, Statuses
  <2>4. \A d \in Disconnects : revoke'[d].at = "call" => revoke'[d] = revoke[d]
    BY <1>2, <2>1 DEF Disconnect, TypeOK, Revokes
  <2>5. RowsFollow'
    BY <1>2, <2>4 DEF Disconnect, RowsFollow, TypeOK, flowVars, Creds
  <2>6. OnlyCurrentOpens' /\ ActiveIsIntact'
    BY <1>2 DEF Disconnect, OnlyCurrentOpens, ActiveIsIntact
  <2> QED
    BY <2>3, <2>5, <2>6
<1> QED
  BY <1>1, <1>2

LEMMA WorkflowStep ==
  ASSUME CredentialsInv, DeliverStart \/ Workflow
  PROVE  CredentialsInv'
<1> USE CredentialsAssumption
    DEF CredentialsAssumption, CredentialsInv
<1>0. /\ UNCHANGED <<rowVars, taken, revokeVars>>
      /\ TypeOK
  BY DEF DeliverStart, Workflow, ReadSchedule, Wakes, DelayEnds, TimesOut, revokeVars
<1>a. OnlyCurrentOpens' /\ ActiveIsIntact'
  BY <1>0 DEF rowVars, OnlyCurrentOpens, ActiveIsIntact
<1>1. CASE DeliverStart
  BY <1>a, <1>1
     DEF DeliverStart, rowVars, flowVars, revokeVars, TypeOK, RowsFollow, Running
<1>2. CASE ReadSchedule
  BY <1>a, <1>2
     DEF ReadSchedule, rowVars, flowVars, revokeVars, TypeOK, RowsFollow, Running
<1>3. CASE Wakes \/ DelayEnds
  <2>1. CASE Schedules(Tries)
    <3>1. Tries \in 0..Tries
      OBVIOUS
    <3> QED
      BY <1>a, <1>3, <2>1, <3>1, SchedulesType
         DEF Wakes, DelayEnds, rowVars, revokeVars, TypeOK, RowsFollow, Running
  <2>2. CASE flow' = "completed" /\ UNCHANGED <<attempt, slot, tries>>
    BY <1>a, <1>3, <2>2
       DEF Wakes, DelayEnds, rowVars, revokeVars, TypeOK, RowsFollow
  <2> QED
    BY <1>3, <2>1, <2>2 DEF Wakes, DelayEnds
<1>4. CASE TimesOut
  <2>0. faults' \in 0..MaxFaults
    BY <1>0, <1>4 DEF TimesOut, GivenUp, Fault, TypeOK
  <2>1. CASE tries > 1 /\ Schedules(tries - 1)
    <3>1. tries - 1 \in 0..Tries
      BY <1>0, <2>1 DEF TypeOK
    <3> QED
      BY <1>a, <1>4, <2>0, <2>1, <3>1, SchedulesType
         DEF TimesOut, rowVars, revokeVars, TypeOK, RowsFollow, Running
  <2>2. CASE flow' = "failed" /\ UNCHANGED <<attempt, slot, tries>>
    BY <1>a, <1>4, <2>0, <2>2
       DEF TimesOut, rowVars, revokeVars, TypeOK, RowsFollow
  <2> QED
    BY <1>4, <2>1, <2>2 DEF TimesOut
<1> QED
  BY <1>1, <1>2, <1>3, <1>4 DEF Workflow

LEMMA RefreshStep ==
  ASSUME CredentialsInv, NEW s \in Slots, Refresh(s) \/ AttemptDies(s)
  PROVE  CredentialsInv'
<1> USE CredentialsAssumption
    DEF CredentialsAssumption, CredentialsInv
<1>0. TypeOK /\ RowsFollow
  OBVIOUS
<1>1. ASSUME UNCHANGED <<rowVars, taken, pending, revokeVars>>
      PROVE  OnlyCurrentOpens' /\ ActiveIsIntact'
  BY <1>1 DEF rowVars, OnlyCurrentOpens, ActiveIsIntact
<1>2. CASE RefreshLoad(s)
  <2>0. UNCHANGED <<rowVars, taken, pending, revokeVars>>
    BY <1>2 DEF RefreshLoad
  <2>1. ASSUME NEW answer, Returns(s, answer) PROVE TypeOK' /\ RowsFollow'
    BY <2>0, <2>1, ReturnsType DEF rowVars, revokeVars, TypeOK, RowsFollow
  <2>2. ASSUME attempt' = [attempt EXCEPT ![s].at = "open", ![s].cred = cred],
               UNCHANGED <<flowVars, faults>>
        PROVE  TypeOK' /\ RowsFollow'
    <3>1. cred \in Creds
      BY DEF TypeOK
    <3>2. /\ attempt' \in [Slots -> Attempts]
          /\ \A q \in Slots : attempt'[q] = attempt[q] \/ attempt'[q].cred = cred
      BY <1>0, <2>2, AttemptGoesOn
    <3>3. UNCHANGED <<rowVars, taken, pending, revokeVars, flowVars, faults>>
      BY <2>0, <2>2
    <3>4. TypeOK'
      BY <3>2, <3>3 DEF rowVars, flowVars, revokeVars, TypeOK
    <3>5. RowsFollow'
      BY <3>1, <3>2, <3>3 DEF rowVars, revokeVars, RowsFollow
    <3> QED
      BY <3>4, <3>5
  <2>3. \/ \E answer \in {"not_active", "transient"} : Returns(s, answer)
        \/ /\ attempt' = [attempt EXCEPT ![s].at = "open", ![s].cred = cred]
           /\ UNCHANGED <<flowVars, faults>>
    BY <1>2 DEF RefreshLoad
  <2>4. TypeOK' /\ RowsFollow'
    BY <2>1, <2>2, <2>3
  <2> QED
    BY <1>1, <2>0, <2>4
<1>3. CASE RefreshOpen(s) \/ RefreshCall(s)
  <2>0. /\ UNCHANGED <<rowVars, taken, pending, flowVars, revokeVars, faults>>
        /\ attempt[s].at \in {"open", "call"}
    BY <1>3 DEF RefreshOpen, RefreshCall
  <2>1. CASE \E answer \in Answers : Answered(s, answer)
    <3>1. attempt' \in [Slots -> Attempts]
      <4>1. attempt \in [Slots -> Attempts] /\ attempt[s] \in Attempts
        BY DEF TypeOK
      <4>2. PICK answer \in Answers : Answered(s, answer)
        BY <2>1
      <4>3. [attempt EXCEPT ![s].at = "record"] \in [Slots -> Attempts]
        BY <4>1 DEF Attempts
      <4>4. [[attempt EXCEPT ![s].at = "record"] EXCEPT ![s].answer = answer]
              \in [Slots -> Attempts]
        BY <4>2, <4>3 DEF Attempts
      <4> QED
        BY <4>1, <4>2, <4>4 DEF Answered
    <3>2. \A q \in Slots : /\ attempt'[q].cred = attempt[q].cred
                           /\ q # s => attempt'[q] = attempt[q]
      BY <2>1 DEF Answered, TypeOK, Attempts
    <3> QED
      BY <1>1, <2>0, <3>1, <3>2
         DEF rowVars, flowVars, revokeVars, TypeOK, RowsFollow
  <2>2. CASE attempt' = [attempt EXCEPT ![s].at = "call", ![s].cred = cred]
    <3>1. cred \in Creds
      BY DEF TypeOK
    <3>2. /\ attempt' \in [Slots -> Attempts]
          /\ \A q \in Slots : attempt'[q] = attempt[q] \/ attempt'[q].cred = cred
      BY <1>0, <2>2, AttemptGoesOn
    <3> QED
      BY <1>1, <2>0, <3>1, <3>2
         DEF rowVars, flowVars, revokeVars, TypeOK, RowsFollow
  <2> QED
    BY <1>3, <2>1, <2>2 DEF RefreshOpen, RefreshCall, Answers
<1>4. CASE RefreshRecord(s)
  <2>1. CASE attempt[s].answer = "ok"
    <3>1. Replaces(grant[attempt[s].cred], attempt[s].cred)
      BY <1>4, <2>1 DEF RefreshRecord
    <3>2. grant[attempt[s].cred] \in Grants
      BY <1>4 DEF RefreshRecord, RowsFollow, TypeOK
    <3>3. Returns(s, "ok")
      BY <1>4, <2>1 DEF RefreshRecord
    <3>4. UNCHANGED <<revocable, expiring, connects, taken, pending, disconnects, revoke>>
      BY <1>4 DEF RefreshRecord, revokeVars
    <3>5. TypeOK'
      BY <1>0, <3>1, <3>2, <3>3, <3>4, ReplacesRows, ReturnsType DEF TypeOK
    <3>6. RowsFollow'
      BY <1>0, <3>1, <3>2, <3>3, <3>4, ReplacesRows, ReturnsType
         DEF RowsFollow, TypeOK, Creds
    <3>7. OnlyCurrentOpens' /\ ActiveIsIntact'
      BY <3>1, <3>2, ReplacesRows
         DEF Replaces, OnlyCurrentOpens, ActiveIsIntact, RowsFollow, TypeOK, Creds
    <3> QED
      BY <3>5, <3>6, <3>7
  <2>2. CASE attempt[s].answer # "ok"
    <3>1. /\ status' \in {"refresh_needed", "reconnect_needed"}
          /\ UNCHANGED <<expires, cred, made, destroyed, grant>>
          /\ UNCHANGED <<revocable, expiring, connects, taken, pending, disconnects, revoke>>
      BY <1>4, <2>2 DEF RefreshRecord, revokeVars
    <3>2. Returns(s, attempt[s].answer)
      BY <1>4 DEF RefreshRecord
    <3>3. TypeOK'
      BY <1>0, <3>1, <3>2, ReturnsType DEF TypeOK, Statuses
    <3>4. RowsFollow'
      BY <1>0, <3>1, <3>2, ReturnsType DEF RowsFollow
    <3>5. OnlyCurrentOpens' /\ ActiveIsIntact'
      BY <3>1 DEF OnlyCurrentOpens, ActiveIsIntact
    <3> QED
      BY <3>3, <3>4, <3>5
  <2> QED
    BY <2>1, <2>2
<1>5. CASE AttemptDies(s)
  <2>1. NoAttempt \in Attempts /\ NoAttempt.at = "idle"
    BY DEF NoAttempt, Attempts, Answers
  <2>2. faults' \in 0..MaxFaults
    BY <1>0, <1>5 DEF AttemptDies, Fault, TypeOK
  <2> QED
    BY <1>1, <1>5, <2>1, <2>2
       DEF AttemptDies, rowVars, flowVars, revokeVars, TypeOK, RowsFollow
<1> QED
  BY <1>2, <1>3, <1>4, <1>5 DEF Refresh

LEMMA RevokeStep ==
  ASSUME CredentialsInv, NEW d \in Disconnects, Revoke(d) \/ RevokeLost(d)
  PROVE  CredentialsInv'
<1> USE CredentialsAssumption
    DEF CredentialsAssumption, CredentialsInv
<1>0. TypeOK /\ RowsFollow /\ cred \in Creds /\ cred = made
  BY DEF TypeOK, RowsFollow
<1>1. UNCHANGED <<revocable, expiring, status, expires, cred, made, grant, connects,
                  pending, flowVars, attempt, disconnects>>
  BY DEF Revoke, RevokeLoad, RevokeOpen, RevokeCall, RevokeRecord, RevokeLost, rowVars
<1>2. /\ revoke' \in [Disconnects -> Revokes]
      /\ \A e \in Disconnects : revoke'[e].at = "call" => revoke'[e].cred \in Creds
  <2>1. ASSUME NEW where \in {"open", "record", "over"}, RevokeGoes(d, where)
        PROVE  <1>2!:
    BY <1>0, <2>1 DEF RevokeGoes, TypeOK, RowsFollow, Revokes
  <2>2. CASE revoke' = [revoke EXCEPT ![d].at = "call", ![d].cred = cred]
    BY <1>0, <2>2, RevokeGoesOn DEF RowsFollow
  <2>3. CASE /\ revoke[d].tries > 1
             /\ revoke' = [revoke EXCEPT ![d].at = "load", ![d].tries = @ - 1]
    <3>1. revoke[d].tries - 1 \in 0..Tries
      BY <1>0, <2>3 DEF TypeOK, Revokes
    <3>2. revoke' \in [Disconnects -> Revokes]
      BY <1>0, <2>3, <3>1 DEF TypeOK, Revokes
    <3>3. \A e \in Disconnects : revoke'[e] = revoke[e] \/ revoke'[e].at = "load"
      BY <1>0, <2>3 DEF TypeOK, Revokes
    <3> QED
      BY <1>0, <3>2, <3>3 DEF RowsFollow
  <2> QED
    BY <2>1, <2>2, <2>3
       DEF Revoke, RevokeLoad, RevokeOpen, RevokeCall, RevokeRecord, RevokeLost
<1>3. taken' \subseteq Grants
  BY <1>0 DEF Revoke, RevokeLoad, RevokeOpen, RevokeCall, RevokeRecord, RevokeLost,
              TypeOK, RowsFollow
<1>4. faults' \in 0..MaxFaults
  BY <1>0 DEF Revoke, RevokeLoad, RevokeOpen, RevokeCall, RevokeRecord, RevokeLost,
              TypeOK, Fault
<1>5. \/ UNCHANGED destroyed
      \/ destroyed' = destroyed \cup {cred} /\ status = "disabled"
  BY DEF Revoke, RevokeLoad, RevokeOpen, RevokeCall, RevokeRecord, RevokeLost,
         rowVars, Spared
<1>6. TypeOK'
  BY <1>0, <1>1, <1>2, <1>3, <1>4, <1>5 DEF TypeOK, flowVars
<1>7. RowsFollow'
  <2>1. destroyed' \subseteq 1..made
    <3>1. cred \in 1..made
      BY <1>0 DEF Creds
    <3> QED
      BY <1>0, <1>5, <3>1 DEF RowsFollow
  <2>2. \A s \in Slots : attempt'[s].at \in {"open", "call", "record"} =>
          attempt'[s].cred \in Creds
    BY <1>0, <1>1 DEF RowsFollow
  <2> QED
    BY <1>0, <1>1, <1>2, <2>1, <2>2 DEF RowsFollow
<1>8. OnlyCurrentOpens' /\ ActiveIsIntact'
  BY <1>1, <1>5 DEF OnlyCurrentOpens, ActiveIsIntact
<1> QED
  BY <1>6, <1>7, <1>8

LEMMA CredentialsInvStep == CredentialsInv /\ [Next]_vars => CredentialsInv'
<1> SUFFICES ASSUME CredentialsInv, [Next]_vars PROVE CredentialsInv'
  OBVIOUS
<1>1. CASE UNCHANGED vars
  BY <1>1 DEF vars, rowVars, flowVars, revokeVars, CredentialsInv, TypeOK, RowsFollow,
              OnlyCurrentOpens, ActiveIsIntact
<1>2. CASE ShredFloor
  <2>1. cred \in Creds /\ cred \in 1..made
    BY DEF CredentialsInv, TypeOK, RowsFollow, Creds
  <2> QED
    BY <1>2, <2>1 DEF ShredFloor, Unshredded, flowVars, revokeVars, CredentialsInv,
                      TypeOK, RowsFollow, OnlyCurrentOpens, ActiveIsIntact
<1> QED
  BY <1>1, <1>2, PeopleStep, WorkflowStep, RefreshStep, RevokeStep DEF Next

\* The rows, the workflows and the attempts stay well typed.
THEOREM CredentialsTypeCorrect == Spec => []TypeOK
<1>1. CredentialsInv => TypeOK
  BY DEF CredentialsInv
<1> QED
  BY <1>1, CredentialsInvInit, CredentialsInvStep, PTL DEF Spec

\* Of all the credentials a channel ever had only the current one still opens,
\* for any number of reconnects, rotations and attempts that overlap.
THEOREM OnlyOneOpens == Spec => []OnlyCurrentOpens
<1>1. CredentialsInv => OnlyCurrentOpens
  BY DEF CredentialsInv
<1> QED
  BY <1>1, CredentialsInvInit, CredentialsInvStep, PTL DEF Spec

\* A channel in use has its credential, whatever revokes and sweeps of earlier
\* disconnects are still under way.
THEOREM ActiveKeepsCredential == Spec => []ActiveIsIntact
<1>1. CredentialsInv => ActiveIsIntact
  BY DEF CredentialsInv
<1> QED
  BY <1>1, CredentialsInvInit, CredentialsInvStep, PTL DEF Spec

=============================================================================
