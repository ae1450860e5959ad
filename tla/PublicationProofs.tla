------------------------- MODULE PublicationProofs -------------------------
(***************************************************************************)
(* Theorems about Publication, for every value of its constants.           *)
(***************************************************************************)
EXTENDS Publication, TLAPS

(* The machine: where a move can lead, and what a target says of its origin. *)

LEMMA ToStates == \A s, e : To(s, e) \subseteq States
BY DEF To, Moves, States

\* Four states are entered by few rows of the table.
LEMMA ToEntries ==
  ASSUME NEW s, NEW e, NEW t \in To(s, e)
  PROVE  /\ t = "scheduled" =>
              \/ s = "dispatching" /\ e = "retryable_pre_send"
              \/ s = "retry_eligible" /\ e = "reschedule"
              \/ s = "held" /\ e = "hold_resolved_schedule"
         /\ t = "retry_eligible" => s = "outcome_unknown" /\ e = "reconcile_absent"
         /\ t = "cancelled" =>
              \/ s = "scheduled" /\ e = "user_cancel"
              \/ s = "held" /\ e = "hold_resolved_cancel"
         /\ t = "dispatching" => s = "scheduled" /\ e = "claim"
BY DEF To, Moves

-----------------------------------------------------------------------------
(* Types *)

LEMMA ConstantTypes ==
  /\ MaxGen \in Nat /\ MaxGen > 0 /\ MaxFence \in Nat
  /\ MaxFaults \in Nat /\ MaxRestores \in Nat
  /\ MaxCancels \in Nat /\ MaxSlowSweeps \in Nat
  /\ 1 \in Gens /\ Gens \subseteq Procs /\ Gens \subseteq 0..MaxGen
  /\ Claims \subseteq 0..MaxFence
  /\ \A f \in 0..MaxFence : Rec(f) \in Procs
BY BoundsAssumption DEF BoundsAssumption, Gens, Procs, Rec, Claims

LEMMA IdleType == Idle \in Execution
BY ConstantTypes DEF Idle, Execution, PcSet, EndPcs

LEMMA InitTypeOK == Init => TypeOK
<1> SUFFICES ASSUME Init PROVE TypeOK
  OBVIOUS
<1> USE DEF Init
<1>1. /\ state \in States /\ fence \in 0..MaxFence /\ claimant \in Gens \X Nat
      /\ gen \in Gens /\ sweepRef \in 0..MaxGen
  BY ConstantTypes DEF States
<1>2. /\ outcome \in [Claims -> Outcomes \cup {"unset"}]
      /\ call \in [Claims -> CallSet]
      /\ post \in [Claims -> {"none", "job", "live"}]
      /\ run \in [Procs -> Execution]
  BY IdleType DEF CallSet
<1>3. /\ faults \in 0..MaxFaults /\ restores \in 0..MaxRestores
      /\ cancels \in 0..MaxCancels /\ slowSweeps \in 0..MaxSlowSweeps
  BY ConstantTypes
<1> QED
  BY <1>1, <1>2, <1>3, ConstantTypes DEF TypeOK

\* What the helpers of the activities leave behind is well typed.
LEMMA ReplyType ==
  ASSUME TypeOK, NEW p \in Procs, NEW pc \in PcSet, NEW c \in 0..MaxFence,
         ReplyWith(p, pc, c)
  PROVE  run' \in [Procs -> Execution] /\ faults' \in 0..MaxFaults
<1>0. run[p] \in Execution
  BY DEF TypeOK
<1>1. Ended(p, pc) \in Execution
  BY <1>0, IdleType DEF Ended, Execution, Idle
<1>2. [run[p] EXCEPT !.pc = pc, !.claim = c] \in Execution
  BY <1>0 DEF Execution
<1> QED
  BY <1>1, <1>2, ConstantTypes DEF ReplyWith, TypeOK

LEMMA RefusedType ==
  ASSUME TypeOK, NEW p \in Procs, Refused(p)
  PROVE  run' \in [Procs -> Execution] /\ faults' \in 0..MaxFaults
<1>1. Ended(p, "failed") \in Execution
  BY IdleType DEF Ended, Execution, TypeOK, Idle, PcSet, EndPcs
<1> QED
  BY <1>1 DEF Refused, TypeOK

LEMMA FireType ==
  ASSUME TypeOK, NEW c, NEW e, Fire(c, e)
  PROVE  state' \in States /\ trespassed' \in BOOLEAN
BY ToStates DEF Fire, TypeOK, Trespass

LEMMA MarkType ==
  ASSUME TypeOK, NEW p \in Procs, NEW settled, NEW e, NEW pc \in PcSet,
         Mark(p, settled, e, pc)
  PROVE  /\ state' \in States /\ trespassed' \in BOOLEAN
         /\ run' \in [Procs -> Execution] /\ faults' \in 0..MaxFaults
<1>1. run[p].claim \in 0..MaxFence
  BY DEF TypeOK, Execution
<1>2. CASE Reply(p, pc)
  BY <1>1, <1>2, ReplyType, FireType DEF Mark, Stay, TypeOK, Reply
<1>3. CASE Refused(p)
  BY <1>3, RefusedType, FireType DEF Mark, Stay, TypeOK
<1> QED
  BY <1>2, <1>3 DEF Mark

LEMMA RecordOutcomeType ==
  ASSUME TypeOK, NEW f, NEW res \in Outcomes, RecordOutcome(f, res)
  PROVE  outcome' \in [Claims -> Outcomes \cup {"unset"}]
BY DEF RecordOutcome, TypeOK

LEMMA RequestType ==
  ASSUME TypeOK, NEW f \in 0..MaxFence, RequestReconcile(f, AttemptOf(f))
  PROVE  run' \in [Procs -> Execution]
<1>1. AttemptOf(f) \in 0..MaxFence
  BY ConstantTypes DEF AttemptOf
<1>2. [Idle EXCEPT !.pc = "requested", !.claim = AttemptOf(f)] \in Execution
  BY <1>1, IdleType DEF Execution, Idle, PcSet
<1> QED
  BY <1>2 DEF RequestReconcile, TypeOK

LEMMA ReturnType ==
  ASSUME TypeOK, NEW f \in Claims, NEW res \in Outcomes, Return(f, res)
  PROVE  /\ run' \in [Procs -> Execution]
         /\ call' \in [Claims -> CallSet]
<1>1. \A p \in Procs : [run[p] EXCEPT !.pc = res] \in Execution
  BY DEF TypeOK, Execution, PcSet
<1> QED
  BY <1>1 DEF Return, CallGoes, TypeOK, CallSet

\* The steps of the publication workflow keep the types.
LEMMA WorkflowTypeOK ==
  ASSUME TypeOK, state = "dispatching" => fence \in Claims,
         NEW g \in Gens, Workflow(g)
  PROVE  TypeOK'
<1> USE DEF rowVars, ledgerVars, eventVars, historyVars, limitVars, budgetVars,
            remoteVars, Stay, ClaimUnchanged, OnlyMarked
<1>0. /\ g \in Procs /\ run[g] \in Execution
      /\ run[g].claim \in 0..MaxFence /\ run[g].n \in Nat
  BY ConstantTypes DEF TypeOK, Execution
<1>p. {"completed", "evaluate", "deny", "allowed", "await", "poll", "wait",
       "claim", "unknown", "failed"} \cup Outcomes \subseteq PcSet
  BY DEF PcSet, EndPcs, Outcomes
<1>r. ASSUME NEW pc \in PcSet PROVE [run EXCEPT ![g].pc = pc] \in [Procs -> Execution]
  <2>1. [run[g] EXCEPT !.pc = pc] \in Execution
    BY <1>0 DEF Execution
  <2> QED
    BY <2>1, <1>0 DEF TypeOK
<1>1. CASE ReadSchedule(g)
  <2>1. Ended(g, "completed") \in Execution
    BY <1>0, <1>p, IdleType DEF Ended, Execution, Idle
  <2>2. [run[g] EXCEPT !.pc = "claim"] \in Execution
    BY <1>0, <1>p DEF Execution
  <2> QED
    BY <1>1, <2>1, <2>2 DEF ReadSchedule, TypeOK
<1>2. CASE CancelIfNotStarted(g)
  <2>1. run' \in [Procs -> Execution] /\ faults' \in 0..MaxFaults
    BY <1>2, <1>0, <1>p, ReplyType DEF CancelIfNotStarted, Reply
  <2>2. state' \in States /\ trespassed' \in BOOLEAN
    BY <1>2, FireType DEF CancelIfNotStarted, TypeOK
  <2> QED
    BY <1>2, <2>1, <2>2 DEF CancelIfNotStarted, TypeOK
<1>3. CASE ClaimForDispatch(g)
  <2>1. CASE /\ state = "scheduled" /\ fence < MaxFence
             /\ Fire(run[g].claim, "claim")
             /\ fence' = fence + 1
             /\ claimant' = <<g, run[g].n>>
             /\ ReplyWith(g, "evaluate", fence + 1)
    <3>1. fence + 1 \in 0..MaxFence
      BY <2>1, ConstantTypes DEF TypeOK
    <3>2. run' \in [Procs -> Execution] /\ faults' \in 0..MaxFaults
      BY <2>1, <3>1, <1>0, <1>p, ReplyType
    <3>3. state' \in States /\ trespassed' \in BOOLEAN
      BY <2>1, FireType
    <3> QED
      BY <1>3, <2>1, <3>1, <3>2, <3>3, <1>0 DEF ClaimForDispatch, TypeOK
  <2>2. CASE ReplyWith(g, "evaluate", fence) /\ UNCHANGED <<state, trespassed, fence, claimant>>
    <3>2. run' \in [Procs -> Execution] /\ faults' \in 0..MaxFaults
      BY <2>2, <1>0, <1>p, ReplyType DEF TypeOK
    <3> QED
      BY <1>3, <2>2, <3>2 DEF ClaimForDispatch, TypeOK
  <2>3. CASE Reply(g, "completed") /\ UNCHANGED <<state, trespassed, fence, claimant>>
    <3>2. run' \in [Procs -> Execution] /\ faults' \in 0..MaxFaults
      BY <2>3, <1>0, <1>p, ReplyType DEF Reply
    <3> QED
      BY <1>3, <2>3, <3>2 DEF ClaimForDispatch, TypeOK
  <2> QED
    BY <1>3, <2>1, <2>2, <2>3 DEF ClaimForDispatch
<1>4. CASE EvaluateRelease(g)
  <2>1. run' \in [Procs -> Execution] /\ faults' \in 0..MaxFaults
    BY <1>4, <1>0, <1>p, ReplyType, RefusedType DEF EvaluateRelease, Reply
  <2> QED
    BY <1>4, <2>1 DEF EvaluateRelease, TypeOK
<1>5. CASE Hold(g)
  <2>1. /\ state' \in States /\ trespassed' \in BOOLEAN
        /\ run' \in [Procs -> Execution] /\ faults' \in 0..MaxFaults
    BY <1>5, <1>0, <1>p, MarkType DEF Hold
  <2> QED
    BY <1>5, <2>1 DEF Hold, TypeOK
<1>6. CASE ReleaseClaimAndCancel(g)
  <2>1. run' \in [Procs -> Execution] /\ faults' \in 0..MaxFaults
    BY <1>6, <1>0, <1>p, ReplyType, RefusedType DEF ReleaseClaimAndCancel, Reply
  <2>2. /\ state' \in States /\ trespassed' \in BOOLEAN
        /\ claimant' \in Gens \X Nat
    BY <1>6 DEF ReleaseClaimAndCancel, TypeOK, States
  <2> QED
    BY <1>6, <2>1, <2>2 DEF ReleaseClaimAndCancel, TypeOK
<1>7. CASE OpenAttempt(g)
  <2>1. CASE Refused(g) /\ UNCHANGED <<opened, call>>
    BY <1>7, <2>1, <1>0, RefusedType DEF OpenAttempt, TypeOK
  <2>2. CASE /\ fence = run[g].claim /\ (fence \in opened \/ state = "dispatching")
             /\ opened' = opened \cup {fence}
             /\ run' = [run EXCEPT ![g].pc = "await"]
             /\ call' = [call EXCEPT ![fence] = "load"]
             /\ UNCHANGED faults
    BY <1>7, <2>2, <1>r, <1>p DEF OpenAttempt, TypeOK, CallSet
  <2>3. CASE /\ fence = run[g].claim /\ (fence \in opened \/ state = "dispatching")
             /\ opened' = opened \cup {fence}
             /\ faults > 0 /\ faults' = faults - 1
             /\ UNCHANGED <<run, call>>
    BY <1>7, <2>3, ConstantTypes DEF OpenAttempt, TypeOK
  <2> QED
    BY <1>7, <2>1, <2>2, <2>3 DEF OpenAttempt
<1>8. CASE PublishTimesOut(g)
  BY <1>8, <1>r, <1>p DEF PublishTimesOut, TypeOK
<1>9. CASE MarkFailed(g)
  <2>1. /\ state' \in States /\ trespassed' \in BOOLEAN
        /\ run' \in [Procs -> Execution] /\ faults' \in 0..MaxFaults
    BY <1>9, <1>0, <1>p, MarkType DEF MarkFailed
  <2> QED
    BY <1>9, <2>1 DEF MarkFailed, TypeOK
<1>10. CASE MarkProcessing(g)
  <2>1. /\ state' \in States /\ trespassed' \in BOOLEAN
        /\ run' \in [Procs -> Execution] /\ faults' \in 0..MaxFaults
    BY <1>10, <1>0, <1>p, MarkType DEF MarkProcessing
  <2> QED
    BY <1>10, <2>1 DEF MarkProcessing, TypeOK
<1>11. CASE RetryAfterProvenNoEffect(g)
  <2>1. run' \in [Procs -> Execution] /\ faults' \in 0..MaxFaults
    BY <1>11, <1>0, <1>p, ReplyType DEF RetryAfterProvenNoEffect, Reply
  <2>2. state' \in States /\ trespassed' \in BOOLEAN
    BY <1>11, FireType DEF RetryAfterProvenNoEffect, TypeOK
  <2>3. claimant' \in Gens \X Nat
    BY <1>11 DEF RetryAfterProvenNoEffect, TypeOK
  <2> QED
    BY <1>11, <2>1, <2>2, <2>3 DEF RetryAfterProvenNoEffect, TypeOK
<1>12. CASE Poll(g)
  <2>1. PICK res \in {"accepted", "rejected", "unknown"} :
          run' = [run EXCEPT ![g].pc = res]
    BY <1>12 DEF Poll
  <2> QED
    BY <1>12, <2>1, <1>r DEF Poll, TypeOK, PcSet, Outcomes
<1> QED
  BY <1>1, <1>2, <1>3, <1>4, <1>5, <1>6, <1>7, <1>8, <1>9, <1>10, <1>11, <1>12
     DEF Workflow

\* So do the reconcile loop, the provider call, the deliveries, the sweeper and
\* the commands.
LEMMA OtherTypeOK ==
  ASSUME TypeOK,
         \/ \E p \in Procs : Reconcile(p) \/ RunDies(p)
         \/ \E g \in Gens : DeliverStart(g) \/ DeliverCancel(g)
         \/ \E f \in Claims : PublishOnce(f) \/ DeliverReconcile(f)
         \/ Sweep
         \/ Person
  PROVE  TypeOK'
<1> USE DEF rowVars, ledgerVars, eventVars, historyVars, limitVars, budgetVars,
            remoteVars, Stay, ClaimUnchanged, OnlyMarked, OnlyCall, OnlyRow
<1>c. \A f \in Claims : f \in 0..MaxFence /\ f \in Nat /\ Rec(f) \in Procs
  BY ConstantTypes
<1>p. {"completed", "look", "found", "absent", "exhausted", "unknown",
       "requested", "failed", "wait"} \cup Outcomes \subseteq PcSet
  BY DEF PcSet, EndPcs, Outcomes
<1>o. Outcomes \subseteq CallSet /\ {"none", "load", "send", "out"} \subseteq CallSet
  BY DEF CallSet
<1>r. ASSUME NEW p \in Procs, NEW pc \in PcSet
      PROVE  [run EXCEPT ![p].pc = pc] \in [Procs -> Execution]
  <2>1. [run[p] EXCEPT !.pc = pc] \in Execution
    <3>1. run[p] \in Execution
      BY DEF TypeOK
    <3> QED
      BY <3>1 DEF Execution
  <2> QED
    BY <2>1 DEF TypeOK
<1>1. ASSUME NEW p \in Procs, MarkPublished(p) PROVE TypeOK'
  <2>1. /\ state' \in States /\ trespassed' \in BOOLEAN
        /\ run' \in [Procs -> Execution] /\ faults' \in 0..MaxFaults
    BY <1>1, <1>p, MarkType DEF MarkPublished
  <2> QED
    BY <1>1, <2>1 DEF MarkPublished, TypeOK
<1>2. ASSUME NEW p \in Procs, MarkOutcomeUnknown(p) PROVE TypeOK'
  <2>1. /\ state' \in States /\ trespassed' \in BOOLEAN
        /\ run' \in [Procs -> Execution] /\ faults' \in 0..MaxFaults
    BY <1>2, <1>p, MarkType DEF MarkOutcomeUnknown
  <2>2. outcome' \in [Claims -> Outcomes \cup {"unset"}]
    <3>1. "unknown" \in Outcomes
      BY DEF Outcomes
    <3> QED
      BY <1>2, <3>1, RecordOutcomeType DEF MarkOutcomeUnknown, TypeOK
  <2> QED
    BY <1>2, <2>1, <2>2 DEF MarkOutcomeUnknown, TypeOK
<1>3. ASSUME NEW p \in Procs, FindRemotePost(p) PROVE TypeOK'
  <2>1. PICK answer \in {"found", "absent", "exhausted"} :
          run' = [run EXCEPT ![p].pc = answer]
    BY <1>3 DEF FindRemotePost
  <2> QED
    BY <1>3, <2>1, <1>r, <1>p DEF FindRemotePost, TypeOK
<1>4. ASSUME NEW p \in Procs, MarkRetryEligible(p) PROVE TypeOK'
  <2>1. /\ state' \in States /\ trespassed' \in BOOLEAN
        /\ run' \in [Procs -> Execution] /\ faults' \in 0..MaxFaults
    BY <1>4, <1>p, MarkType DEF MarkRetryEligible
  <2>2. cleared' \in SUBSET Claims
    BY <1>4 DEF MarkRetryEligible, TypeOK
  <2> QED
    BY <1>4, <2>1, <2>2 DEF MarkRetryEligible, TypeOK
<1>5. ASSUME NEW p \in Procs, HoldForHuman(p) PROVE TypeOK'
  <2>1. /\ state' \in States /\ trespassed' \in BOOLEAN
        /\ run' \in [Procs -> Execution] /\ faults' \in 0..MaxFaults
    BY <1>5, <1>p, MarkType DEF HoldForHuman
  <2> QED
    BY <1>5, <2>1 DEF HoldForHuman, TypeOK
<1>6. ASSUME NEW p \in Procs, RunDies(p) PROVE TypeOK'
  <2>1. run[p] \in Execution
    BY DEF TypeOK
  <2>2. Ended(p, "failed") \in Execution
    BY <2>1, <1>p, IdleType DEF Ended, Execution, Idle
  <2> QED
    BY <1>6, <2>2, ConstantTypes DEF RunDies, TypeOK
<1>7. ASSUME NEW g \in Gens, DeliverStart(g) PROVE TypeOK'
  <2>1. g \in Procs /\ run[g] \in Execution
    BY ConstantTypes DEF TypeOK
  <2>n. run[g].n + 1 \in Nat
    BY <2>1 DEF Execution
  <2>2. [Idle EXCEPT !.pc = "wait", !.n = run[g].n + 1] \in Execution
    BY <2>n, <1>p, IdleType DEF Execution, Idle
  <2> QED
    BY <1>7, <2>1, <2>2 DEF DeliverStart, TypeOK
<1>8. ASSUME NEW g \in Gens, DeliverCancel(g) PROVE TypeOK'
  <2>1. g \in Procs /\ run[g] \in Execution
    BY ConstantTypes DEF TypeOK
  <2>2. [run[g] EXCEPT !.cancel = TRUE] \in Execution
    BY <2>1 DEF Execution
  <2> QED
    BY <1>8, <2>1, <2>2 DEF DeliverCancel, TypeOK
<1>9. ASSUME NEW f \in Claims, DeliverReconcile(f) PROVE TypeOK'
  BY <1>9, <1>c, <1>p, <1>r DEF DeliverReconcile, TypeOK
<1>10. ASSUME NEW f \in Claims, CallLoad(f) PROVE TypeOK'
  <2>1. run' \in [Procs -> Execution] /\ call' \in [Claims -> CallSet]
    <3>1. "unknown" \in Outcomes
      BY DEF Outcomes
    <3>2. outcome[f] # "unset" => outcome[f] \in Outcomes
      BY DEF TypeOK
    <3> QED
      BY <1>10, <3>1, <3>2, <1>o, ReturnType DEF CallLoad, CallGoes, TypeOK
  <2> QED
    BY <1>10, <2>1 DEF CallLoad, TypeOK, Return
<1>11. ASSUME NEW f \in Claims, CallFailsBeforeSend(f) PROVE TypeOK'
  <2>1. run' \in [Procs -> Execution] /\ call' \in [Claims -> CallSet]
    <3>1. {"unknown", "retryable", "rejected"} \subseteq Outcomes
      BY DEF Outcomes
    <3> QED
      BY <1>11, <3>1, <1>o, ReturnType DEF CallFailsBeforeSend, CallGoes, TypeOK
  <2> QED
    BY <1>11, <2>1 DEF CallFailsBeforeSend, TypeOK, Return
<1>12. ASSUME NEW f \in Claims, CallFindsHashMismatch(f) PROVE TypeOK'
  <2>1. state' \in States /\ trespassed' \in BOOLEAN
    BY <1>12, FireType DEF CallFindsHashMismatch, TypeOK
  <2>2. call' \in [Claims -> CallSet]
    BY <1>12, <1>o DEF CallFindsHashMismatch, CallGoes, TypeOK, Outcomes
  <2> QED
    BY <1>12, <2>1, <2>2 DEF CallFindsHashMismatch, TypeOK
<1>13. ASSUME NEW f \in Claims, PreSendFence(f) PROVE TypeOK'
  BY <1>13, <1>o DEF PreSendFence, CallGoes, TypeOK, Outcomes
<1>14. ASSUME NEW f \in Claims, ProviderAnswers(f) PROVE TypeOK'
  BY <1>14, <1>o DEF ProviderAnswers, CallGoes, TypeOK
<1>15. ASSUME NEW f \in Claims, CallRecords(f) PROVE TypeOK'
  <2>1. call[f] \in Outcomes
    BY <1>15 DEF CallRecords
  <2>2. run' \in [Procs -> Execution] /\ call' \in [Claims -> CallSet]
    BY <1>15, <2>1, ReturnType DEF CallRecords
  <2>3. outcome' \in [Claims -> Outcomes \cup {"unset"}]
    BY <1>15, <2>1, RecordOutcomeType DEF CallRecords
  <2> QED
    BY <1>15, <2>2, <2>3 DEF CallRecords, TypeOK, Return
<1>16. ASSUME NEW f \in Claims, JobSettles(f) PROVE TypeOK'
  BY <1>16 DEF JobSettles, TypeOK
<1>17. ASSUME NEW g \in Gens, SweepRow(g), sweepRef' \in 0..MaxGen,
              slowSweeps' \in 0..MaxSlowSweeps
       PROVE  TypeOK'
  <2>1. /\ state' \in States /\ trespassed' \in BOOLEAN
    BY <1>17, FireType DEF SweepRow, TypeOK
  <2>2. outcome' \in [Claims -> Outcomes \cup {"unset"}]
    <3>1. "unknown" \in Outcomes
      BY DEF Outcomes
    <3> QED
      BY <1>17, <3>1, RecordOutcomeType DEF SweepRow, TypeOK
  <2>3. run' \in [Procs -> Execution]
    BY <1>17, RequestType DEF SweepRow, TypeOK
  <2>4. starts' \in SUBSET Gens
    BY <1>17 DEF SweepRow, TypeOK
  <2> QED
    BY <1>17, <2>1, <2>2, <2>3, <2>4 DEF SweepRow, TypeOK
<1>18. CASE SweepNow
  <2>1. claimant[1] \in Gens /\ SweepRow(claimant[1])
    BY <1>18 DEF SweepNow, TypeOK
  <2> QED
    BY <1>18, <2>1, <1>17 DEF SweepNow, TypeOK
<1>19. CASE SweepFind
  <2>1. claimant[1] \in 0..MaxGen
    BY ConstantTypes DEF TypeOK
  <2> QED
    BY <1>19, <2>1, ConstantTypes DEF SweepFind, TypeOK
<1>20. CASE SweepApply
  <2>1. sweepRef \in Gens /\ SweepRow(sweepRef)
    BY <1>20 DEF SweepApply, TypeOK, Gens
  <2>2. sweepRef' \in 0..MaxGen
    BY <1>20, ConstantTypes DEF SweepApply
  <2> QED
    BY <1>20, <2>1, <2>2, <1>17 DEF SweepApply, TypeOK
<1>21. CASE Cancel
  <2>1. state' \in States
    BY <1>21, ToStates DEF Cancel, TypeOK
  <2>n. claimant[1] \in Gens
    BY DEF TypeOK
  <2>2. cancels' \in 0..MaxCancels /\ relays' \in SUBSET Gens
    <3>1. cancels > 0 => cancels - 1 \in 0..MaxCancels
      BY ConstantTypes DEF TypeOK
    <3> QED
      BY <1>21, <3>1, <2>n DEF Cancel, TypeOK
  <2>3. cleared' \in SUBSET Claims /\ byPerson' \in SUBSET Claims
    BY <1>21 DEF Cancel, TypeOK
  <2> QED
    BY <1>21, <2>1, <2>2, <2>3 DEF Cancel, TypeOK
<1>22. CASE Release
  <2>1. state' \in States
    BY <1>22, ToStates DEF Release
  <2>2. gen + 1 \in Gens
    BY <1>22, ConstantTypes DEF Release, TypeOK, Gens
  <2>3. cleared' \in SUBSET Claims /\ byPerson' \in SUBSET Claims
    BY <1>22 DEF Release, TypeOK
  <2> QED
    BY <1>22, <2>1, <2>2, <2>3 DEF Release, TypeOK
<1>23. CASE RevokeDependency
  BY <1>23, ToStates DEF RevokeDependency, TypeOK
<1>24. CASE ConfirmPublished
  BY <1>24, ToStates DEF ConfirmPublished, TypeOK
<1>25. CASE ConfirmAbsent
  BY <1>25, ToStates DEF ConfirmAbsent, TypeOK
<1>26. CASE HoldRestored
  <2>1. state' \in States
    BY <1>26, ToStates DEF HoldRestored
  <2>2. outcome' \in [Claims -> Outcomes \cup {"unset"}]
    <3>1. "unknown" \in Outcomes
      BY DEF Outcomes
    <3> QED
      BY <1>26, <3>1, RecordOutcomeType DEF HoldRestored, TypeOK
  <2>3. run' \in [Procs -> Execution]
    BY <1>26, RequestType DEF HoldRestored, TypeOK
  <2>4. fence' \in 0..MaxFence /\ restores' \in 0..MaxRestores
    BY <1>26, ConstantTypes DEF HoldRestored, TypeOK
  <2> QED
    BY <1>26, <2>1, <2>2, <2>3, <2>4 DEF HoldRestored, TypeOK
<1> QED
  BY <1>1, <1>2, <1>3, <1>4, <1>5, <1>6, <1>7, <1>8, <1>9, <1>10, <1>11, <1>12,
     <1>13, <1>14, <1>15, <1>16, <1>18, <1>19, <1>20, <1>21, <1>22, <1>23,
     <1>24, <1>25, <1>26
     DEF Reconcile, PublishOnce, Sweep, Person

-----------------------------------------------------------------------------
(* The inductive invariant *)

\* The states a row is dispatched, released or closed from, and the events that
\* lead to them.
Open == {"scheduled", "retry_eligible", "cancelled"}
Opening == {"claim", "retryable_pre_send", "reschedule", "reconcile_absent",
            "hold_resolved_schedule", "user_cancel", "hold_resolved_cancel"}

\* A step that sends and opens nothing, takes no claim, and leads to an open
\* state only from one or with every send settled.
Quiet ==
  /\ sent' = sent /\ opened' = opened
  /\ cleared \subseteq cleared' /\ cleared' \subseteq cleared \cup sent
  /\ (trespassed => trespassed')
  /\ \A f \in Claims : call'[f] # "none" => call[f] # "none"
  /\ state' = "dispatching" => state = "dispatching" /\ fence' = fence
  /\ ~trespassed' /\ state' \in Open => state \in Open \/ sent \subseteq cleared'

LEMMA QuietInductive ==
  ASSUME Inductive, TypeOK', Quiet
  PROVE  Inductive'
<1>1. state' = "dispatching" => fence' \in Claims
  BY DEF Quiet, Inductive
<1>2. \A f \in Claims : call'[f] # "none" => f \in opened'
  BY DEF Quiet, Inductive
<1>3. sent' \subseteq opened'
  BY DEF Quiet, Inductive
<1>4. ASSUME ~trespassed' PROVE state' \in Open => Unsettled' = {}
  BY <1>4 DEF Quiet, Inductive, SettledBeforeRelease, Unsettled, Open
<1>5. ASSUME ~trespassed' PROVE state' = "dispatching" => Unsettled' \subseteq {fence'}
  BY <1>5 DEF Quiet, Inductive, SettledBeforeRelease, Unsettled
<1> QED
  BY <1>1, <1>2, <1>3, <1>4, <1>5 DEF Inductive, SettledBeforeRelease, Open

\* A move on any other event leads away from the open states and from a claim.
LEMMA FireAway ==
  ASSUME TypeOK, NEW c, NEW e, e \notin Opening, Fire(c, e)
  PROVE  state' \notin Open \cup {"dispatching"} /\ (trespassed => trespassed')
<1>1. state' \in To(state, e)
  BY DEF Fire
<1>2. state' \notin Open \cup {"dispatching"}
  BY <1>1, ToEntries DEF Open, Opening
<1> QED
  BY <1>2 DEF Fire

LEMMA MarkAway ==
  ASSUME TypeOK, NEW p \in Procs, NEW settled, NEW e, NEW pc,
         e \notin Opening, Mark(p, settled, e, pc)
  PROVE  /\ \/ state' = state
            \/ state' \notin Open \cup {"dispatching"}
         /\ trespassed => trespassed'
BY FireAway DEF Mark, Stay

\* A step that touches neither ledger nor token, and leaves the state or leads
\* away from the open states and from a claim, is quiet.
LEMMA QuietMove ==
  ASSUME UNCHANGED <<opened, sent, call, cleared, fence>>,
         trespassed => trespassed',
         state' = state \/ state' \notin Open \cup {"dispatching"}
  PROVE  Quiet
BY DEF Quiet

\* The steps of a reconcile loop are quiet.  The one that opens the row again
\* has every send of its claim and of the earlier ones settled, and there is no
\* later send unless the step is a trespass.
LEMMA ReconcileQuiet ==
  ASSUME Inductive, NEW p \in Procs, Reconcile(p)
  PROVE  Quiet
<1> USE DEF ledgerVars, remoteVars, rowVars, historyVars, ClaimUnchanged, OnlyMarked
<1>0. TypeOK
  BY DEF Inductive
<1>1. CASE MarkPublished(p)
  <2>1. PublishedEvent \notin Opening
    BY DEF PublishedEvent, Opening
  <2> QED
    BY <1>0, <1>1, <2>1, MarkAway, QuietMove DEF MarkPublished
<1>2. CASE MarkOutcomeUnknown(p)
  <2>1. UnknownEvent \notin Opening
    BY DEF UnknownEvent, Opening
  <2> QED
    BY <1>0, <1>2, <2>1, MarkAway, QuietMove DEF MarkOutcomeUnknown
<1>3. CASE FindRemotePost(p)
  BY <1>3, QuietMove DEF FindRemotePost
<1>4. CASE MarkRetryEligible(p)
  <2>1. CASE state' = state /\ UNCHANGED trespassed
    BY <1>4, <2>1, QuietMove DEF MarkRetryEligible
  <2>2. CASE Fire(Own(p), "reconcile_absent")
    <3>1. state = "outcome_unknown" /\ state' # "dispatching" /\ state' # state
      BY <2>2 DEF Fire, To, Moves
    <3>2. Own(p) \in Nat
      <4>1. CASE p \in Gens
        <5>1. run[p] \in Execution
          BY <1>0 DEF TypeOK
        <5> QED
          BY <4>1, <5>1, ConstantTypes DEF Own, Execution
      <4>2. CASE p \notin Gens
        BY <4>2, ConstantTypes DEF Own, Procs, Gens
      <4> QED
        BY <4>1, <4>2
    <3>3. ASSUME ~trespassed' PROVE sent \subseteq cleared'
      <4>1. \A f \in sent : ~(f > Own(p))
        BY <2>2, <3>1, <3>3 DEF Fire, Trespass
      <4>2. sent \subseteq Nat
        BY <1>0, ConstantTypes DEF TypeOK, Claims
      <4>3. \A f \in sent : f <= Own(p)
        BY <4>1, <4>2, <3>2
      <4> QED
        BY <1>4, <3>1, <4>3 DEF MarkRetryEligible
    <3>4. cleared \subseteq cleared' /\ cleared' \subseteq cleared \cup sent
      BY <1>4 DEF MarkRetryEligible
    <3> QED
      BY <1>4, <2>2, <3>1, <3>3, <3>4 DEF MarkRetryEligible, Quiet, Fire
  <2> QED
    BY <1>4, <2>1, <2>2 DEF MarkRetryEligible, Mark, Stay
<1>5. CASE HoldForHuman(p)
  BY <1>0, <1>5, MarkAway, QuietMove DEF HoldForHuman, Opening
<1> QED
  BY <1>1, <1>2, <1>3, <1>4, <1>5 DEF Reconcile

\* Of the workflow's steps, all but the claim and the opening of an attempt are
\* quiet.  A claim is given back only before its attempt is opened; a pre-send
\* retry is for an attempt that has not sent, and is a trespass unless that is
\* the attempt of the claim in force.
LEMMA WorkflowQuiet ==
  ASSUME Inductive, NEW g \in Gens, Workflow(g)
  PROVE  Quiet \/ ClaimForDispatch(g) \/ OpenAttempt(g)
<1> USE DEF ledgerVars, remoteVars, rowVars, historyVars, ClaimUnchanged,
            OnlyMarked, Stay
<1>0. TypeOK /\ g \in Procs
  BY ConstantTypes DEF Inductive
<1>1. CASE ReadSchedule(g)
  BY <1>1, QuietMove DEF ReadSchedule
<1>2. CASE CancelIfNotStarted(g)
  <2>1. CASE state = "scheduled" /\ Fire(run[g].claim, "user_cancel")
    <3>1. state' = "cancelled"
      BY <2>1 DEF Fire, To, Moves
    <3> QED
      BY <1>2, <2>1, <3>1 DEF CancelIfNotStarted, Quiet, Fire, Open
  <2>2. CASE Stay
    BY <1>2, <2>2, QuietMove DEF CancelIfNotStarted
  <2> QED
    BY <1>2, <2>1, <2>2 DEF CancelIfNotStarted
<1>3. CASE EvaluateRelease(g)
  BY <1>3, QuietMove DEF EvaluateRelease
<1>4. CASE Hold(g)
  BY <1>0, <1>4, MarkAway, QuietMove DEF Hold, Opening
<1>5. CASE ReleaseClaimAndCancel(g)
  <2>1. CASE state = "dispatching" /\ state' = "cancelled" /\ fence \notin opened
    <3>1. ASSUME ~trespassed' PROVE sent \subseteq cleared'
      BY <1>5, <2>1, <3>1
         DEF ReleaseClaimAndCancel, Inductive, SettledBeforeRelease, Unsettled
    <3> QED
      BY <1>5, <2>1, <3>1 DEF ReleaseClaimAndCancel, Quiet
  <2>2. CASE Stay
    BY <1>5, <2>2, QuietMove DEF ReleaseClaimAndCancel
  <2> QED
    BY <1>5, <2>1, <2>2 DEF ReleaseClaimAndCancel
<1>6. CASE PublishTimesOut(g)
  BY <1>6, QuietMove DEF PublishTimesOut
<1>7. CASE MarkFailed(g)
  <2>1. (IF state = "processing" THEN "poll_failed" ELSE "provider_rejected") \notin Opening
    BY DEF Opening
  <2> QED
    BY <1>0, <1>7, <2>1, MarkAway, QuietMove DEF MarkFailed
<1>8. CASE MarkProcessing(g)
  BY <1>0, <1>8, MarkAway, QuietMove DEF MarkProcessing, Opening
<1>9. CASE RetryAfterProvenNoEffect(g)
  <2> DEFINE f == run[g].claim
  <2>1. CASE Stay
    BY <1>9, <2>1, QuietMove DEF RetryAfterProvenNoEffect
  <2>2. CASE Fire(f, "release_policy_failed")
    <3>1. "release_policy_failed" \notin Opening
      BY DEF Opening
    <3> QED
      BY <1>0, <1>9, <2>2, <3>1, FireAway, QuietMove DEF RetryAfterProvenNoEffect
  <2>3. CASE f \notin sent /\ state = "dispatching" /\ Fire(f, "retryable_pre_send")
    <3>1. state' = "scheduled"
      BY <2>3 DEF Fire, To, Moves
    <3>2. ASSUME ~trespassed' PROVE sent \subseteq cleared'
      <4>1. f = fence /\ ~trespassed
        BY <2>3, <3>2 DEF Fire, Trespass
      <4>2. Unsettled \subseteq {fence}
        BY <2>3, <4>1 DEF Inductive, SettledBeforeRelease
      <4> QED
        BY <1>9, <2>3, <4>1, <4>2 DEF RetryAfterProvenNoEffect, Unsettled
    <3> QED
      BY <1>9, <2>3, <3>1, <3>2 DEF RetryAfterProvenNoEffect, Quiet, Fire
  <2> QED
    BY <1>9, <2>1, <2>2, <2>3 DEF RetryAfterProvenNoEffect
<1>10. CASE Poll(g)
  BY <1>10, QuietMove DEF Poll
<1> QED
  BY <1>1, <1>2, <1>3, <1>4, <1>5, <1>6, <1>7, <1>8, <1>9, <1>10 DEF Workflow

\* Of the steps of a provider call, all but the send are quiet.
LEMMA PublishOnceQuiet ==
  ASSUME Inductive, NEW f \in Claims, PublishOnce(f)
  PROVE  Quiet \/ PreSendFence(f)
<1> USE DEF ledgerVars, remoteVars, rowVars, historyVars, ClaimUnchanged,
            OnlyCall, Stay, CallGoes, Return
<1>0. TypeOK
  BY DEF Inductive
<1>1. ASSUME NEW pc, call[f] # "none", call' = [call EXCEPT ![f] = pc]
      PROVE  \A h \in Claims : call'[h] # "none" => call[h] # "none"
  BY <1>0, <1>1 DEF TypeOK
<1>2. CASE CallLoad(f)
  BY <1>1, <1>2 DEF CallLoad, Quiet
<1>3. CASE CallFailsBeforeSend(f)
  BY <1>1, <1>3 DEF CallFailsBeforeSend, Quiet
<1>4. CASE CallFindsHashMismatch(f)
  <2>1. \/ UNCHANGED state
        \/ state' \notin Open \cup {"dispatching"}
    <3>1. "release_policy_failed" \notin Opening
      BY DEF Opening
    <3> QED
      BY <1>0, <1>4, <3>1, FireAway DEF CallFindsHashMismatch
  <2>2. trespassed => trespassed'
    BY <1>4 DEF CallFindsHashMismatch, Fire
  <2> QED
    BY <1>1, <1>4, <2>1, <2>2 DEF CallFindsHashMismatch, Quiet
<1>5. CASE ProviderAnswers(f)
  BY <1>1, <1>5 DEF ProviderAnswers, Quiet
<1>6. CASE CallRecords(f)
  <2>1. call[f] # "none"
    BY <1>6 DEF CallRecords, Outcomes
  <2> QED
    BY <1>1, <1>6, <2>1 DEF CallRecords, Quiet
<1>7. CASE JobSettles(f)
  BY <1>7, QuietMove DEF JobSettles
<1> QED
  BY <1>2, <1>3, <1>4, <1>5, <1>6, <1>7 DEF PublishOnce

\* The sweeper and the commands are quiet: a person who releases or cancels a
\* held row, or confirms that nothing is on the account, settles every send.
LEMMA PersonQuiet ==
  ASSUME Inductive, Sweep \/ Person
  PROVE  Quiet
<1> USE DEF ledgerVars, remoteVars, rowVars, historyVars, eventVars,
            ClaimUnchanged, OnlyRow, Stay
<1>0. TypeOK
  BY DEF Inductive
<1>1. ASSUME NEW g, SweepRow(g) PROVE Quiet
  <2>1. "ambiguous_failure" \notin Opening
    BY DEF Opening
  <2> QED
    BY <1>0, <1>1, <2>1, FireAway, QuietMove DEF SweepRow
<1>2. CASE SweepNow
  BY <1>1, <1>2 DEF SweepNow
<1>3. CASE SweepFind
  BY <1>3, QuietMove DEF SweepFind
<1>4. CASE SweepApply
  BY <1>1, <1>4 DEF SweepApply
<1>5. CASE Cancel
  <2>1. CASE UNCHANGED <<state, cleared>>
    BY <1>5, <2>1, QuietMove DEF Cancel
  <2>2. CASE /\ state' \in To(state, IF state = "held" THEN "hold_resolved_cancel"
                                                       ELSE "user_cancel")
             /\ cleared' = IF state = "held" THEN cleared \cup sent ELSE cleared
    <3>1. state' = "cancelled" /\ state \in {"scheduled", "held"}
      BY <2>2 DEF To, Moves
    <3> QED
      BY <1>5, <2>2, <3>1 DEF Cancel, Quiet, Open
  <2> QED
    BY <1>5, <2>1, <2>2 DEF Cancel
<1>6. CASE Release
  <2>1. CASE state = "held" /\ cleared' = cleared \cup sent
    <3>1. state' = "scheduled"
      BY <1>6, <2>1, ToEntries DEF Release, To, Moves
    <3> QED
      BY <1>6, <2>1, <3>1 DEF Release, Quiet
  <2>2. CASE /\ state = "retry_eligible" /\ UNCHANGED cleared
             /\ state' \in To(state, "reschedule")
    <3>1. state' = "scheduled"
      BY <2>2 DEF To, Moves
    <3> QED
      BY <1>6, <2>2, <3>1 DEF Release, Quiet, Open
  <2> QED
    BY <1>6, <2>1, <2>2 DEF Release
<1>7. CASE RevokeDependency
  <2>1. state' = "held"
    BY <1>7 DEF RevokeDependency, To, Moves
  <2> QED
    BY <1>7, <2>1, QuietMove DEF RevokeDependency, Open
<1>8. CASE ConfirmPublished
  <2>1. state' = "published"
    BY <1>8 DEF ConfirmPublished, To, Moves
  <2> QED
    BY <1>8, <2>1, QuietMove DEF ConfirmPublished, Open
<1>9. CASE ConfirmAbsent
  <2>1. state' = "retry_eligible"
    BY <1>9 DEF ConfirmAbsent, To, Moves
  <2> QED
    BY <1>9, <2>1 DEF ConfirmAbsent, Quiet
<1>10. CASE HoldRestored
  <2>1. state' \notin Open \cup {"dispatching"}
    BY <1>10 DEF HoldRestored, To, Moves, Open
  <2> QED
    BY <1>10, <2>1 DEF HoldRestored, Quiet
<1> QED
  BY <1>2, <1>3, <1>4, <1>5, <1>6, <1>7, <1>8, <1>9, <1>10 DEF Sweep, Person

-----------------------------------------------------------------------------
(* The theorems *)

\* Every step keeps the inductive invariant: the quiet ones by QuietInductive,
\* and the claim, the opening of an attempt and the send each on its own.
LEMMA InductiveStep == Inductive /\ [Next]_vars => Inductive'
<1> SUFFICES ASSUME Inductive, [Next]_vars PROVE Inductive'
  OBVIOUS
<1> USE DEF rowVars, ledgerVars, eventVars, historyVars, limitVars, budgetVars,
            remoteVars, Stay
<1>0. TypeOK /\ (state = "dispatching" => fence \in Claims)
  BY DEF Inductive
<1>t. TypeOK'
  <2>1. CASE UNCHANGED vars
    BY <1>0, <2>1 DEF vars, TypeOK
  <2>2. CASE Next
    BY <1>0, <2>2, WorkflowTypeOK, OtherTypeOK DEF Next
  <2> QED
    BY <2>1, <2>2
<1>1. CASE Quiet
  BY <1>1, <1>t, QuietInductive
<1>2. ASSUME NEW g \in Gens, ClaimForDispatch(g) PROVE Inductive'
  <2>1. CASE UNCHANGED <<state, trespassed, fence>>
    BY <1>2, <2>1, <1>t, QuietMove, QuietInductive DEF ClaimForDispatch
  <2>2. CASE /\ state = "scheduled" /\ fence < MaxFence
             /\ Fire(run[g].claim, "claim") /\ fence' = fence + 1
    <3>1. state' = "dispatching" /\ (trespassed => trespassed')
      <4>1. state' \in To("scheduled", "claim") /\ (trespassed => trespassed')
        BY <2>2 DEF Fire
      <4>2. \A t \in To("scheduled", "claim") : t = "dispatching"
        BY DEF To, Moves
      <4> QED
        BY <4>1, <4>2
    <3>2. fence' \in Claims
      BY <1>0, <2>2, ConstantTypes DEF TypeOK, Claims
    <3>3. ~trespassed' => Unsettled' = {}
      BY <1>2, <2>2, <3>1
         DEF ClaimForDispatch, Inductive, SettledBeforeRelease, Unsettled
    <3>4. SettledBeforeRelease'
      BY <3>1, <3>3 DEF SettledBeforeRelease
    <3> QED
      BY <1>2, <1>t, <3>2, <3>4 DEF ClaimForDispatch, Inductive
  <2> QED
    BY <1>2, <2>1, <2>2 DEF ClaimForDispatch
<1>3. ASSUME NEW g \in Gens, OpenAttempt(g) PROVE Inductive'
  <2>1. sent' \subseteq opened' /\ UNCHANGED <<state, fence, sent, cleared, trespassed>>
    BY <1>3 DEF OpenAttempt, Inductive
  <2>2. \A f \in Claims : call'[f] # "none" => f \in opened'
    BY <1>0, <1>3 DEF OpenAttempt, Inductive, TypeOK
  <2>3. SettledBeforeRelease'
    BY <2>1 DEF Inductive, SettledBeforeRelease, Unsettled
  <2> QED
    BY <1>0, <1>t, <2>1, <2>2, <2>3 DEF Inductive
<1>4. ASSUME NEW f \in Claims, PreSendFence(f) PROVE Inductive'
  <2>1. UNCHANGED <<state, fence, opened, cleared, trespassed>>
    BY <1>4 DEF PreSendFence
  <2>2. \A h \in Claims : call'[h] # "none" => h \in opened'
    BY <1>0, <1>4 DEF PreSendFence, CallGoes, Inductive, TypeOK
  <2>3. sent' \subseteq opened'
    BY <1>4 DEF PreSendFence, Inductive
  <2>4. SettledBeforeRelease'
    BY <1>4, <2>1
       DEF PreSendFence, InForce, Inductive, SettledBeforeRelease, Unsettled
  <2> QED
    BY <1>0, <1>t, <2>1, <2>2, <2>3, <2>4 DEF Inductive
<1>5. ASSUME NEW p, \/ p \in Procs /\ RunDies(p)
                    \/ p \in Gens /\ (DeliverStart(p) \/ DeliverCancel(p))
                    \/ p \in Claims /\ DeliverReconcile(p)
      PROVE  Inductive'
  BY <1>5, <1>t, QuietMove, QuietInductive
     DEF RunDies, DeliverStart, DeliverCancel, DeliverReconcile
<1>6. CASE UNCHANGED vars
  BY <1>6, <1>t, QuietMove, QuietInductive DEF vars
<1>7. CASE Next
  BY <1>1, <1>2, <1>3, <1>4, <1>5, <1>7, WorkflowQuiet, ReconcileQuiet,
     PublishOnceQuiet, PersonQuiet
     DEF Next
<1> QED
  BY <1>6, <1>7

\* A new publication has no claim and no send.
LEMMA InductiveInit == Init => Inductive
BY InitTypeOK DEF Init, Inductive, SettledBeforeRelease, Unsettled

\* The inductive invariant holds in every reachable state, for every number of
\* generations, claims, faults and commands.
THEOREM Invariance == Spec => []Inductive
BY InductiveInit, InductiveStep, PTL DEF Spec

\* Rows, ledger, executions and events stay well typed.
THEOREM TypeCorrect == Spec => []TypeOK
<1>1. Inductive => TypeOK
  BY DEF Inductive
<1> QED
  BY <1>1, Invariance, PTL

\* While no superseded workflow has moved the row, a row that can be dispatched
\* or released has no open send, and a claim in force no open send but its own.
THEOREM Settled == Spec => []SettledBeforeRelease
<1>1. Inductive => SettledBeforeRelease
  BY DEF Inductive
<1> QED
  BY <1>1, Invariance, PTL

\* A quiet step settles or disowns, or is a stutter, in the abstract ledger.
LEMMA QuietSettles ==
  ASSUME TypeOK, TypeOK', Quiet
  PROVE  Ledger!Settle
<1>1. \E known \in SUBSET sent : cleared' = cleared \cup known
  <2>1. cleared' = cleared \cup (cleared' \cap sent)
    BY DEF Quiet
  <2> QED
    BY <2>1
<1>2. trespassed' \in {trespassed, TRUE}
  BY DEF Quiet, TypeOK
<1>3. UNCHANGED sent
  BY DEF Quiet
<1> QED
  BY <1>1, <1>2, <1>3 DEF Ledger!Settle

\* Every step is one of SendLedger's: a send in force is its Send, because the
\* only send a claim may find open is its own, and all others are its Settle or
\* leave its variables alone.
LEMMA LedgerStep ==
  ASSUME Inductive, Inductive', [Next]_vars
  PROVE  [Ledger!Next]_<<sent, cleared, trespassed>>
<1> USE DEF rowVars, ledgerVars, eventVars, historyVars, limitVars, budgetVars,
            remoteVars, Stay
<1>0. TypeOK /\ TypeOK'
  BY DEF Inductive
<1>1. CASE Quiet
  BY <1>0, <1>1, QuietSettles DEF Ledger!Next
<1>2. ASSUME NEW g \in Gens, ClaimForDispatch(g)
      PROVE  Ledger!Settle
  <2>1. UNCHANGED <<sent, cleared>> /\ trespassed' \in {trespassed, TRUE}
    BY <1>0, <1>2 DEF ClaimForDispatch, Fire, TypeOK
  <2>2. cleared' = cleared \cup {} /\ {} \in SUBSET sent
    BY <2>1
  <2> QED
    BY <2>1, <2>2 DEF Ledger!Settle
<1>3. ASSUME NEW g \in Gens, OpenAttempt(g)
      PROVE  UNCHANGED <<sent, cleared, trespassed>>
  BY <1>3 DEF OpenAttempt
<1>4. ASSUME NEW f \in Claims, PreSendFence(f)
      PROVE  Ledger!Send(f) \/ UNCHANGED <<sent, cleared, trespassed>>
  <2>1. CASE InForce(f) /\ f \notin sent
    <3>1. trespassed \/ sent \subseteq cleared
      BY <2>1 DEF InForce, Inductive, SettledBeforeRelease, Unsettled
    <3> QED
      BY <1>4, <2>1, <3>1 DEF PreSendFence, Ledger!Send
  <2>2. CASE ~InForce(f) \/ f \in sent
    BY <1>4, <2>2 DEF PreSendFence
  <2> QED
    BY <2>1, <2>2
<1>5. ASSUME NEW p, \/ p \in Procs /\ RunDies(p)
                    \/ p \in Gens /\ (DeliverStart(p) \/ DeliverCancel(p))
                    \/ p \in Claims /\ DeliverReconcile(p)
      PROVE  UNCHANGED <<sent, cleared, trespassed>>
  BY <1>5 DEF RunDies, DeliverStart, DeliverCancel, DeliverReconcile
<1>6. CASE UNCHANGED vars
  BY <1>6 DEF vars
<1>7. CASE Next
  BY <1>1, <1>2, <1>3, <1>4, <1>5, <1>7, WorkflowQuiet, ReconcileQuiet,
     PublishOnceQuiet, PersonQuiet
     DEF Next, Ledger!Next
<1> QED
  BY <1>6, <1>7

\* The attempt ledger implements SendLedger: no send leaves while an earlier one
\* is neither proven without effect nor judged by a person.
THEOREM LedgerImplemented == Spec => LedgerRefined
<1>1. Init => Ledger!Init
  BY DEF Init, Ledger!Init
<1>2. Inductive /\ Inductive' /\ [Next]_vars
        => [Ledger!Next]_<<sent, cleared, trespassed>>
  BY LedgerStep
<1> QED
  BY <1>1, <1>2, Invariance, PTL
     DEF Spec, LedgerRefined, Ledger!Spec, Ledger!vars

-----------------------------------------------------------------------------
(* What a step does to an execution *)

\* Where a workflow goes before it has an attempt, and where any execution may
\* go: neither has learnt anything of a post.
Early == {"wait", "claim", "deny", "allowed"}
Dull == {"completed", "failed", "unknown"}
Flying == {"dispatching", "processing"}

\* The result publishOnce returns for claim f: what the ledger has of it, what
\* the call itself has to record, or unknown.
Answered(f, res) ==
  \/ res = "unknown"
  \/ /\ call[f] = "load" /\ fence = f /\ outcome[f] = res /\ res # "unset"
     /\ outcome' = outcome
  \/ call[f] = res /\ res \in Outcomes /\ RecordOutcome(f, res)

Still(p) == run'[p].pc = run[p].pc /\ run'[p].claim = run[p].claim

\* Everything that can happen to execution p in one step.
RunStep(p) ==
  \/ Still(p)
  \/ /\ p \in Gens /\ run'[p].pc \in Early
     /\ run'[p].claim = 0 \/ (Running(p) /\ run'[p].claim = run[p].claim)
  \/ /\ Running(p) /\ run'[p].pc \in Dull
     /\ run'[p].claim = IF run'[p].pc \in EndPcs THEN 0 ELSE run[p].claim
  \/ /\ p \in Gens /\ Running(p) /\ run'[p].pc = "await"
     /\ run'[p].claim = run[p].claim /\ run[p].claim \in Claims
  \/ /\ p \in Gens /\ ClaimForDispatch(p)
     /\ run'[p].pc = "evaluate" /\ run'[p].claim = fence' /\ state' = "dispatching"
  \/ /\ state \in Flying /\ state' \notin Flying /\ p = Rec(fence)
     /\ run'[p].pc = "requested" /\ run'[p].claim = AttemptOf(fence)
  \/ /\ At(p, "await") /\ run'[p].claim = run[p].claim /\ run[p].claim \in Claims
     /\ Answered(run[p].claim, run'[p].pc)
  \/ /\ p \in Gens /\ At(p, "pending") /\ run'[p].pc = "poll"
     /\ run'[p].claim = run[p].claim
  \/ /\ p \in Gens /\ Poll(p) /\ run'[p].claim = run[p].claim
  \/ /\ At(p, "unknown") /\ run'[p].pc = "look" /\ run'[p].claim = run[p].claim
     /\ state' = "outcome_unknown"
  \/ FindRemotePost(p) /\ run'[p].claim = run[p].claim

LEMMA ReplyRun ==
  ASSUME TypeOK, NEW p \in Procs, NEW pc, NEW c, ReplyWith(p, pc, c)
  PROVE  /\ \A q \in Procs : q # p => run'[q] = run[q]
         /\ \/ run'[p] = run[p]
            \/ run'[p].pc = pc /\ run'[p].claim = IF pc \in EndPcs THEN 0 ELSE c
<1>1. run[p] \in Execution
  BY DEF TypeOK
<1>2. CASE UNCHANGED run
  BY <1>2
<1>3. CASE run' = [run EXCEPT ![p] = Ended(p, pc)] /\ pc \in EndPcs
  BY <1>3 DEF TypeOK, Ended, Idle
<1>4. CASE run' = [run EXCEPT ![p] = [run[p] EXCEPT !.pc = pc, !.claim = c]] /\ pc \notin EndPcs
  BY <1>1, <1>4 DEF TypeOK, Execution
<1> QED
  BY <1>2, <1>3, <1>4 DEF ReplyWith

LEMMA RefusedRun ==
  ASSUME TypeOK, NEW p \in Procs, Refused(p)
  PROVE  /\ \A q \in Procs : q # p => run'[q] = run[q]
         /\ run'[p].pc = "failed" /\ run'[p].claim = 0
BY DEF TypeOK, Refused, Ended, Idle

\* A reply that leads to such a place, or a refusal.
LEMMA DullReply ==
  ASSUME TypeOK, NEW p \in Procs, Running(p),
         \/ \E pc \in Dull : Reply(p, pc)
         \/ p \in Gens /\ \E pc \in Early : Reply(p, pc)
         \/ Refused(p)
  PROVE  \A q \in Procs : RunStep(q)
<1>1. CASE \E pc \in Dull : Reply(p, pc)
  <2>1. PICK pc \in Dull : Reply(p, pc)
    BY <1>1
  <2>2. /\ \A q \in Procs : q # p => run'[q] = run[q]
        /\ \/ run'[p] = run[p]
           \/ run'[p].pc = pc /\ run'[p].claim = IF pc \in EndPcs THEN 0 ELSE run[p].claim
    BY <2>1, ReplyRun DEF Reply
  <2> QED
    BY <2>1, <2>2 DEF RunStep, Still
<1>2. CASE p \in Gens /\ \E pc \in Early : Reply(p, pc)
  <2>1. PICK pc \in Early : Reply(p, pc)
    BY <1>2
  <2>2. /\ \A q \in Procs : q # p => run'[q] = run[q]
        /\ run'[p] = run[p] \/ (run'[p].pc = pc /\ run'[p].claim = run[p].claim)
    BY <2>1, ReplyRun DEF Reply, Early, EndPcs
  <2> QED
    BY <1>2, <2>1, <2>2 DEF RunStep, Still
<1>3. CASE Refused(p)
  <2>1. /\ \A q \in Procs : q # p => run'[q] = run[q]
        /\ run'[p].pc = "failed" /\ run'[p].claim = 0
    BY <1>3, RefusedRun
  <2> QED
    BY <2>1 DEF RunStep, Still, Dull, EndPcs
<1> QED
  BY <1>1, <1>2, <1>3

LEMMA DullMark ==
  ASSUME TypeOK, NEW p \in Procs, Running(p), NEW settled, NEW e,
         NEW pc \in Dull, Mark(p, settled, e, pc)
  PROVE  \A q \in Procs : RunStep(q)
BY DullReply DEF Mark

LEMMA WorkflowRun ==
  ASSUME TypeOK, state \in Flying => fence \in Claims, NEW g \in Gens, Workflow(g)
  PROVE  \A p \in Procs : RunStep(p)
<1>0. g \in Procs /\ run[g] \in Execution
  BY ConstantTypes DEF TypeOK
<1>p. Running(g)
  BY DEF Workflow, ReadSchedule, CancelIfNotStarted, ClaimForDispatch, EvaluateRelease, Hold,
     ReleaseClaimAndCancel, OpenAttempt, PublishTimesOut, MarkFailed, MarkProcessing,
     RetryAfterProvenNoEffect, Poll, At, Running, EndPcs
<1>d. "completed" \in Dull /\ "failed" \in Dull /\ "unknown" \in Dull
      /\ "wait" \in Early /\ "claim" \in Early /\ "deny" \in Early /\ "allowed" \in Early
  BY DEF Dull, Early
<1>r. ASSUME NEW pc, run' = [run EXCEPT ![g].pc = pc]
      PROVE  /\ run'[g].pc = pc /\ run'[g].claim = run[g].claim
             /\ \A q \in Procs : q # g => run'[q] = run[q]
  BY <1>0, <1>r DEF TypeOK, Execution
<1>1. CASE ReadSchedule(g)
  <2>1. CASE run' = [run EXCEPT ![g] = [run[g] EXCEPT !.pc = "claim"]]
    <3>1. run' = [run EXCEPT ![g].pc = "claim"]
      BY <2>1
    <3> QED
      BY <1>p, <1>d, <1>r, <3>1 DEF RunStep, Still
  <2>2. CASE run' = [run EXCEPT ![g] = Ended(g, "completed")]
    BY <1>0, <1>p, <2>2 DEF RunStep, Still, Dull, EndPcs, Ended, Idle, TypeOK
  <2> QED
    BY <1>1, <2>1, <2>2 DEF ReadSchedule
<1>2. CASE CancelIfNotStarted(g)
  BY <1>0, <1>p, <1>d, <1>2, DullReply DEF CancelIfNotStarted
<1>3. CASE ClaimForDispatch(g)
  <2>1. CASE ReplyWith(g, "evaluate", fence) /\ state = "dispatching" /\ UNCHANGED <<state, fence>>
    <3>1. /\ \A q \in Procs : q # g => run'[q] = run[q]
          /\ run'[g] = run[g] \/ (run'[g].pc = "evaluate" /\ run'[g].claim = fence')
      BY <1>0, <2>1, ReplyRun DEF EndPcs
    <3> QED
      BY <1>3, <2>1, <3>1 DEF RunStep, Still
  <2>2. CASE /\ state = "scheduled" /\ Fire(run[g].claim, "claim") /\ fence' = fence + 1
             /\ ReplyWith(g, "evaluate", fence + 1)
    <3>1. /\ \A q \in Procs : q # g => run'[q] = run[q]
          /\ run'[g] = run[g] \/ (run'[g].pc = "evaluate" /\ run'[g].claim = fence')
      BY <1>0, <2>2, ReplyRun DEF EndPcs
    <3>2. state' = "dispatching"
      BY <2>2 DEF Fire, To, Moves
    <3> QED
      BY <1>3, <3>1, <3>2 DEF RunStep, Still
  <2>3. CASE Reply(g, "completed")
    BY <1>0, <1>p, <1>d, <2>3, DullReply
  <2> QED
    BY <1>3, <2>1, <2>2, <2>3 DEF ClaimForDispatch, Stay
<1>4. CASE EvaluateRelease(g)
  BY <1>0, <1>p, <1>d, <1>4, DullReply DEF EvaluateRelease
<1>5. CASE Hold(g)
  BY <1>0, <1>p, <1>d, <1>5, DullMark DEF Hold
<1>6. CASE ReleaseClaimAndCancel(g)
  BY <1>0, <1>p, <1>d, <1>6, DullReply DEF ReleaseClaimAndCancel
<1>7. CASE OpenAttempt(g)
  <2>1. CASE UNCHANGED run
    BY <2>1 DEF RunStep, Still
  <2>2. CASE run' = [run EXCEPT ![g].pc = "await"]
            /\ fence = run[g].claim /\ (fence \in opened \/ state = "dispatching")
    <3>1. run[g].claim \in Claims
      BY <2>2 DEF TypeOK, Flying
    <3> QED
      BY <1>p, <1>r, <2>2, <3>1 DEF RunStep, Still
  <2>3. CASE Refused(g)
    BY <1>0, <1>p, <2>3, DullReply
  <2> QED
    BY <1>7, <2>1, <2>2, <2>3 DEF OpenAttempt
<1>8. CASE PublishTimesOut(g)
  BY <1>8, <1>p, <1>d, <1>r DEF PublishTimesOut, RunStep, Still, EndPcs
<1>9. CASE MarkFailed(g)
  BY <1>0, <1>p, <1>d, <1>9, DullMark DEF MarkFailed
<1>10. CASE MarkProcessing(g)
  <2>1. CASE Reply(g, "poll")
    <3>1. /\ \A q \in Procs : q # g => run'[q] = run[q]
          /\ run'[g] = run[g] \/ (run'[g].pc = "poll" /\ run'[g].claim = run[g].claim)
      BY <1>0, <2>1, ReplyRun DEF EndPcs, Reply
    <3> QED
      BY <1>10, <3>1 DEF MarkProcessing, RunStep, Still
  <2>2. CASE Refused(g)
    BY <1>0, <1>p, <2>2, DullReply
  <2> QED
    BY <1>10, <2>1, <2>2 DEF MarkProcessing, Mark
<1>11. CASE RetryAfterProvenNoEffect(g)
  BY <1>0, <1>p, <1>d, <1>11, DullReply DEF RetryAfterProvenNoEffect
<1>12. CASE Poll(g)
  BY <1>12, <1>r DEF Poll, RunStep, Still
<1> QED
  BY <1>1, <1>2, <1>3, <1>4, <1>5, <1>6, <1>7, <1>8, <1>9, <1>10, <1>11, <1>12
     DEF Workflow

LEMMA ReconcileRun ==
  ASSUME TypeOK, NEW p \in Procs, Reconcile(p)
  PROVE  \A q \in Procs : RunStep(q)
<1>p. Running(p)
  BY DEF Reconcile, MarkPublished, MarkOutcomeUnknown, FindRemotePost, MarkRetryEligible,
     HoldForHuman, At, Running, EndPcs
<1>1. CASE MarkPublished(p)
  BY <1>1, <1>p, DullMark DEF MarkPublished, Dull
<1>2. CASE MarkOutcomeUnknown(p)
  <2>1. CASE Reply(p, "look") /\ state' = "outcome_unknown"
    <3>1. /\ \A q \in Procs : q # p => run'[q] = run[q]
          /\ run'[p] = run[p] \/ (run'[p].pc = "look" /\ run'[p].claim = run[p].claim)
      BY <2>1, ReplyRun DEF EndPcs, Reply
    <3> QED
      BY <1>2, <2>1, <3>1 DEF MarkOutcomeUnknown, RunStep, Still
  <2>2. CASE Refused(p)
    BY <1>p, <2>2, DullReply
  <2>3. ASSUME Fire(Own(p), UnknownEvent)
        PROVE  state' = "outcome_unknown"
    <3>1. \A t \in To(state, UnknownEvent) : t = "outcome_unknown"
      BY DEF To, Moves, UnknownEvent
    <3> QED
      BY <2>3, <3>1 DEF Fire
  <2> QED
    BY <1>2, <2>1, <2>2, <2>3 DEF MarkOutcomeUnknown, Mark, Stay
<1>3. CASE FindRemotePost(p)
  <2>1. PICK answer : run' = [run EXCEPT ![p].pc = answer]
    BY <1>3 DEF FindRemotePost
  <2>2. run'[p].claim = run[p].claim /\ \A q \in Procs : q # p => run'[q] = run[q]
    BY <2>1 DEF TypeOK, Execution
  <2> QED
    BY <1>3, <2>2 DEF RunStep, Still
<1>4. CASE MarkRetryEligible(p)
  BY <1>4, <1>p, DullMark DEF MarkRetryEligible, Dull
<1>5. CASE HoldForHuman(p)
  BY <1>5, <1>p, DullMark DEF HoldForHuman, Dull
<1> QED
  BY <1>1, <1>2, <1>3, <1>4, <1>5 DEF Reconcile

\* publishOnce returns to the executions that wait for it.
LEMMA ReturnRun ==
  ASSUME TypeOK, NEW f \in Claims, NEW res, Return(f, res), Answered(f, res)
  PROVE  \A p \in Procs : RunStep(p)
<1> SUFFICES ASSUME NEW p \in Procs PROVE RunStep(p)
  OBVIOUS
<1>1. CASE At(p, "await") /\ run[p].claim = f
  <2>1. run'[p].pc = res /\ run'[p].claim = run[p].claim
    BY <1>1 DEF Return, TypeOK, Execution
  <2> QED
    BY <1>1, <2>1 DEF RunStep
<1>2. CASE ~(At(p, "await") /\ run[p].claim = f)
  BY <1>2 DEF Return, RunStep, Still
<1> QED
  BY <1>1, <1>2

LEMMA PublishOnceRun ==
  ASSUME TypeOK, NEW f \in Claims, PublishOnce(f)
  PROVE  \A p \in Procs : RunStep(p)
<1>1. CASE UNCHANGED run
  BY <1>1 DEF RunStep, Still
<1>2. CASE CallLoad(f)
  BY <1>1, <1>2, ReturnRun DEF CallLoad, OnlyCall, Answered
<1>3. CASE CallFailsBeforeSend(f)
  BY <1>1, <1>3, ReturnRun DEF CallFailsBeforeSend, OnlyCall, Answered
<1>4. CASE CallRecords(f)
  BY <1>4, ReturnRun DEF CallRecords, Answered
<1> QED
  BY <1>1, <1>2, <1>3, <1>4 DEF PublishOnce, CallFindsHashMismatch, PreSendFence,
     ProviderAnswers, JobSettles

LEMMA ClaimToRec ==
  /\ \A f \in Claims : Rec(f) \in Procs /\ Rec(f) \notin Gens /\ Own(Rec(f)) = f
  /\ \A p \in Procs : p \in Gens \/ \E f \in Claims : p = Rec(f)
  /\ \A f, h \in Claims : Rec(f) = Rec(h) => f = h
<1>1. MaxGen \in Nat /\ MaxFence \in Nat
  BY ConstantTypes
<1>2. ASSUME NEW f \in Claims
      PROVE  Rec(f) \in Procs /\ Rec(f) \notin Gens /\ Own(Rec(f)) = f
  BY <1>1 DEF Claims, Rec, Procs, Gens, Own
<1>3. ASSUME NEW p \in Procs, p \notin Gens
      PROVE  \E f \in Claims : p = Rec(f)
  <2>1. p - MaxGen \in Claims /\ p = Rec(p - MaxGen)
    BY <1>1, <1>3 DEF Claims, Rec, Procs, Gens
  <2> QED
    BY <2>1
<1>4. \A f, h \in Claims : Rec(f) = Rec(h) => f = h
  BY <1>1 DEF Claims, Rec
<1> QED
  BY <1>2, <1>3, <1>4

\* A reconciliation is asked for when the row is taken out of flight.
LEMMA RequestRun ==
  ASSUME TypeOK, state \in Flying, state' \notin Flying, fence \in Claims,
         RequestReconcile(fence, AttemptOf(fence))
  PROVE  \A p \in Procs : RunStep(p)
<1>1. Rec(fence) \in Procs
  BY ClaimToRec
<1>2. /\ run'[Rec(fence)].pc = "requested" /\ run'[Rec(fence)].claim = AttemptOf(fence)
      /\ \A q \in Procs : q # Rec(fence) => run'[q] = run[q]
  BY <1>1 DEF RequestReconcile, TypeOK, Idle
<1> QED
  BY <1>2 DEF RunStep, Still

LEMMA OutsideRun ==
  ASSUME TypeOK, state \in Flying => fence \in Claims,
         \/ Sweep \/ Person
         \/ \E p \in Procs : RunDies(p)
         \/ \E g \in Gens : DeliverStart(g) \/ DeliverCancel(g)
         \/ \E f \in Claims : DeliverReconcile(f)
  PROVE  \A p \in Procs : RunStep(p)
<1>1. CASE UNCHANGED run
  BY <1>1 DEF RunStep, Still
<1>2. ASSUME NEW p \in Procs, RunDies(p) PROVE \A q \in Procs : RunStep(q)
  <2>1. Running(p) /\ run' = [run EXCEPT ![p] = Ended(p, "failed")]
    BY <1>2 DEF RunDies
  <2>2. /\ \A q \in Procs : q # p => run'[q] = run[q]
        /\ run'[p].pc = "failed" /\ run'[p].claim = 0
    BY <2>1 DEF TypeOK, Ended, Idle
  <2> QED
    BY <2>1, <2>2 DEF RunStep, Still, Dull, EndPcs
<1>3. ASSUME NEW g \in Gens, DeliverStart(g) PROVE \A q \in Procs : RunStep(q)
  <2>1. CASE run' = [run EXCEPT ![g] = [Idle EXCEPT !.pc = "wait", !.n = run[g].n + 1]]
    <3>1. /\ \A q \in Procs : q # g => run'[q] = run[q]
          /\ run'[g].pc = "wait" /\ run'[g].claim = 0
      BY <2>1, ConstantTypes DEF TypeOK, Idle
    <3> QED
      BY <1>3, <3>1 DEF RunStep, Still, Early
  <2> QED
    BY <1>1, <1>3, <2>1 DEF DeliverStart
<1>4. ASSUME NEW g \in Gens, DeliverCancel(g) PROVE \A q \in Procs : RunStep(q)
  <2>1. CASE run' = [run EXCEPT ![g].cancel = TRUE]
    <3>1. \A q \in Procs : Still(q)
      BY <2>1 DEF TypeOK, Execution, Still
    <3> QED
      BY <3>1 DEF RunStep
  <2> QED
    BY <1>1, <1>4, <2>1 DEF DeliverCancel
<1>5. ASSUME NEW f \in Claims, DeliverReconcile(f) PROVE \A q \in Procs : RunStep(q)
  <2>1. Rec(f) \in Procs /\ Running(Rec(f))
    BY <1>5, ClaimToRec DEF DeliverReconcile, At, Running, EndPcs
  <2>2. /\ \A q \in Procs : q # Rec(f) => run'[q] = run[q]
        /\ run'[Rec(f)].pc = "unknown" /\ run'[Rec(f)].claim = run[Rec(f)].claim
    BY <1>5, <2>1 DEF DeliverReconcile, TypeOK, Execution
  <2> QED
    BY <2>1, <2>2 DEF RunStep, Still, Dull, EndPcs
<1>6. ASSUME NEW g, SweepRow(g) PROVE \A q \in Procs : RunStep(q)
  <2>1. CASE /\ state = "dispatching" /\ Fire(fence, "ambiguous_failure")
             /\ RequestReconcile(fence, AttemptOf(fence))
    <3>1. state' = "outcome_unknown"
      BY <2>1 DEF Fire, To, Moves
    <3> QED
      BY <2>1, <3>1, RequestRun DEF Flying
  <2> QED
    BY <1>1, <1>6, <2>1 DEF SweepRow
<1>7. CASE HoldRestored
  <2>1. CASE /\ state \in Flying /\ RequestReconcile(fence, AttemptOf(fence))
             /\ state' \in To(state, IF state = "processing" THEN "poll_unknown"
                                                     ELSE "ambiguous_failure")
    <3>1. state' = "outcome_unknown"
      BY <2>1 DEF To, Moves, Flying
    <3> QED
      BY <2>1, <3>1, RequestRun DEF Flying
  <2> QED
    BY <1>1, <1>7, <2>1 DEF HoldRestored, Flying
<1> QED
  BY <1>1, <1>2, <1>3, <1>4, <1>5, <1>6, <1>7 DEF Sweep, Person, SweepNow, SweepFind,
     SweepApply, Cancel, Release, RevokeDependency, ConfirmPublished, ConfirmAbsent, OnlyRow

LEMMA StepRun ==
  ASSUME TypeOK, state \in Flying => fence \in Claims, [Next]_vars
  PROVE  \A p \in Procs : RunStep(p)
<1>1. CASE UNCHANGED vars
  BY <1>1 DEF vars, RunStep, Still
<1> QED
  BY <1>1, WorkflowRun, ReconcileRun, PublishOnceRun, OutsideRun DEF Next

-----------------------------------------------------------------------------
(* What a step does to the row and to the outcomes *)

HasPost == \E f \in Claims : post[f] = "live"
InHand(f) == fence = f /\ state \in Flying

\* Claim f gets its outcome: unknown, with the row taken out of flight, or what
\* its own call has to record.
Outcomes1(f) ==
  \/ outcome'[f] = outcome[f]
  \/ /\ outcome[f] = "unset" /\ f \in opened
     /\ \/ outcome'[f] = "unknown" /\ state' \notin Flying
        \/ call[f] \in Outcomes /\ outcome'[f] = call[f] /\ call'[f] = "none"

RowStep ==
  /\ state' \in Flying =>
       \/ state \in Flying /\ fence' = fence
       \/ /\ state = "scheduled" /\ state' = "dispatching" /\ fence' = fence + 1
          /\ \E g \in Gens : ClaimForDispatch(g)
  /\ state' = "dispatching" => state \in {"dispatching", "scheduled"}
  /\ state' = "failed" => state = "failed" \/ \E g \in Gens : MarkFailed(g)
  /\ state' = "published" =>
       \/ state = "published" \/ HasPost
       \/ \E p \in Procs : run[p].pc \in {"accepted", "found"}
  /\ fence' \in {fence, fence + 1}
  /\ \A f \in Claims : Outcomes1(f)

\* The rows of the table that lead to the states in question.
LEMMA ToOutcomes ==
  ASSUME NEW s, NEW e, NEW t \in To(s, e)
  PROVE  /\ t = "failed" => s \in Flying /\ e \in {"provider_rejected", "poll_failed"}
         /\ t = "published" =>
              e \in {"provider_accepted", "poll_published", "reconcile_found"}
         /\ t = "processing" => s = "dispatching" /\ e = "provider_pending"
         /\ t = "dispatching" => s = "scheduled" /\ e = "claim"
BY DEF To, Moves, Flying

Telling == {"provider_rejected", "poll_failed", "provider_accepted", "poll_published",
            "reconcile_found", "provider_pending", "claim"}

\* A step that leaves the outcomes and the token alone and leads to none of the
\* states in question.
LEMMA CalmRow ==
  ASSUME TypeOK, UNCHANGED <<outcome, fence>>,
         \/ state' = state
         \/ state' \notin Flying \cup {"failed", "published"}
  PROVE  RowStep
BY DEF RowStep, Outcomes1, Flying

LEMMA CalmFire ==
  ASSUME NEW c, NEW e, e \notin Telling, Fire(c, e)
  PROVE  state' \notin Flying \cup {"failed", "published"}
BY ToOutcomes DEF Fire, Telling, Flying

\* A step that records `unknown` takes the row out of flight.
LEMMA DoubtRow ==
  ASSUME TypeOK, NEW f, RecordOutcome(f, "unknown"), fence' \in {fence, fence + 1},
         state' = "outcome_unknown"
  PROVE  RowStep
<1>1. \A h \in Claims : Outcomes1(h)
  BY DEF RecordOutcome, TypeOK, Outcomes1, Flying
<1> QED
  BY <1>1 DEF RowStep, Flying

LEMMA WorkflowRow ==
  ASSUME TypeOK, NEW g \in Gens, Workflow(g)
  PROVE  RowStep
<1> USE DEF rowVars, ledgerVars, Stay, ClaimUnchanged, OnlyMarked
<1>1. CASE UNCHANGED <<state, fence, outcome>>
  BY <1>1, CalmRow
<1>2. CASE CancelIfNotStarted(g)
  BY <1>1, <1>2, CalmRow, CalmFire DEF CancelIfNotStarted, Telling
<1>3. CASE ClaimForDispatch(g)
  <2>1. CASE /\ state = "scheduled" /\ Fire(run[g].claim, "claim") /\ fence' = fence + 1
    <3>1. state' = "dispatching"
      BY <2>1 DEF Fire, To, Moves
    <3>2. \A f \in Claims : Outcomes1(f)
      BY <1>3 DEF ClaimForDispatch, Outcomes1
    <3> QED
      BY <1>3, <2>1, <3>1, <3>2 DEF RowStep, Flying
  <2> QED
    BY <1>1, <1>3, <2>1 DEF ClaimForDispatch
<1>4. CASE Hold(g)
  BY <1>1, <1>4, CalmRow, CalmFire DEF Hold, Mark, Telling
<1>5. CASE ReleaseClaimAndCancel(g)
  BY <1>1, <1>5, CalmRow DEF ReleaseClaimAndCancel, Flying
<1>6. CASE MarkFailed(g)
  <2>1. CASE Fire(run[g].claim, IF state = "processing" THEN "poll_failed" ELSE "provider_rejected")
    <3>1. state' = "failed"
      BY <2>1 DEF Fire, To, Moves
    <3>2. \A f \in Claims : Outcomes1(f)
      BY <1>6 DEF MarkFailed, Outcomes1
    <3> QED
      BY <1>6, <3>1, <3>2 DEF MarkFailed, RowStep, Flying
  <2> QED
    BY <1>1, <1>6, <2>1 DEF MarkFailed, Mark, Own
<1>7. CASE MarkProcessing(g)
  <2>1. CASE Fire(Own(g), "provider_pending")
    <3>1. state = "dispatching" /\ state' = "processing"
      BY <2>1 DEF Fire, To, Moves
    <3>2. \A f \in Claims : Outcomes1(f)
      BY <1>7 DEF MarkProcessing, Outcomes1
    <3> QED
      BY <1>7, <3>1, <3>2 DEF MarkProcessing, RowStep, Flying
  <2> QED
    BY <1>1, <1>7, <2>1 DEF MarkProcessing, Mark
<1>8. CASE RetryAfterProvenNoEffect(g)
  BY <1>1, <1>8, CalmRow, CalmFire DEF RetryAfterProvenNoEffect, Telling
<1> QED
  BY <1>1, <1>2, <1>3, <1>4, <1>5, <1>6, <1>7, <1>8 DEF Workflow, ReadSchedule,
     EvaluateRelease, OpenAttempt, PublishTimesOut, Poll

LEMMA ReconcileRow ==
  ASSUME TypeOK, NEW p \in Procs, Reconcile(p)
  PROVE  RowStep
<1> USE DEF rowVars, ledgerVars, Stay, ClaimUnchanged, OnlyMarked
<1>1. CASE UNCHANGED <<state, fence, outcome>>
  BY <1>1, CalmRow
<1>2. CASE MarkPublished(p)
  <2>1. CASE Fire(Own(p), PublishedEvent)
    <3>1. state' = "published"
      BY <2>1 DEF Fire, To, Moves, PublishedEvent
    <3>2. \A f \in Claims : Outcomes1(f)
      BY <1>2 DEF MarkPublished, Outcomes1
    <3> QED
      BY <1>2, <3>1, <3>2 DEF MarkPublished, RowStep, Flying
  <2> QED
    BY <1>1, <1>2, <2>1 DEF MarkPublished, Mark
<1>3. CASE MarkOutcomeUnknown(p)
  <2>1. CASE state' = "outcome_unknown" /\ RecordOutcome(run[p].claim, "unknown")
    BY <1>3, <2>1, DoubtRow DEF MarkOutcomeUnknown
  <2>2. ASSUME Fire(Own(p), UnknownEvent)
        PROVE  state' = "outcome_unknown" /\ ~Illegal(state, UnknownEvent)
    <3>1. \A t \in To(state, UnknownEvent) : t = "outcome_unknown"
      BY DEF To, Moves, UnknownEvent
    <3> QED
      BY <2>2, <3>1 DEF Fire, Illegal
  <2> QED
    BY <1>1, <1>3, <2>1, <2>2 DEF MarkOutcomeUnknown, Mark
<1>4. CASE MarkRetryEligible(p)
  BY <1>1, <1>4, CalmRow, CalmFire DEF MarkRetryEligible, Mark, Telling
<1>5. CASE HoldForHuman(p)
  BY <1>1, <1>5, CalmRow, CalmFire DEF HoldForHuman, Mark, Telling
<1> QED
  BY <1>1, <1>2, <1>3, <1>4, <1>5 DEF Reconcile, FindRemotePost

LEMMA PublishOnceRow ==
  ASSUME TypeOK, NEW f \in Claims, PublishOnce(f)
  PROVE  RowStep
<1> USE DEF rowVars, ledgerVars, Stay, ClaimUnchanged, OnlyCall
<1>1. CASE UNCHANGED <<state, fence, outcome>>
  BY <1>1, CalmRow
<1>2. CASE CallFindsHashMismatch(f)
  BY <1>1, <1>2, CalmRow, CalmFire DEF CallFindsHashMismatch, Telling
<1>3. CASE CallRecords(f)
  <2>1. UNCHANGED <<state, fence>> /\ call'[f] = "none" /\ call[f] \in Outcomes
    BY <1>3 DEF CallRecords, Return, CallGoes, TypeOK
  <2>2. \A h \in Claims : Outcomes1(h)
    BY <1>3, <2>1 DEF CallRecords, RecordOutcome, Outcomes1, TypeOK
  <2> QED
    BY <2>1, <2>2 DEF RowStep, Flying
<1> QED
  BY <1>1, <1>2, <1>3 DEF PublishOnce, CallLoad, CallFailsBeforeSend, PreSendFence,
     ProviderAnswers, JobSettles, Return

LEMMA OutsideRow ==
  ASSUME TypeOK,
         \/ Sweep \/ Person
         \/ \E p \in Procs : RunDies(p)
         \/ \E g \in Gens : DeliverStart(g) \/ DeliverCancel(g)
         \/ \E f \in Claims : DeliverReconcile(f)
  PROVE  RowStep
<1> USE DEF rowVars, ledgerVars, Stay, ClaimUnchanged, OnlyRow
<1>1. CASE UNCHANGED <<state, fence, outcome>>
  BY <1>1, CalmRow
<1>2. ASSUME NEW g, SweepRow(g) PROVE RowStep
  <2>1. CASE Fire(fence, "ambiguous_failure") /\ RecordOutcome(fence, "unknown")
    <3>1. state' = "outcome_unknown"
      BY <2>1 DEF Fire, To, Moves
    <3> QED
      BY <1>2, <2>1, <3>1, DoubtRow DEF SweepRow
  <2> QED
    BY <1>1, <1>2, <2>1 DEF SweepRow
<1>3. CASE Cancel
  <2>1. CASE state' \in To(state, IF state = "held" THEN "hold_resolved_cancel"
                                                   ELSE "user_cancel")
    <3>1. state' = "cancelled"
      BY <2>1 DEF To, Moves
    <3> QED
      BY <1>3, <3>1, CalmRow DEF Cancel, Flying
  <2> QED
    BY <1>1, <1>3, <2>1 DEF Cancel
<1>4. CASE Release
  <2>1. state' = "scheduled"
    BY <1>4 DEF Release, To, Moves
  <2> QED
    BY <1>4, <2>1, CalmRow DEF Release, Flying
<1>5. CASE RevokeDependency
  <2>1. state' = "held"
    BY <1>5 DEF RevokeDependency, To, Moves
  <2> QED
    BY <1>5, <2>1, CalmRow DEF RevokeDependency, Flying
<1>6. CASE ConfirmPublished
  <2>1. state' = "published"
    BY <1>6 DEF ConfirmPublished, To, Moves
  <2>2. \A f \in Claims : Outcomes1(f)
    BY <1>6 DEF ConfirmPublished, Outcomes1
  <2> QED
    BY <1>6, <2>1, <2>2 DEF ConfirmPublished, RowStep, Flying, HasPost
<1>7. CASE ConfirmAbsent
  <2>1. state' = "retry_eligible"
    BY <1>7 DEF ConfirmAbsent, To, Moves
  <2> QED
    BY <1>7, <2>1, CalmRow DEF ConfirmAbsent, Flying
<1>8. CASE HoldRestored
  <2>0. fence' \in {fence, fence + 1}
    BY <1>8 DEF HoldRestored
  <2>1. CASE /\ state' \in To(state, IF state = "processing" THEN "poll_unknown"
                                                     ELSE "ambiguous_failure")
             /\ RecordOutcome(fence, "unknown")
    <3>1. state' = "outcome_unknown"
      BY <2>1 DEF To, Moves
    <3> QED
      BY <2>0, <2>1, <3>1, DoubtRow
  <2>2. CASE state' \in To(state, "restored_from_backup") /\ UNCHANGED outcome
    <3>1. state' = "held"
      BY <2>2 DEF To, Moves
    <3>2. \A f \in Claims : Outcomes1(f)
      BY <2>2 DEF Outcomes1
    <3> QED
      BY <2>0, <3>1, <3>2 DEF RowStep, Flying
  <2> QED
    BY <1>8, <2>1, <2>2 DEF HoldRestored
<1> QED
  BY <1>1, <1>2, <1>3, <1>4, <1>5, <1>6, <1>7, <1>8 DEF Sweep, Person, SweepNow, SweepFind,
     SweepApply, RunDies, DeliverStart, DeliverCancel, DeliverReconcile

LEMMA StepRow ==
  ASSUME TypeOK, [Next]_vars
  PROVE  RowStep
<1>1. CASE UNCHANGED vars
  BY <1>1, CalmRow DEF vars, rowVars, ledgerVars
<1> QED
  BY <1>1, WorkflowRow, ReconcileRow, PublishOnceRow, OutsideRow DEF Next

-----------------------------------------------------------------------------
(* What a step does to a provider call and its post *)

\* An attempt is opened for the claim in force.
OpenedStep ==
  /\ opened \subseteq opened'
  /\ \A f \in opened' \ opened : InForce(f) /\ state' = state

SamePost(f) == post'[f] = post[f] /\ (f \in sent' <=> f \in sent)

CallStep(f) ==
  \/ call'[f] = call[f] /\ SamePost(f)
  \/ call'[f] = "load" /\ fence = f /\ SamePost(f)
  \/ /\ call[f] = "load" /\ call'[f] \in {"none", "unknown", "send"} /\ SamePost(f)
     /\ call'[f] = "send" => f \notin sent
     /\ call'[f] # "none" => outcome[f] = "unset"
  \/ call[f] = "send" /\ call'[f] \in {"none", "retryable", "rejected"} /\ SamePost(f)
  \/ /\ call[f] = "send" /\ call'[f] = "out" /\ InForce(f) /\ f \in sent'
     /\ post'[f] = post[f]
  \/ /\ call[f] = "out" /\ call'[f] \in Outcomes /\ (f \in sent' <=> f \in sent)
     /\ call'[f] = "accepted" => post'[f] = "live"
     /\ call'[f] \in {"rejected", "retryable"} => post'[f] = "none"
  \/ call[f] \in Outcomes /\ call'[f] = "none" /\ SamePost(f)
  \/ /\ post[f] = "job" /\ post'[f] \in {"live", "none"}
     /\ call'[f] = call[f] /\ (f \in sent' <=> f \in sent)

LEMMA PublishOnceCall ==
  ASSUME TypeOK, NEW f \in Claims, PublishOnce(f)
  PROVE  \A h \in Claims : CallStep(h)
<1> USE DEF remoteVars, ledgerVars, OnlyCall, CallGoes
<1>1. CASE CallLoad(f)
  BY <1>1 DEF TypeOK, CallLoad, Return, CallStep, SamePost
<1>2. CASE CallFailsBeforeSend(f)
  BY <1>2 DEF TypeOK, CallFailsBeforeSend, Return, CallStep, SamePost
<1>3. CASE CallFindsHashMismatch(f)
  BY <1>3 DEF TypeOK, CallFindsHashMismatch, CallStep, SamePost
<1>4. CASE PreSendFence(f)
  <2>1. CASE InForce(f) /\ sent' = sent \cup {f} /\ call' = [call EXCEPT ![f] = "out"]
    BY <1>4, <2>1 DEF TypeOK, PreSendFence, CallStep, SamePost
  <2>2. CASE UNCHANGED sent /\ call' = [call EXCEPT ![f] = "retryable"]
    BY <1>4, <2>2 DEF TypeOK, PreSendFence, CallStep, SamePost
  <2> QED
    BY <1>4, <2>1, <2>2 DEF PreSendFence
<1>5. CASE ProviderAnswers(f)
  BY <1>5 DEF TypeOK, ProviderAnswers, CallStep, SamePost
<1>6. CASE CallRecords(f)
  BY <1>6 DEF TypeOK, CallRecords, Return, CallStep, SamePost
<1>7. CASE JobSettles(f)
  BY <1>7 DEF TypeOK, JobSettles, CallStep, SamePost
<1> QED
  BY <1>1, <1>2, <1>3, <1>4, <1>5, <1>6, <1>7 DEF PublishOnce

\* No other step touches a call or a post, but for the opening of the attempt.
LEMMA StepCall ==
  ASSUME TypeOK, [Next]_vars
  PROVE  OpenedStep /\ \A h \in Claims : CallStep(h)
<1> USE DEF remoteVars, ledgerVars, OnlyMarked, OnlyRow
<1>1. CASE UNCHANGED <<call, post, sent, opened>>
  BY <1>1 DEF CallStep, SamePost, OpenedStep
<1>2. ASSUME NEW g \in Gens, OpenAttempt(g)
      PROVE  OpenedStep /\ \A h \in Claims : CallStep(h)
  <2>1. OpenedStep
    BY <1>2 DEF OpenAttempt, OpenedStep, InForce, rowVars
  <2>2. CASE call' = [call EXCEPT ![fence] = "load"] /\ UNCHANGED <<post, sent>>
    BY <2>1, <2>2 DEF TypeOK, CallStep, SamePost
  <2>3. CASE UNCHANGED <<call, post, sent>>
    BY <2>1, <2>3 DEF CallStep, SamePost
  <2> QED
    BY <1>2, <2>2, <2>3 DEF OpenAttempt
<1>3. ASSUME NEW g \in Gens, Workflow(g), ~OpenAttempt(g)
      PROVE  UNCHANGED <<call, post, sent, opened>>
  BY <1>3 DEF Workflow, ReadSchedule, CancelIfNotStarted, ClaimForDispatch, EvaluateRelease,
     Hold, ReleaseClaimAndCancel, PublishTimesOut, MarkFailed, MarkProcessing,
     RetryAfterProvenNoEffect, Poll
<1>4. ASSUME NEW p \in Procs, Reconcile(p) PROVE UNCHANGED <<call, post, sent, opened>>
  BY <1>4 DEF Reconcile, MarkPublished, MarkOutcomeUnknown, FindRemotePost,
     MarkRetryEligible, HoldForHuman
<1>5. CASE Sweep \/ Person
  BY <1>1, <1>5 DEF Sweep, Person, SweepNow, SweepFind, SweepApply, SweepRow, Cancel, Release,
     RevokeDependency, ConfirmPublished, ConfirmAbsent, HoldRestored
<1>6. CASE \/ \E p \in Procs : RunDies(p)
           \/ \E g \in Gens : DeliverStart(g) \/ DeliverCancel(g)
           \/ \E f \in Claims : DeliverReconcile(f)
  BY <1>1, <1>6 DEF RunDies, DeliverStart, DeliverCancel, DeliverReconcile
<1>7. CASE UNCHANGED vars
  BY <1>1, <1>7 DEF vars
<1>8. ASSUME NEW f \in Claims, PublishOnce(f) PROVE OpenedStep
  BY <1>8 DEF PublishOnce, CallLoad, CallFailsBeforeSend, CallFindsHashMismatch, PreSendFence,
     ProviderAnswers, CallRecords, JobSettles, Return, OnlyCall, OpenedStep
<1> QED
  BY <1>1, <1>2, <1>3, <1>4, <1>5, <1>6, <1>7, <1>8, PublishOnceCall DEF Next

-----------------------------------------------------------------------------
(* Tokens *)

\* A claim in flight has its token and no attempt, outcome or execution names a
\* token not yet issued; a reconciliation is of a claim no longer in force, and
\* of its attempt if it was opened.
Tokens ==
  /\ state \in Flying => fence \in Claims
  /\ \A f \in opened : f <= fence
  /\ \A f \in Claims : outcome[f] # "unset" => f \in opened
  /\ \A p \in Procs :
       /\ run[p].claim <= fence
       /\ run[p].pc \in {"await", "pending", "poll"} => run[p].claim \in Claims
  /\ \A f \in Claims : run[Rec(f)].pc # "none" =>
       /\ f <= fence /\ ~InForce(f)
       /\ run[Rec(f)].claim \in {0, f}
       /\ f \in opened /\ Running(Rec(f)) => run[Rec(f)].claim = f

LEMMA TokensInit == Init => Tokens
<1> SUFFICES ASSUME Init PROVE Tokens
  OBVIOUS
<1>1. \A p \in Procs : run[p].pc = "none" /\ run[p].claim = 0
  BY DEF Init, Idle
<1>2. \A f \in Claims : run[Rec(f)].pc = "none"
  BY <1>1, ClaimToRec
<1> QED
  BY <1>1, <1>2, ConstantTypes DEF Init, Tokens, Flying

\* A step of a reconciliation that is neither idle nor asked for.
LEMMA RecStep ==
  ASSUME NEW f \in Claims, RunStep(Rec(f)), run'[Rec(f)].pc # "none",
         ~(state \in Flying /\ state' \notin Flying /\ f = fence
             /\ run'[Rec(f)].pc = "requested" /\ run'[Rec(f)].claim = AttemptOf(fence)),
         fence \in Claims \/ state \notin Flying
  PROVE  /\ run[Rec(f)].pc # "none"
         /\ \/ run'[Rec(f)].claim = run[Rec(f)].claim
            \/ run'[Rec(f)].claim = 0 /\ run'[Rec(f)].pc \in EndPcs
         /\ Running(Rec(f))' => Running(Rec(f))
<1>1. Rec(f) \notin Gens /\ (state \in Flying => (Rec(f) = Rec(fence) => f = fence))
  BY ClaimToRec
<1> HIDE DEF Rec
<1>2. CASE Still(Rec(f))
  BY <1>2 DEF Still, Running
<1>3. CASE Running(Rec(f)) /\ run'[Rec(f)].pc \in Dull
           /\ run'[Rec(f)].claim = IF run'[Rec(f)].pc \in EndPcs THEN 0 ELSE run[Rec(f)].claim
  BY <1>3 DEF Running, EndPcs
<1>4. CASE At(Rec(f), "await") /\ run'[Rec(f)].claim = run[Rec(f)].claim
  BY <1>4 DEF At, Running, EndPcs
<1>5. CASE At(Rec(f), "unknown") /\ run'[Rec(f)].claim = run[Rec(f)].claim
  BY <1>5 DEF At, Running, EndPcs
<1>6. CASE FindRemotePost(Rec(f)) /\ run'[Rec(f)].claim = run[Rec(f)].claim
  BY <1>6 DEF FindRemotePost, At, Running, EndPcs
<1> QED
  BY <1>1, <1>2, <1>3, <1>4, <1>5, <1>6 DEF RunStep

LEMMA TokensStep == Inductive /\ Tokens /\ [Next]_vars => Tokens'
<1> SUFFICES ASSUME Inductive, Tokens, [Next]_vars PROVE Tokens'
  OBVIOUS
<1>1. /\ TypeOK /\ MaxFence \in Nat /\ fence \in Nat /\ fence' \in Nat
      /\ RowStep /\ OpenedStep
      /\ \A p \in Procs : RunStep(p)
      /\ \A f \in Claims : Outcomes1(f)
  <2>1. TypeOK /\ TypeOK'
    BY InductiveStep DEF Inductive
  <2>2. RowStep /\ OpenedStep
    BY <2>1, StepRow, StepCall
  <2> QED
    BY <2>1, <2>2, StepRun, ConstantTypes DEF Tokens, TypeOK, RowStep
<1>2. fence' \in {fence, fence + 1}
  BY <1>1 DEF RowStep
<1>3. state' \in Flying => fence' \in Claims
  <2>1. fence' \in 0..MaxFence /\ fence \in Nat
    BY InductiveStep, <1>1 DEF Inductive, TypeOK
  <2> QED
    BY <1>1, <2>1 DEF RowStep, Tokens, Claims
<1>4. \A f \in opened' : f <= fence'
  <2>1. \A f \in opened : f \in Nat /\ f <= fence
    BY <1>1 DEF Tokens, TypeOK, Claims
  <2>2. \A f \in opened' : f \in opened \/ f = fence
    BY <1>1 DEF OpenedStep, InForce
  <2>3. fence <= fence'
    BY <1>1, <1>2
  <2> QED
    BY <1>1, <2>1, <2>2, <2>3
<1>5. \A f \in Claims : outcome'[f] # "unset" => f \in opened'
  BY <1>1 DEF Outcomes1, OpenedStep, Tokens
<1>6. ASSUME NEW p \in Procs
      PROVE  /\ run'[p].claim <= fence'
             /\ run'[p].pc \in {"await", "pending", "poll"} => run'[p].claim \in Claims
  <2>1. /\ run[p].claim \in Nat /\ run[p].claim <= fence
        /\ run[p].pc \in {"await", "pending", "poll"} => run[p].claim \in Claims
    BY <1>1 DEF TypeOK, Execution, Tokens
  <2>2. \/ run'[p].claim \in {run[p].claim, 0, fence'}
        \/ run'[p].claim = AttemptOf(fence)
    BY <1>1 DEF RunStep, Still
  <2>3. run'[p].claim <= fence'
    BY <1>1, <1>2, <2>1, <2>2 DEF AttemptOf
  <2>4. ASSUME run'[p].pc \in {"await", "pending", "poll"}
        PROVE  run'[p].claim \in Claims
    <3>1. CASE Still(p)
      BY <2>1, <2>4, <3>1 DEF Still
    <3>2. CASE p \in Gens /\ Poll(p)
      <4>1. run'[p].pc \in {"accepted", "rejected", "unknown"}
        BY <1>1, <3>2 DEF Poll, TypeOK, Execution
      <4> QED
        BY <2>4, <4>1
    <3>3. CASE FindRemotePost(p)
      <4>1. run'[p].pc \in {"found", "absent", "exhausted"}
        BY <1>1, <3>3 DEF FindRemotePost, TypeOK, Execution
      <4> QED
        BY <2>4, <4>1
    <3> QED
      BY <1>1, <2>1, <2>4, <3>1, <3>2, <3>3 DEF RunStep, Early, Dull, At
  <2> QED
    BY <2>3, <2>4
<1>7. ASSUME NEW f \in Claims, run'[Rec(f)].pc # "none"
      PROVE  /\ f <= fence' /\ ~InForce(f)'
             /\ run'[Rec(f)].claim \in {0, f}
             /\ f \in opened' /\ Running(Rec(f))' => run'[Rec(f)].claim = f
  <2>0. Rec(f) \in Procs /\ f \in Nat /\ f # 0
    BY <1>1, ClaimToRec DEF Claims
  <2>1. CASE state \in Flying /\ state' \notin Flying /\ f = fence
               /\ run'[Rec(f)].pc = "requested" /\ run'[Rec(f)].claim = AttemptOf(fence)
    <3>1. opened' = opened
      BY <1>1, <2>1 DEF OpenedStep
    <3> QED
      BY <1>1, <1>2, <2>0, <2>1, <3>1 DEF AttemptOf, InForce, Flying
  <2>2. CASE ~(state \in Flying /\ state' \notin Flying /\ f = fence
               /\ run'[Rec(f)].pc = "requested" /\ run'[Rec(f)].claim = AttemptOf(fence))
    <3>1. /\ run[Rec(f)].pc # "none"
          /\ \/ run'[Rec(f)].claim = run[Rec(f)].claim
             \/ run'[Rec(f)].claim = 0 /\ run'[Rec(f)].pc \in EndPcs
          /\ Running(Rec(f))' => Running(Rec(f))
      BY <1>1, <1>7, <2>0, <2>2, RecStep DEF Tokens
    <3>2. f <= fence /\ ~InForce(f) /\ run[Rec(f)].claim \in {0, f}
          /\ (f \in opened /\ Running(Rec(f)) => run[Rec(f)].claim = f)
      BY <3>1 DEF Tokens
    <3>3. f \in opened' => f \in opened
      BY <1>1, <3>2 DEF OpenedStep
    <3>4. ~InForce(f)'
      BY <1>1, <1>2, <2>0, <3>2 DEF InForce, RowStep, Flying
    <3> QED
      BY <1>1, <1>2, <2>0, <3>1, <3>2, <3>3, <3>4 DEF Running
  <2> QED
    BY <2>1, <2>2
<1> QED
  BY <1>3, <1>4, <1>5, <1>6, <1>7 DEF Tokens

-----------------------------------------------------------------------------
(* A published row has a post *)

\* What the attempt of claim f, its call and its post have to do with each
\* other: a call sends once, an acceptance is of a live post and a rejection of
\* none, and an outcome the call recorded ends the call.
Called(f) ==
  /\ call[f] = "send" => f \notin sent
  /\ call[f] = "out" => f \in sent
  /\ post[f] # "none" => f \in sent /\ call[f] # "out"
  /\ call[f] = "accepted" \/ outcome[f] = "accepted" => post[f] = "live"
  /\ call[f] = "rejected" \/ outcome[f] = "rejected" => post[f] = "none"
  /\ outcome[f] \notin {"unset", "unknown"} => call[f] \in {"none", "load"}

\* Whoever has learnt of a post has one to show.
Seen ==
  /\ state = "published" => HasPost
  /\ \A p \in Procs : run[p].pc \in {"accepted", "found"} => HasPost

Posts == Seen /\ \A f \in Claims : Called(f)

LEMMA PostsInit == Init => Posts
BY DEF Init, Posts, Seen, Called, Idle, Outcomes

LEMMA CalledStep ==
  ASSUME TypeOK, NEW f \in Claims, Called(f), CallStep(f), Outcomes1(f)
  PROVE  Called(f)'
<1>o. /\ "out" \notin Outcomes /\ "send" \notin Outcomes /\ "load" \notin Outcomes
      /\ "none" \notin Outcomes /\ "unset" \notin Outcomes
  BY DEF Outcomes
<1>1. CASE \/ outcome'[f] = outcome[f]
           \/ outcome'[f] = "unknown" /\ outcome[f] = "unset"
  <2>1. /\ outcome'[f] = "accepted" => outcome[f] = "accepted"
        /\ outcome'[f] = "rejected" => outcome[f] = "rejected"
        /\ outcome'[f] \notin {"unset", "unknown"} => outcome[f] \notin {"unset", "unknown"}
    BY <1>1
  <2>2. CASE call'[f] = call[f] /\ SamePost(f)
    BY <2>1, <2>2 DEF Called, SamePost
  <2>3. CASE call'[f] = "load" /\ SamePost(f)
    BY <2>1, <2>3 DEF Called, SamePost
  <2>4. CASE /\ call[f] = "load" /\ call'[f] \in {"none", "unknown", "send"} /\ SamePost(f)
             /\ call'[f] = "send" => f \notin sent
             /\ call'[f] # "none" => outcome[f] = "unset"
    BY <1>1, <2>1, <2>4 DEF Called, SamePost
  <2>5. CASE call[f] = "send" /\ call'[f] \in {"none", "retryable", "rejected"} /\ SamePost(f)
    BY <1>o, <2>1, <2>5 DEF Called, SamePost
  <2>6. CASE call[f] = "send" /\ call'[f] = "out" /\ f \in sent' /\ post'[f] = post[f]
    BY <1>o, <2>1, <2>6 DEF Called
  <2>7. CASE /\ call[f] = "out" /\ call'[f] \in Outcomes /\ (f \in sent' <=> f \in sent)
             /\ call'[f] = "accepted" => post'[f] = "live"
             /\ call'[f] \in {"rejected", "retryable"} => post'[f] = "none"
    BY <1>o, <2>1, <2>7 DEF Called
  <2>8. CASE call[f] \in Outcomes /\ call'[f] = "none" /\ SamePost(f)
    BY <1>o, <2>1, <2>8 DEF Called, SamePost
  <2>9. CASE /\ post[f] = "job" /\ post'[f] \in {"live", "none"}
             /\ call'[f] = call[f] /\ (f \in sent' <=> f \in sent)
    BY <2>1, <2>9 DEF Called
  <2> QED
    BY <2>2, <2>3, <2>4, <2>5, <2>6, <2>7, <2>8, <2>9 DEF CallStep
<1>2. CASE call[f] \in Outcomes /\ outcome'[f] = call[f] /\ call'[f] = "none"
  <2>1. SamePost(f)
    BY <1>o, <1>2 DEF CallStep
  <2> QED
    BY <1>o, <1>2, <2>1 DEF Called, SamePost
<1> QED
  BY <1>1, <1>2 DEF Outcomes1

\* A live post stays.
LEMMA PostsStay ==
  ASSUME NEW f \in Claims, Called(f), CallStep(f), post[f] = "live"
  PROVE  post'[f] = "live"
BY DEF Called, CallStep, SamePost, Outcomes

LEMMA PostsStep == Inductive /\ Tokens /\ Posts /\ [Next]_vars => Posts'
<1> SUFFICES ASSUME Inductive, Tokens, Posts, [Next]_vars PROVE Posts'
  OBVIOUS
<1>1. /\ TypeOK /\ RowStep
      /\ \A f \in Claims : Called(f) /\ CallStep(f)
      /\ \A p \in Procs : RunStep(p)
  BY StepRow, StepCall, StepRun DEF Inductive, Posts, Tokens
<1>2. \A f \in Claims : Called(f)'
  BY <1>1, CalledStep DEF RowStep
<1>3. HasPost => HasPost'
  BY <1>1, PostsStay DEF HasPost
<1>4. state' = "published" => HasPost'
  BY <1>1, <1>3 DEF RowStep, Posts, Seen
<1>5. ASSUME NEW p \in Procs, run'[p].pc \in {"accepted", "found"}
      PROVE  HasPost
  <2>1. CASE Answered(run[p].claim, run'[p].pc) /\ run[p].claim \in Claims
    <3>1. run'[p].pc # "unknown"
      BY <1>5
    <3>2. CASE outcome[run[p].claim] = run'[p].pc \/ call[run[p].claim] = run'[p].pc
      <4>1. Called(run[p].claim)
        BY <1>1, <2>1
      <4>2. outcome[run[p].claim] \in Outcomes \cup {"unset"}
            /\ call[run[p].claim] \in CallSet
        BY <1>1, <2>1 DEF TypeOK
      <4>3. run'[p].pc = "accepted"
        BY <1>5, <3>2, <4>2 DEF CallSet, Outcomes
      <4> QED
        BY <2>1, <3>2, <4>1, <4>3 DEF Called, HasPost
    <3> QED
      BY <2>1, <3>1, <3>2 DEF Answered
  <2>2. CASE p \in Gens /\ Poll(p)
    <3>1. PICK res \in {"accepted", "rejected", "unknown"} :
            /\ res = "accepted" => post[run[p].claim] = "live"
            /\ run' = [run EXCEPT ![p].pc = res]
      BY <2>2 DEF Poll
    <3>2. res = "accepted"
      BY <1>1, <1>5, <3>1 DEF TypeOK, Execution
    <3>3. run[p].claim \in Claims
      BY <2>2 DEF Tokens, Poll, At
    <3> QED
      BY <3>1, <3>2, <3>3 DEF HasPost
  <2>3. CASE FindRemotePost(p)
    <3>1. PICK answer \in {"found", "absent", "exhausted"} :
            /\ answer = "found" => \E f \in Covered(p) : post[f] = "live"
            /\ run' = [run EXCEPT ![p].pc = answer]
      BY <2>3 DEF FindRemotePost
    <3>2. answer = "found"
      BY <1>1, <1>5, <3>1 DEF TypeOK, Execution
    <3> QED
      BY <3>1, <3>2 DEF HasPost, Covered
  <2>4. CASE Still(p)
    BY <1>5, <2>4 DEF Still, Posts, Seen
  <2> QED
    BY <1>1, <1>5, <2>1, <2>2, <2>3, <2>4 DEF RunStep, Early, Dull
<1> QED
  BY <1>2, <1>3, <1>4, <1>5 DEF Posts, Seen

\* Tokens, calls and posts fit together in every reachable state: an acceptance,
\* recorded or only told, is of a live post.
THEOREM PostsInvariant == Spec => [](Inductive /\ Tokens /\ Posts)
<1>1. Init => Inductive /\ Tokens /\ Posts
  BY InductiveInit, TokensInit, PostsInit
<1>2. Inductive /\ Tokens /\ Posts /\ [Next]_vars => (Inductive /\ Tokens /\ Posts)'
  BY InductiveStep, TokensStep, PostsStep
<1> QED
  BY <1>1, <1>2, PTL DEF Spec

\* A published row has a live post, whoever moved it and for whichever claim:
\* the workflow, the poll, a reconcile loop, a person, a superseded run
\* included.
THEOREM PublishedShows == Spec => []PublishedHasPost
<1>1. Posts => PublishedHasPost
  BY DEF Posts, Seen, HasPost, PublishedHasPost
<1> QED
  BY <1>1, PostsInvariant, PTL

-----------------------------------------------------------------------------
(* What a step does to the history *)

\* Trespass and settlement are for good; a send is settled by a person, or by a
\* reconciliation that found nothing.
HistoryStep ==
  /\ trespassed => trespassed'
  /\ cleared \subseteq cleared' /\ cleared' \subseteq cleared \cup sent
  /\ byPerson \subseteq byPerson'
  /\ \/ cleared' \ cleared \subseteq byPerson'
     \/ \E p \in Procs : MarkRetryEligible(p)

LEMMA CalmHistory ==
  ASSUME UNCHANGED <<cleared, byPerson>>, trespassed => trespassed'
  PROVE  HistoryStep
BY DEF HistoryStep

LEMMA WorkflowHistory ==
  ASSUME NEW g \in Gens, Workflow(g)
  PROVE  HistoryStep
<1> USE DEF historyVars, Stay, OnlyMarked
<1>1. UNCHANGED <<cleared, byPerson>>
  BY DEF Workflow, ReadSchedule, CancelIfNotStarted, ClaimForDispatch, EvaluateRelease, Hold,
     ReleaseClaimAndCancel, OpenAttempt, PublishTimesOut, MarkFailed, MarkProcessing,
     RetryAfterProvenNoEffect, Poll
<1>2. trespassed => trespassed'
  BY DEF Workflow, ReadSchedule, CancelIfNotStarted, ClaimForDispatch, EvaluateRelease, Hold,
     ReleaseClaimAndCancel, OpenAttempt, PublishTimesOut, MarkFailed, MarkProcessing,
     RetryAfterProvenNoEffect, Poll, Mark, Fire
<1> QED
  BY <1>1, <1>2, CalmHistory

LEMMA ReconcileHistory ==
  ASSUME NEW p \in Procs, Reconcile(p)
  PROVE  HistoryStep
<1> USE DEF historyVars, Stay, OnlyMarked
<1>1. CASE MarkRetryEligible(p)
  <2>1. trespassed => trespassed'
    BY <1>1 DEF MarkRetryEligible, Mark, Fire
  <2>2. /\ cleared' = cleared \/ cleared' = cleared \cup {f \in sent : f <= Own(p)}
        /\ byPerson' = byPerson
    BY <1>1 DEF MarkRetryEligible
  <2> QED
    BY <1>1, <2>1, <2>2 DEF HistoryStep
<1>2. CASE ~MarkRetryEligible(p)
  <2>1. UNCHANGED <<cleared, byPerson>>
    BY <1>2 DEF Reconcile, MarkPublished, MarkOutcomeUnknown, FindRemotePost, HoldForHuman
  <2>2. trespassed => trespassed'
    BY <1>2 DEF Reconcile, MarkPublished, MarkOutcomeUnknown, FindRemotePost, HoldForHuman,
       Mark, Fire
  <2> QED
    BY <2>1, <2>2, CalmHistory
<1> QED
  BY <1>1, <1>2

LEMMA StepHistory ==
  ASSUME [Next]_vars
  PROVE  HistoryStep
<1> USE DEF historyVars, Stay, OnlyMarked, OnlyRow
<1>1. CASE UNCHANGED vars
  BY <1>1, CalmHistory DEF vars
<1>2. ASSUME NEW f \in Claims, PublishOnce(f) PROVE HistoryStep
  <2>1. CASE CallFindsHashMismatch(f)
    BY <2>1, CalmHistory DEF CallFindsHashMismatch, Fire
  <2>2. CASE ~CallFindsHashMismatch(f)
    <3>1. UNCHANGED <<cleared, byPerson, trespassed>>
      BY <1>2, <2>2 DEF PublishOnce, CallLoad, CallFailsBeforeSend, PreSendFence,
         ProviderAnswers, CallRecords, JobSettles, Return, OnlyCall
    <3> QED
      BY <3>1, CalmHistory
  <2> QED
    BY <2>1, <2>2
<1>3. CASE Sweep
  BY <1>3, CalmHistory DEF Sweep, SweepNow, SweepFind, SweepApply, SweepRow, Fire
<1>4. CASE Person
  BY <1>4 DEF Person, Cancel, Release, RevokeDependency, ConfirmPublished, ConfirmAbsent,
     HoldRestored, HistoryStep
<1>5. CASE \/ \E p \in Procs : RunDies(p)
           \/ \E g \in Gens : DeliverStart(g) \/ DeliverCancel(g)
           \/ \E f \in Claims : DeliverReconcile(f)
  <2>1. UNCHANGED <<cleared, byPerson, trespassed>>
    BY <1>5 DEF RunDies, DeliverStart, DeliverCancel, DeliverReconcile
  <2> QED
    BY <2>1, CalmHistory
<1> QED
  BY <1>1, <1>2, <1>3, <1>4, <1>5, WorkflowHistory, ReconcileHistory DEF Next

\* Only the claim in force sends, so an open send is an old one or its own.
LEMMA StepUnsettled ==
  ASSUME HistoryStep, \A f \in Claims : CallStep(f), TypeOK, TypeOK'
  PROVE  /\ \A f \in sent : f \in sent'
         /\ \A f \in sent' : f \in sent \/ (InForce(f) /\ call[f] = "send")
         /\ \A f \in Unsettled' : f \in Unsettled \/ InForce(f)
<1>1. \A f \in Claims : \/ f \in sent' <=> f \in sent
                        \/ InForce(f) /\ call[f] = "send" /\ f \in sent'
  BY DEF CallStep, SamePost
<1>2. sent \subseteq Claims /\ sent' \subseteq Claims
  BY DEF TypeOK
<1> QED
  BY <1>1, <1>2 DEF HistoryStep, Unsettled

-----------------------------------------------------------------------------
(* A failed row has no post *)

\* While claim f is in flight its recorded outcome has ended the call, and a
\* workflow that holds it and is told `pending` or `rejected` is told the truth.
Handled(f) ==
  InHand(f) =>
    /\ outcome[f] # "unset" => call[f] \in {"none", "load"}
    /\ \A g \in Gens : run[g].claim = f =>
         /\ run[g].pc \in {"pending", "poll"} => outcome[f] = "pending"
         /\ run[g].pc = "rejected" => post[f] = "none" /\ outcome[f] # "unset"

\* While no superseded workflow has moved the row, one being processed has no
\* open send but its own, and a failed one has none that left a post.
Tried ==
  ~trespassed =>
    /\ state = "processing" => Unsettled \subseteq {fence}
    /\ state = "failed" => \A f \in Unsettled : post[f] = "none" /\ call[f] # "out"

Handling == Tried /\ \A f \in Claims : Handled(f)

LEMMA HandlingInit == Init => Handling
BY DEF Init, Handling, Handled, InHand, Flying, Tried, Unsettled

\* A claim just taken has no outcome and no workflow but the one that took it.
LEMMA HandledFresh ==
  ASSUME Inductive, Tokens, NEW f \in Claims, f = fence + 1,
         Outcomes1(f), \A p \in Procs : RunStep(p), fence' = fence + 1
  PROVE  Handled(f)'
<1>1. fence \in Nat /\ TypeOK
  BY ConstantTypes DEF Inductive, TypeOK
<1>2. f \notin opened /\ outcome[f] = "unset"
  BY <1>1 DEF Tokens, Inductive, TypeOK
<1>3. outcome'[f] = "unset"
  BY <1>2 DEF Outcomes1
<1>4. ASSUME NEW g \in Gens, run'[g].claim = f
      PROVE  run'[g].pc = "evaluate"
  <2>1. /\ RunStep(g) /\ run[g].claim \in Nat /\ run[g].claim <= fence
        /\ \A h \in Claims : g # Rec(h)
    BY <1>1, ConstantTypes, ClaimToRec DEF Tokens, TypeOK, Execution
  <2>2. f # run[g].claim /\ f # 0 /\ f # AttemptOf(fence)
    BY <1>1, <2>1 DEF AttemptOf
  <2> QED
    BY <1>4, <2>1, <2>2 DEF RunStep, Still
<1> QED
  BY <1>3, <1>4 DEF Handled

LEMMA HandledStep ==
  ASSUME Inductive, Tokens, \A f \in Claims : Called(f), NEW f \in Claims, Handled(f),
         RowStep, CallStep(f), \A p \in Procs : RunStep(p)
  PROVE  Handled(f)'
<1>1. TypeOK /\ Outcomes1(f) /\ Called(f)
  BY DEF Inductive, RowStep
<1> SUFFICES ASSUME InHand(f)' PROVE Handled(f)'
  BY DEF Handled
<1>2. CASE ~InHand(f)
  <2>1. f = fence + 1 /\ fence' = fence + 1
    BY <1>1, <1>2 DEF InHand, RowStep
  <2> QED
    BY <1>1, <2>1, HandledFresh
<1>3. CASE InHand(f)
  <2>o. /\ "none" \notin Outcomes /\ "load" \notin Outcomes /\ "unset" \notin Outcomes
        /\ "rejected" \in Outcomes /\ "pending" \in Outcomes
    BY DEF Outcomes
  <2>1. /\ outcome[f] # "unset" => call[f] \in {"none", "load"}
        /\ state' \in Flying
    BY <1>3 DEF Handled, InHand
  <2>2. outcome[f] # "unset" => outcome'[f] = outcome[f] /\ call'[f] \in {"none", "load"}
    BY <1>1, <2>o, <2>1 DEF Outcomes1, CallStep
  <2>3. outcome'[f] # "unset" => call'[f] \in {"none", "load"}
    BY <1>1, <2>1, <2>2 DEF Outcomes1
  <2>4. outcome[f] # "unset" /\ post[f] = "none" => post'[f] = "none"
    BY <2>1, <2>o DEF CallStep, SamePost
  <2>5. ASSUME NEW g \in Gens, Answered(f, run'[g].pc), run'[g].pc \in {"pending", "rejected"}
        PROVE  /\ outcome'[f] = run'[g].pc
               /\ run'[g].pc = "rejected" => post'[f] = "none"
    <3>1. CASE outcome[f] = run'[g].pc /\ outcome' = outcome
      <4>1. run'[g].pc = "rejected" => post[f] = "none"
        BY <1>1, <3>1 DEF Called
      <4> QED
        BY <2>4, <2>5, <3>1, <4>1
    <3>2. CASE call[f] = run'[g].pc /\ call[f] \in Outcomes /\ RecordOutcome(f, run'[g].pc)
      <4>1. outcome[f] = "unset" /\ f \in opened
        BY <2>o, <2>1, <3>2 DEF Inductive
      <4>2. outcome'[f] = run'[g].pc
        BY <1>1, <3>2, <4>1 DEF RecordOutcome, TypeOK
      <4>3. call[f] = "rejected" => post[f] = "none" /\ SamePost(f)
        BY <1>1, <2>3, <2>o, <2>5, <3>2, <4>2 DEF Called, CallStep
      <4> QED
        BY <3>2, <4>2, <4>3 DEF SamePost
    <3> QED
      BY <2>5, <3>1, <3>2 DEF Answered
  <2>6. ASSUME NEW g \in Gens, run'[g].claim = f
        PROVE  /\ run'[g].pc \in {"pending", "poll"} => outcome'[f] = "pending"
               /\ run'[g].pc = "rejected" => post'[f] = "none" /\ outcome'[f] # "unset"
    <3>1. /\ RunStep(g) /\ f # 0 /\ g \in Procs
          /\ \A h \in Claims : g # Rec(h)
      BY ConstantTypes, ClaimToRec DEF Claims
    <3>2. run[g].claim = f =>
            /\ run[g].pc \in {"pending", "poll"} => outcome[f] = "pending"
            /\ run[g].pc = "rejected" => post[f] = "none" /\ outcome[f] # "unset"
      BY <1>3 DEF Handled
    <3>3. CASE Still(g)
      BY <2>2, <2>4, <2>6, <3>2, <3>3 DEF Still
    <3>4. CASE run[g].claim = f /\ run'[g].pc = "poll" /\ At(g, "pending")
      BY <2>2, <3>2, <3>4 DEF At
    <3>5. CASE run[g].claim = f /\ Answered(f, run'[g].pc)
      <4>1. outcome[f] \in Outcomes \cup {"unset"} /\ call[f] \in CallSet
        BY <1>1 DEF TypeOK
      <4>2. run'[g].pc # "poll"
        BY <3>5, <4>1 DEF Answered, CallSet, Outcomes
      <4> QED
        BY <2>5, <3>5, <4>2
    <3>6. CASE run[g].claim = f /\ Poll(g)
      <4>1. outcome[f] = "pending"
        BY <3>2, <3>6 DEF Poll, At
      <4>2. PICK res \in {"accepted", "rejected", "unknown"} :
              /\ res = "rejected" => outcome[f] # "pending" \/ post[f] = "none"
              /\ run' = [run EXCEPT ![g].pc = res]
        BY <3>6 DEF Poll
      <4>3. run'[g].pc = res
        BY <1>1, <3>1, <4>2 DEF TypeOK, Execution
      <4> QED
        BY <2>2, <2>4, <4>1, <4>2, <4>3
    <3>7. CASE FindRemotePost(g)
      <4>1. run'[g].pc \in {"found", "absent", "exhausted"}
        BY <1>1, <3>1, <3>7 DEF FindRemotePost, TypeOK, Execution
      <4> QED
        BY <4>1
    <3>8. CASE run'[g].pc \in Early \cup Dull \cup {"evaluate", "await", "look"}
      BY <3>8 DEF Early, Dull
    <3> QED
      BY <2>6, <2>1, <3>1, <3>3, <3>4, <3>5, <3>6, <3>7, <3>8 DEF RunStep, InHand
  <2> QED
    BY <2>3, <2>6 DEF Handled
<1> QED
  BY <1>2, <1>3

LEMMA TriedStep ==
  ASSUME Inductive, Handling, [Next]_vars
  PROVE  Tried'
<1>1. /\ TypeOK /\ TypeOK' /\ RowStep /\ HistoryStep /\ OpenedStep
      /\ \A f \in Claims : CallStep(f)
  BY InductiveStep, StepRow, StepCall, StepHistory DEF Inductive
<1>2. \A f \in Unsettled' : f \in Unsettled \/ InForce(f)
  BY <1>1, StepUnsettled
<1> SUFFICES ASSUME ~trespassed' PROVE Tried'
  BY DEF Tried
<1>3. ~trespassed
  BY <1>1 DEF HistoryStep
<1>4. state \in Flying => Unsettled \subseteq {fence}
  BY <1>3 DEF Inductive, SettledBeforeRelease, Handling, Tried, Flying
<1>5. ASSUME state' = "processing"
      PROVE  Unsettled' \subseteq {fence'}
  <2>1. state \in Flying /\ fence' = fence
    BY <1>1, <1>5 DEF RowStep, Flying
  <2> QED
    BY <1>2, <1>4, <2>1 DEF InForce
<1>6. ASSUME state' = "failed", NEW f \in Unsettled'
      PROVE  post'[f] = "none" /\ call'[f] # "out"
  <2>0. f \in Claims
    BY <1>1 DEF Unsettled, TypeOK
  <2>1. CASE state = "failed"
    <3>1. f \in Unsettled /\ ~InForce(f)
      BY <1>2, <2>1 DEF InForce
    <3>2. post[f] = "none" /\ call[f] # "out"
      BY <1>3, <2>1, <3>1 DEF Handling, Tried
    <3> QED
      BY <1>1, <2>0, <3>1, <3>2 DEF CallStep, SamePost, Outcomes
  <2>2. ASSUME NEW g \in Gens, MarkFailed(g), state # "failed"
        PROVE  post'[f] = "none" /\ call'[f] # "out"
    <3>1. Fire(run[g].claim, IF state = "processing" THEN "poll_failed" ELSE "provider_rejected")
      BY <1>6, <2>2 DEF MarkFailed, Mark, Own, Stay
    <3>2. state \in Flying /\ ~Trespass(run[g].claim)
      BY <1>6, <3>1, ToOutcomes DEF Fire
    <3>3. run[g].claim = fence /\ fence \in 0..MaxFence
      BY <1>1, <3>2 DEF Trespass, Flying, TypeOK
    <3>4. UNCHANGED <<sent, cleared, post, call>> /\ run[g].pc = "rejected"
      BY <2>2 DEF MarkFailed, OnlyMarked, ledgerVars, remoteVars, At
    <3>5. f = fence
      BY <1>4, <3>2, <3>4 DEF Unsettled
    <3>6. /\ post[f] = "none" /\ outcome[f] # "unset"
          /\ call[f] \in {"none", "load"}
      BY <2>0, <3>2, <3>3, <3>4, <3>5 DEF Handling, Handled, InHand
    <3> QED
      BY <3>4, <3>6
  <2> QED
    BY <1>1, <1>6, <2>1, <2>2 DEF RowStep
<1> QED
  BY <1>5, <1>6 DEF Tried

LEMMA HandlingStep == Inductive /\ Tokens /\ Posts /\ Handling /\ [Next]_vars => Handling'
<1> SUFFICES ASSUME Inductive, Tokens, Posts, Handling, [Next]_vars PROVE Handling'
  OBVIOUS
<1>1. /\ RowStep /\ \A f \in Claims : CallStep(f) /\ Called(f) /\ Handled(f)
      /\ \A p \in Procs : RunStep(p)
  BY StepRow, StepCall, StepRun DEF Inductive, Tokens, Posts, Handling
<1>2. \A f \in Claims : Handled(f)'
  BY <1>1, HandledStep
<1> QED
  BY <1>2, TriedStep DEF Handling

\* In every reachable state what the ledger says of the claim in flight, and what
\* its workflow was told, is true of the platform.
THEOREM HandlingInvariant == Spec => []Handling
<1>1. Inductive /\ Tokens /\ Posts /\ Handling /\ [Next]_vars => Handling'
  BY HandlingStep
<1> QED
  BY <1>1, HandlingInit, PostsInvariant, PTL DEF Spec

\* While no superseded workflow has moved the row, a failed one has no post of a
\* send that nobody has judged, neither live nor still processed.
THEOREM FailedShowsNone == Spec => []FailedHasNoPost
<1>1. Handling => FailedHasNoPost
  BY DEF Handling, Tried, FailedHasNoPost
<1> QED
  BY <1>1, HandlingInvariant, PTL

-----------------------------------------------------------------------------
(* A second post needs a person *)

\* While no superseded workflow has moved the row: an open send is at least as
\* late as the claim of any execution, and all sends but the latest are settled.
Later ==
  /\ cleared \subseteq sent
  /\ ~trespassed =>
       /\ \A p \in Procs : run[p].pc # "none" => \A f \in Unsettled : f >= Own(p)
       /\ \A f, h \in sent : f < h => f \in cleared

\* A look at the account is for a claim no longer in force; what it found absent
\* stays absent, and so does what was settled without a person.
Looking == {"look", "found", "absent", "exhausted"}
Gone(f) == post[f] = "none" /\ call[f] # "out"
Absences ==
  /\ \A p \in Procs :
       /\ run[p].pc \in Looking => ~InForce(Own(p))
       /\ run[p].pc = "absent" /\ Own(p) \in sent => Gone(Own(p))
  /\ ~trespassed => \A f \in cleared \ byPerson : Gone(f)

LEMMA LaterInit == Init => Later
BY DEF Init, Later, Unsettled

LEMMA AbsencesInit == Init => Absences
BY DEF Init, Absences, Idle, Looking

LEMMA OwnType ==
  ASSUME TypeOK, NEW p \in Procs
  PROVE  /\ Own(p) \in Nat /\ run[p].claim \in Nat
         /\ p \in Gens => Own(p) = run[p].claim /\ \A f \in Claims : p # Rec(f)
         /\ p \notin Gens => Own(p) \in Claims /\ p = Rec(Own(p)) /\ Own(p)' = Own(p)
<1>1. run[p].claim \in Nat
  BY ConstantTypes DEF TypeOK, Execution
<1>2. CASE p \in Gens
  BY <1>1, <1>2, ClaimToRec DEF Own
<1>3. CASE p \notin Gens
  <2>1. PICK f \in Claims : p = Rec(f)
    BY <1>3, ClaimToRec
  <2>2. Own(p) = f /\ f \in Nat
    BY <2>1, ClaimToRec DEF Claims
  <2> QED
    BY <1>1, <1>3, <2>1, <2>2 DEF Own
<1> QED
  BY <1>2, <1>3

\* No execution acts for a token that was not issued.
LEMMA OwnIssued ==
  ASSUME Inductive, Tokens, NEW p \in Procs, run[p].pc # "none"
  PROVE  Own(p) <= fence
BY OwnType DEF Inductive, Tokens

\* What the claim of an execution becomes: no later one than the token of the
\* row, unless it is the claim just taken or the one just lost.
LEMMA OwnStep ==
  ASSUME TypeOK, NEW p \in Procs, RunStep(p), run'[p].pc # "none",
         state \in Flying => fence \in Claims
  PROVE  \/ Own(p)' = Own(p) /\ run[p].pc # "none"
         \/ Own(p)' = 0
         \/ Own(p)' = fence' /\ state' = "dispatching"
         \/ Own(p)' = fence /\ state \in Flying
<1>1. CASE p \in Gens
  <2>1. Own(p)' = run'[p].claim /\ Own(p) = run[p].claim /\ \A f \in Claims : p # Rec(f)
    BY <1>1, OwnType DEF Own
  <2> QED
    BY <1>1, <2>1 DEF RunStep, Still, Running, EndPcs, At, Poll, FindRemotePost
<1>2. CASE p \notin Gens
  <2>1. Own(p) \in Claims /\ p = Rec(Own(p)) /\ Own(p)' = Own(p)
    BY <1>2, OwnType
  <2>2. CASE state \in Flying /\ p = Rec(fence)
    <3>1. Own(p) = fence
      BY <2>2, ClaimToRec
    <3> QED
      BY <2>1, <2>2, <3>1
  <2>3. CASE run[p].pc # "none"
    BY <2>1, <2>3
  <2> QED
    BY <1>2, <2>2, <2>3 DEF RunStep, Still, Running, EndPcs, At, FindRemotePost
<1> QED
  BY <1>1, <1>2

LEMMA LaterStep == Inductive /\ Tokens /\ Handling /\ Later /\ [Next]_vars => Later'
<1> SUFFICES ASSUME Inductive, Tokens, Handling, Later, [Next]_vars PROVE Later'
  OBVIOUS
<1>1. /\ TypeOK /\ TypeOK' /\ Inductive' /\ RowStep /\ HistoryStep
      /\ \A f \in Claims : CallStep(f)
      /\ \A p \in Procs : RunStep(p)
      /\ state \in Flying => fence \in Claims
  BY InductiveStep, StepRow, StepCall, StepHistory, StepRun DEF Inductive, Tokens
<1>2. /\ \A f \in sent : f \in sent'
      /\ \A f \in sent' : f \in sent \/ (InForce(f) /\ call[f] = "send")
      /\ \A f \in Unsettled' : f \in Unsettled \/ InForce(f)
  BY <1>1, StepUnsettled
<1>3. cleared' \subseteq sent'
  BY <1>1, <1>2 DEF HistoryStep, Later
<1> SUFFICES ASSUME ~trespassed'
             PROVE  /\ \A p \in Procs : run'[p].pc # "none" => \A f \in Unsettled' : f >= Own(p)'
                    /\ \A f, h \in sent' : f < h => f \in cleared'
  BY <1>3 DEF Later
<1>4. ~trespassed /\ (state \in Flying => Unsettled \subseteq {fence})
  BY <1>1 DEF HistoryStep, Inductive, SettledBeforeRelease, Handling, Tried, Flying
<1>5. ASSUME NEW p \in Procs, run'[p].pc # "none", NEW f \in Unsettled'
      PROVE  f >= Own(p)'
  <2>0. f \in Nat /\ fence \in Nat /\ Own(p) \in Nat /\ f \in Claims
    <3>1. f \in sent'
      BY <1>5 DEF Unsettled
    <3>2. f \in Claims
      BY <1>1, <3>1 DEF TypeOK
    <3>3. fence \in Nat /\ f \in Nat
      BY <1>1, <3>2, ConstantTypes DEF TypeOK, Claims
    <3>4. Own(p) \in Nat
      BY <1>1, OwnType
    <3> QED
      BY <3>2, <3>3, <3>4
  <2>1. CASE Own(p)' = Own(p) /\ run[p].pc # "none"
    <3>1. Own(p) <= fence
      BY <2>1, OwnIssued
    <3>2. f \in Unsettled => f >= Own(p)
      BY <1>4, <2>1 DEF Later
    <3> QED
      BY <1>2, <2>0, <2>1, <3>1, <3>2 DEF InForce
  <2>2. CASE Own(p)' = 0
    BY <2>0, <2>2
  <2>3. CASE Own(p)' = fence' /\ state' = "dispatching"
    <3>1. f = fence'
      BY <1>1, <2>3 DEF Inductive, SettledBeforeRelease
    <3> QED
      BY <2>0, <2>3, <3>1
  <2>4. CASE Own(p)' = fence /\ state \in Flying
    <3>1. f = fence
      BY <1>2, <1>4, <2>4 DEF InForce
    <3> QED
      BY <2>0, <2>4, <3>1
  <2> QED
    BY <1>1, <1>5, <2>1, <2>2, <2>3, <2>4, OwnStep
<1>6. ASSUME NEW f \in sent', NEW h \in sent', f < h
      PROVE  f \in cleared'
  <2>0. f \in Nat /\ h \in Nat /\ fence \in Nat
    BY <1>1, ConstantTypes DEF TypeOK, Claims
  <2>1. h <= fence
    BY <1>2, <2>0 DEF Inductive, Tokens, InForce
  <2>2. f \in sent
    BY <1>2, <1>6, <2>0, <2>1 DEF InForce
  <2>3. CASE h \in sent
    BY <1>1, <1>4, <1>6, <2>2, <2>3 DEF Later, HistoryStep
  <2>4. CASE InForce(h)
    <3>1. f \notin Unsettled
      BY <1>4, <1>6, <2>0, <2>4 DEF InForce, Flying
    <3> QED
      BY <1>1, <2>2, <3>1 DEF Unsettled, HistoryStep
  <2> QED
    BY <1>2, <2>3, <2>4
<1> QED
  BY <1>5, <1>6

\* What is gone stays gone, unless its own claim is in force and sends.
LEMMA GoneStep ==
  ASSUME NEW f \in Claims, CallStep(f), Gone(f), ~(InForce(f) /\ call[f] = "send")
  PROVE  Gone(f)'
BY DEF CallStep, SamePost, Gone, Outcomes

LEMMA AbsencesStep ==
  JobsListed /\ Inductive /\ Tokens /\ Posts /\ Later /\ Absences /\ [Next]_vars => Absences'
<1> SUFFICES ASSUME JobsListed, Inductive, Tokens, Posts, Later, Absences, [Next]_vars
             PROVE  Absences'
  OBVIOUS
<1>1. /\ TypeOK /\ TypeOK' /\ RowStep /\ HistoryStep
      /\ \A f \in Claims : CallStep(f) /\ Called(f)
      /\ \A p \in Procs : RunStep(p)
      /\ state \in Flying => fence \in Claims
  BY InductiveStep, StepRow, StepCall, StepHistory, StepRun DEF Inductive, Tokens, Posts
<1>2. \A f \in sent' : f \in sent \/ (InForce(f) /\ call[f] = "send")
  BY <1>1, StepUnsettled
<1>3. \A p \in Procs : run'[p].pc \in Looking =>
        \/ run'[p].pc = "look" /\ state' = "outcome_unknown"
        \/ /\ run[p].pc \in Looking /\ Own(p)' = Own(p)
           /\ run'[p].pc = run[p].pc \/ FindRemotePost(p)
  <2> SUFFICES ASSUME NEW p \in Procs, run'[p].pc \in Looking,
                      ~(run'[p].pc = "look" /\ state' = "outcome_unknown")
               PROVE  /\ run[p].pc \in Looking /\ Own(p)' = Own(p)
                      /\ run'[p].pc = run[p].pc \/ FindRemotePost(p)
    OBVIOUS
  <2>1. RunStep(p) /\ run[p] \in Execution
    BY <1>1 DEF TypeOK
  <2>2. ASSUME Answered(run[p].claim, run'[p].pc), run[p].claim \in Claims
        PROVE  FALSE
    <3>1. outcome[run[p].claim] \in Outcomes \cup {"unset"}
      BY <1>1, <2>2 DEF TypeOK
    <3> QED
      BY <2>2, <3>1 DEF Answered, Looking, Outcomes
  <2>3. ASSUME Poll(p) PROVE FALSE
    <3>1. run'[p].pc \in {"accepted", "rejected", "unknown"}
      BY <1>1, <2>3 DEF Poll, TypeOK, Execution
    <3> QED
      BY <3>1 DEF Looking
  <2>4. Still(p) \/ (FindRemotePost(p) /\ run'[p].claim = run[p].claim)
    BY <2>1, <2>2, <2>3 DEF RunStep, Looking, Early, Dull
  <2> QED
    BY <2>4 DEF Still, FindRemotePost, At, Looking, Own
<1>4. ASSUME NEW p \in Procs, run'[p].pc \in Looking
      PROVE  ~InForce(Own(p))'
  <2>1. CASE state' = "outcome_unknown"
    BY <2>1 DEF InForce
  <2>2. CASE run[p].pc \in Looking /\ Own(p)' = Own(p)
    <3>1. /\ ~InForce(Own(p)) /\ Own(p) <= fence
          /\ Own(p) \in Nat /\ fence \in Nat
      BY <1>1, <2>2, OwnIssued, OwnType, ConstantTypes DEF Absences, TypeOK, Looking
    <3> QED
      BY <1>1, <2>2, <3>1 DEF InForce, RowStep, Flying
  <2> QED
    BY <1>3, <1>4, <2>1, <2>2
<1>5. ASSUME NEW p \in Procs, run'[p].pc = "absent", Own(p)' \in sent'
      PROVE  Gone(Own(p))'
  <2>1. /\ run[p].pc \in Looking /\ Own(p)' = Own(p)
        /\ run'[p].pc = run[p].pc \/ FindRemotePost(p)
    BY <1>3, <1>5 DEF Looking
  <2>2. Own(p) \in sent /\ ~InForce(Own(p)) /\ Own(p) \in Claims
    BY <1>1, <1>2, <1>5, <2>1 DEF Absences, TypeOK
  <2>3. CASE run[p].pc = "absent"
    <3>1. Gone(Own(p))
      BY <2>2, <2>3 DEF Absences
    <3>2. Gone(Own(p)) /\ CallStep(Own(p)) => post'[Own(p)] = "none" /\ call'[Own(p)] # "out"
      BY <2>2, GoneStep DEF Gone
    <3> QED
      BY <1>1, <2>1, <2>2, <3>1, <3>2 DEF Gone
  <2>4. CASE FindRemotePost(p)
    <3>1. PICK answer \in {"found", "absent", "exhausted"} :
            /\ answer = "absent" => \A f \in Covered(p) :
                 /\ post[f] # "live" /\ call[f] # "out"
                 /\ JobsListed => post[f] # "job"
            /\ run' = [run EXCEPT ![p].pc = answer]
      BY <2>4 DEF FindRemotePost
    <3>2. answer = "absent"
      BY <1>1, <1>5, <3>1 DEF TypeOK, Execution
    <3>3. run[p].claim = Own(p)
      <4>1. CASE p \in Gens
        BY <4>1 DEF Own
      <4>2. CASE p \notin Gens
        <5>1. p = Rec(Own(p)) /\ Own(p) \in opened
          BY <1>1, <2>2, <4>2, OwnType DEF Inductive
        <5>2. Running(p) /\ run[p].pc # "none"
          BY <2>1 DEF Looking, Running, EndPcs
        <5> QED
          BY <2>2, <5>1, <5>2 DEF Tokens
      <4> QED
        BY <4>1, <4>2
    <3>4. Own(p) \in Covered(p)
      BY <2>2, <3>3 DEF Covered, Claims
    <3>5. post[Own(p)] = "none" /\ call[Own(p)] # "out"
      BY <1>1, <2>2, <3>1, <3>2, <3>4 DEF TypeOK
    <3>6. UNCHANGED <<post, call>>
      BY <2>4 DEF FindRemotePost, remoteVars
    <3> QED
      BY <2>1, <3>5, <3>6 DEF Gone
  <2> QED
    BY <1>5, <2>1, <2>3, <2>4
<1>6. ASSUME ~trespassed', NEW f \in cleared' \ byPerson'
      PROVE  Gone(f)'
  <2>0. f \in sent /\ f \in Claims /\ f \notin byPerson /\ ~trespassed
    BY <1>1, <1>6 DEF HistoryStep, Later, TypeOK
  <2>1. CASE f \in cleared
    <3>1. Gone(f) /\ call[f] # "send"
      BY <1>1, <2>0, <2>1 DEF Absences, Called
    <3> QED
      BY <1>1, <2>0, <3>1, GoneStep
  <2>2. CASE f \notin cleared
    <3>1. PICK p \in Procs : MarkRetryEligible(p)
      BY <1>1, <1>6, <2>2 DEF HistoryStep
    <3>2. f <= Own(p) /\ run[p].pc = "absent"
      BY <1>6, <2>2, <3>1 DEF MarkRetryEligible, At
    <3>3. f >= Own(p)
      BY <2>0, <2>2, <3>2 DEF Later, Unsettled
    <3>4. f = Own(p)
      BY <1>1, <2>0, <3>2, <3>3, OwnType DEF Claims
    <3>5. Gone(f)
      BY <2>0, <3>2, <3>4 DEF Absences
    <3>6. UNCHANGED <<post, call>>
      BY <3>1 DEF MarkRetryEligible, remoteVars
    <3> QED
      BY <3>5, <3>6 DEF Gone
  <2> QED
    BY <2>1, <2>2
<1> QED
  BY <1>4, <1>5, <1>6 DEF Absences

\* In every reachable state of an untrespassed row the sends are settled in the
\* order of their claims, all but the latest.
THEOREM LaterInvariant == Spec => []Later
<1>1. Inductive /\ Tokens /\ Handling /\ Later /\ [Next]_vars => Later'
  BY LaterStep
<1> QED
  BY <1>1, LaterInit, PostsInvariant, HandlingInvariant, PTL DEF Spec

\* Where the platform lists a post it is still processing, and while no
\* superseded workflow has moved the row: of two live posts of one publication
\* a person judged the first absent.  Elsewhere it does not hold: a job of a
\* send found absent may still go live.
THEOREM SecondPostJudged == JobsListed /\ Spec => []SecondPostNeedsPerson
<1> SUFFICES ASSUME JobsListed PROVE Spec => []SecondPostNeedsPerson
  OBVIOUS
<1>1. Init => Absences
  BY AbsencesInit
<1>2. Inductive /\ Tokens /\ Posts /\ Later /\ Absences /\ [Next]_vars => Absences'
  BY AbsencesStep
<1>3. Posts /\ Later /\ Absences => SecondPostNeedsPerson
  <2> SUFFICES ASSUME Posts, Later, Absences, ~trespassed, NEW f \in Claims, NEW h \in Claims,
                      f < h, post[f] = "live", post[h] = "live"
               PROVE  f \in byPerson
    BY DEF SecondPostNeedsPerson
  <2>1. f \in sent /\ h \in sent
    BY DEF Posts, Called
  <2>2. f \in cleared
    BY <2>1 DEF Later
  <2> QED
    BY <2>2 DEF Absences, Gone
<1> QED
  BY <1>1, <1>2, <1>3, PostsInvariant, LaterInvariant, PTL DEF Spec

=============================================================================
