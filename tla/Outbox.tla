------------------------------- MODULE Outbox -------------------------------
(***************************************************************************)
(* The lease-based outbox dispatch of modules/operations: several workers  *)
(* run dispatchBatch over the same rows.  A pass picks ready rows without  *)
(* a lock, claims them row by row, lists what it holds, and then starts    *)
(* one workflow after the other and marks its row.  Each statement is one  *)
(* action, and workers, leases, workflows and operators interleave.        *)
(* The batch is larger than Events, so a pass picks every ready row.       *)
(***************************************************************************)
EXTENDS Naturals

CONSTANTS
  Events,      \* outbox rows, all written
  Routed,      \* of these, the ones whose event type starts a workflow
  Workers,     \* dispatcher processes, by workerId
  None,
  DeadLetter,  \* DEAD_LETTER_ATTEMPTS; attempts are not counted beyond it
  MaxCrashes,  \* bound: workers that die and come back
  MaxFaults,   \* bound: calls of Temporal or the database that fail
  MaxSlow,     \* bound: leases that run out under a worker in its pass
  MaxReplays   \* bound: replayDeadLetter commands

ASSUME OutboxAssumption ==
  /\ Routed \subseteq Events
  /\ None \notin Events \cup Workers
  /\ DeadLetter \in Nat
  /\ MaxCrashes \in Nat /\ MaxFaults \in Nat
  /\ MaxSlow \in Nat /\ MaxReplays \in Nat

VARIABLES
  claimedBy, live, due, dispatched, attempts,  \* the outbox_events rows
  flow,                       \* the workflow of each event's stable id
  pc, picked, todo, current,  \* each worker's pass
  crashes, faults, slow, replays  \* what is left of each budget

rowVars == <<claimedBy, live, due, dispatched, attempts>>
passVars == <<pc, picked, todo, current>>
limitVars == <<crashes, faults, slow, replays>>
vars == <<rowVars, flow, passVars, limitVars>>

TypeOK ==
  /\ claimedBy \in [Events -> Workers \cup {None}]
  /\ live \in [Events -> BOOLEAN]
  /\ due \in [Events -> BOOLEAN]
  /\ dispatched \in [Events -> BOOLEAN]
  /\ attempts \in [Events -> 0..DeadLetter]
  /\ flow \in [Events -> {"none", "running", "completed", "failed"}]
  /\ pc \in [Workers -> {"idle", "claim", "list", "work", "mark", "fail"}]
  /\ picked \in [Workers -> SUBSET Events]
  /\ todo \in [Workers -> SUBSET Events]
  /\ current \in [Workers -> Events \cup {None}]
  /\ crashes \in 0..MaxCrashes
  /\ faults \in 0..MaxFaults
  /\ slow \in 0..MaxSlow
  /\ replays \in 0..MaxReplays

Init ==
  /\ claimedBy = [e \in Events |-> None]
  /\ live = [e \in Events |-> FALSE]
  /\ due \in [Events -> BOOLEAN]
  /\ dispatched = [e \in Events |-> FALSE]
  /\ attempts = [e \in Events |-> 0]
  /\ flow = [e \in Events |-> "none"]
  /\ pc = [w \in Workers |-> "idle"]
  /\ picked = [w \in Workers |-> {}]
  /\ todo = [w \in Workers |-> {}]
  /\ current = [w \in Workers |-> None]
  /\ crashes = MaxCrashes /\ faults = MaxFaults
  /\ slow = MaxSlow /\ replays = MaxReplays

-----------------------------------------------------------------------------

Goes(w, where) == pc' = [pc EXCEPT ![w] = where]

\* Mutant: only unclaimed rows are ready.
ReadyUnclaimed(e) == ~dispatched[e] /\ due[e] /\ claimedBy[e] = None

Ready(e) ==
  ~dispatched[e] /\ due[e] /\ (claimedBy[e] = None \/ ~live[e])

\* The pick is a plain SELECT; with nothing picked there is nothing to claim.
Pick(w) ==
  /\ pc[w] = "idle"
  /\ picked' = [picked EXCEPT ![w] = {e \in Events : Ready(e)}]
  /\ Goes(w, IF \E e \in Events : Ready(e) THEN "claim" ELSE "list")
  /\ UNCHANGED <<rowVars, flow, todo, current, limitVars>>

\* Mutant: the claim trusts the pick.
ClaimPicked(w) ==
  /\ pc[w] = "claim"
  /\ claimedBy' = [e \in Events |-> IF e \in picked[w] THEN w ELSE claimedBy[e]]
  /\ live' = [e \in Events |-> e \in picked[w] \/ live[e]]
  /\ Goes(w, "list")
  /\ UNCHANGED <<due, dispatched, attempts, flow, picked, todo, current,
                 limitVars>>

\* The UPDATE asks again, row by row, whether the picked row is ready.
Claim(w) ==
  LET won == {e \in picked[w] : Ready(e)} IN
  /\ pc[w] = "claim"
  /\ claimedBy' = [e \in Events |-> IF e \in won THEN w ELSE claimedBy[e]]
  /\ live' = [e \in Events |-> e \in won \/ live[e]]
  /\ Goes(w, "list")
  /\ UNCHANGED <<due, dispatched, attempts, flow, picked, todo, current,
                 limitVars>>

\* Everything the worker holds, claims of an earlier pass of its included.
Held(w) == {e \in Events : claimedBy[e] = w /\ live[e] /\ ~dispatched[e]}

List(w) ==
  /\ pc[w] = "list"
  /\ todo' = [todo EXCEPT ![w] = Held(w)]
  /\ picked' = [picked EXCEPT ![w] = {}]
  /\ Goes(w, IF Held(w) = {} THEN "idle" ELSE "work")
  /\ UNCHANGED <<rowVars, flow, current, limitVars>>

\* TemporalWorkflowStarter.start: USE_EXISTING joins a running workflow, a
\* failed one is started again, and a completed one is refused with an error
\* (ALLOW_DUPLICATE_FAILED_ONLY).  The call can fail before or after its effect.
Start(w) ==
  /\ pc[w] = "work"
  /\ \E e \in todo[w] :
       /\ current' = [current EXCEPT ![w] = e]
       /\ \/ /\ e \notin Routed
             /\ Goes(w, "mark")
             /\ UNCHANGED <<flow, faults>>
          \/ /\ e \in Routed /\ flow[e] # "completed"
             /\ flow' = [flow EXCEPT ![e] = "running"]
             /\ Goes(w, "mark")
             /\ UNCHANGED faults
          \/ /\ e \in Routed /\ flow[e] = "completed"
             /\ Goes(w, "fail")
             /\ UNCHANGED <<flow, faults>>
          \/ /\ e \in Routed /\ faults > 0
             /\ faults' = faults - 1
             /\ \/ UNCHANGED flow
                \/ /\ flow[e] # "completed"
                   /\ flow' = [flow EXCEPT ![e] = "running"]
             /\ Goes(w, "fail")
  /\ UNCHANGED <<rowVars, picked, todo, crashes, slow, replays>>

\* The pass goes on with the next row, or ends.
NextRow(w) ==
  /\ todo' = [todo EXCEPT ![w] = @ \ {current[w]}]
  /\ current' = [current EXCEPT ![w] = None]
  /\ Goes(w, IF todo[w] = {current[w]} THEN "idle" ELSE "work")
  /\ UNCHANGED picked

\* dispatchedAt is set whoever holds the lease now; an error counts as a failure.
MarkRow(w) ==
  /\ pc[w] = "mark"
  /\ \/ /\ dispatched' = [dispatched EXCEPT ![current[w]] = TRUE]
        /\ NextRow(w)
        /\ UNCHANGED faults
     \/ /\ faults > 0 /\ faults' = faults - 1
        /\ Goes(w, "fail")
        /\ UNCHANGED <<dispatched, picked, todo, current>>
  /\ UNCHANGED <<claimedBy, live, due, attempts, flow, crashes, slow, replays>>

\* Mutant: the failure is recorded on a row another worker holds.
FailsAnyClaim(w) == ~dispatched[current[w]]

\* Whose failure the row still takes.
FailsRow(w) == ~dispatched[current[w]] /\ claimedBy[current[w]] = w

\* The attempt is counted, the claim released and the row backs off; when that
\* UPDATE fails as well the pass is over and the claims stay.
FailRow(w) ==
  LET e == current[w] IN
  /\ pc[w] = "fail"
  /\ \/ /\ IF FailsRow(w)
             THEN /\ attempts' = [attempts EXCEPT ![e] =
                                    IF @ < DeadLetter THEN @ + 1 ELSE @]
                  /\ claimedBy' = [claimedBy EXCEPT ![e] = None]
                  /\ live' = [live EXCEPT ![e] = FALSE]
                  /\ due' = [due EXCEPT ![e] = FALSE]
             ELSE UNCHANGED <<attempts, claimedBy, live, due>>
        /\ NextRow(w)
        /\ UNCHANGED faults
     \/ /\ faults > 0 /\ faults' = faults - 1
        /\ Goes(w, "idle")
        /\ todo' = [todo EXCEPT ![w] = {}]
        /\ current' = [current EXCEPT ![w] = None]
        /\ UNCHANGED <<attempts, claimedBy, live, due, picked>>
  /\ UNCHANGED <<dispatched, flow, crashes, slow, replays>>

\* The process dies, or a statement outside the row's try fails and the pass is
\* over; the worker, or its successor, comes back under the same workerId.
Crash(w) ==
  /\ pc[w] # "idle" /\ crashes > 0
  /\ crashes' = crashes - 1
  /\ Goes(w, "idle")
  /\ picked' = [picked EXCEPT ![w] = {}]
  /\ todo' = [todo EXCEPT ![w] = {}]
  /\ current' = [current EXCEPT ![w] = None]
  /\ UNCHANGED <<rowVars, flow, faults, slow, replays>>

\* A worker that still has to list its claims, or has the row before it.
Busy(e) ==
  \E w \in Workers : claimedBy[e] = w /\ (pc[w] = "list" \/ e \in todo[w])

LeaseExpires(e) ==
  /\ live[e]
  /\ live' = [live EXCEPT ![e] = FALSE]
  /\ IF Busy(e) THEN slow > 0 /\ slow' = slow - 1 ELSE UNCHANGED slow
  /\ UNCHANGED <<claimedBy, due, dispatched, attempts, flow, passVars, crashes,
                 faults, replays>>

\* availableAt comes, of a row scheduled ahead or backed off.
BecomesDue(e) ==
  /\ ~due[e]
  /\ due' = [due EXCEPT ![e] = TRUE]
  /\ UNCHANGED <<claimedBy, live, dispatched, attempts, flow, passVars,
                 limitVars>>

FlowEnds(e) ==
  /\ flow[e] = "running"
  /\ \E end \in {"completed", "failed"} : flow' = [flow EXCEPT ![e] = end]
  /\ UNCHANGED <<rowVars, passVars, limitVars>>

\* An operator replays an undispatched row, claimed or not.
ReplayDeadLetter(e) ==
  /\ replays > 0 /\ ~dispatched[e]
  /\ replays' = replays - 1
  /\ due' = [due EXCEPT ![e] = TRUE]
  /\ claimedBy' = [claimedBy EXCEPT ![e] = None]
  /\ live' = [live EXCEPT ![e] = FALSE]
  /\ UNCHANGED <<dispatched, attempts, flow, passVars, crashes, faults, slow>>

-----------------------------------------------------------------------------

DispatchBatch(w) ==
  Pick(w) \/ Claim(w) \/ List(w) \/ Start(w) \/ MarkRow(w) \/ FailRow(w)

Next ==
  \/ \E w \in Workers : DispatchBatch(w) \/ Crash(w)
  \/ \E e \in Events :
       LeaseExpires(e) \/ BecomesDue(e) \/ FlowEnds(e) \/ ReplayDeadLetter(e)

Spec == Init /\ [][Next]_vars

\* Every worker's loop goes on, and time passes.  Workflows owe nothing.
Fairness ==
  /\ \A w \in Workers : WF_vars(DispatchBatch(w))
  /\ \A e \in Events : WF_vars(LeaseExpires(e)) /\ WF_vars(BecomesDue(e))

FairSpec == Spec /\ Fairness

-----------------------------------------------------------------------------
(* Properties *)

\* While no lease runs out under a pass and no operator interferes, no two
\* passes have the same row before them, however their picks overlap.
Exclusive ==
  slow = MaxSlow /\ replays = MaxReplays =>
    \A v, w \in Workers : v # w => todo[v] \cap todo[w] = {}

\* A dispatched event of a routed type has had its workflow started: through
\* failed calls, lost answers, crashes and takeovers no event is lost.
DispatchedWasStarted ==
  \A e \in Routed : dispatched[e] => flow[e] # "none"

\* The inductive form of Exclusive and DispatchedWasStarted: what a pass has
\* before it, it holds, and what it is about to mark, it has started.
HoldsTodo ==
  slow = MaxSlow /\ replays = MaxReplays =>
    \A w \in Workers, e \in Events :
      e \in todo[w] => claimedBy[e] = w /\ live[e]
CurrentIsTodo ==
  \A w \in Workers :
    /\ pc[w] \in {"mark", "fail"} => current[w] \in todo[w]
    /\ pc[w] \notin {"work", "mark", "fail"} => todo[w] = {}
MarksStarted ==
  \A w \in Workers :
    pc[w] = "mark" /\ current[w] \in Routed => flow[current[w]] # "none"
Inductive ==
  TypeOK /\ HoldsTodo /\ CurrentIsTodo /\ MarksStarted /\ DispatchedWasStarted

\* A dispatched row is left alone: a late failure of a worker that had claimed
\* it adds no attempt, releases no claim and does not put it back.
DispatchedIsFinal ==
  [][\A e \in Events :
       dispatched[e] => /\ dispatched'[e] /\ attempts'[e] = attempts[e]
                        /\ claimedBy'[e] = None => claimedBy[e] = None]_vars

\* A live claim ends by its own worker's failure, its expiry or a replay, never
\* because a worker that lost its lease fails.
LiveClaimKept ==
  [][\A e \in Events, w \in Workers :
       /\ claimedBy[e] = w /\ live[e]
       /\ claimedBy'[e] # w
       => (pc[w] = "fail" /\ current[w] = e) \/ replays' # replays]_vars

\* An event is dispatched in the end, or its workflow has run to completion.
EventIsServed ==
  \A e \in Events : ~dispatched[e] ~> dispatched[e] \/ flow[e] = "completed"

=============================================================================
