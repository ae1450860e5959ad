---------------------------- MODULE Credentials ----------------------------
(***************************************************************************)
(* The credential of one channel connection: people connect and disconnect *)
(* it, tokenRefreshWorkflowV1 replaces its token before it expires,        *)
(* channelRevokeWorkflowV1 takes a disconnected grant back at the platform, *)
(* and the sweeper shreds what that left.  Refresh and revoke read the     *)
(* row, open the credential, talk to the platform and write under the      *)
(* row's lock in four separate steps, and people may come in between.      *)
(***************************************************************************)
EXTENDS Naturals, FiniteSets

CONSTANTS
  MaxCreds,        \* bound: credential_refs rows
  MaxConnects,     \* bound: times people reconnect the account
  MaxDisconnects,  \* bound: times people disconnect it
  Slots,           \* refreshCredentials attempts that can be alive at a time
  Delays,          \* spaced retries of a cycle; TRANSIENT_RETRY_DELAYS_MS has 3
  Tries,           \* attempts of an activity; maximumAttempts is 3
  MaxFaults        \* bound: attempts, answers or runs that are lost

ASSUME CredentialsAssumption ==
  /\ MaxCreds \in Nat \ {0} /\ MaxConnects \in Nat /\ MaxDisconnects \in Nat
  /\ IsFiniteSet(Slots) /\ Slots # {}
  /\ Delays \in Nat /\ Tries \in Nat \ {0} /\ MaxFaults \in Nat

VARIABLES
  revocable, expiring, \* the provider revokes grants; its tokens expire
  status, expires,     \* channel_connections.status, tokenExpiresAt set
  cred, made,          \* credentialRefId, and the number of rows there are
  destroyed,           \* credential_refs with destroyedAt
  grant,               \* the consent each credential stems from
  taken,               \* grants revokeAccess has taken back
  connects,            \* consents so far
  pending,             \* a channel.connected event is not dispatched
  flow, delays, tries, \* the refresh workflow
  slot,                \* the attempt it waits for
  attempt,             \* attempts of refreshCredentials
  disconnects, revoke, \* channelRevokeWorkflowV1 of each disconnect
  faults

rowVars == <<revocable, expiring, status, expires, cred, made, destroyed, grant, connects>>
flowVars == <<flow, delays, tries, slot>>
revokeVars == <<disconnects, revoke>>
vars == <<rowVars, taken, pending, flowVars, attempt, revokeVars, faults>>

Creds == 1..MaxCreds
Grants == 1..(MaxConnects + 1)
Disconnects == 1..MaxDisconnects
Statuses == {"active", "refresh_needed", "reconnect_needed", "disabled"}
Usable == {"active", "refresh_needed"}

Answers == {"none", "ok", "reconnect_required", "transient"}
Attempts == [at : {"idle", "load", "open", "call", "record"},
             cred : 0..MaxCreds, answer : Answers]
NoAttempt == [at |-> "idle", cred |-> 0, answer |-> "none"]

Revokes == [at : {"none", "load", "open", "call", "record", "over"},
            tries : 0..Tries, cred : 0..MaxCreds]
NoRevoke == [at |-> "none", tries |-> Tries, cred |-> 0]

Running == {"read", "sleep", "refresh", "delay"}

TypeOK ==
  /\ revocable \in BOOLEAN /\ expiring \in BOOLEAN
  /\ status \in Statuses /\ expires \in BOOLEAN
  /\ cred \in Creds /\ made \in Creds
  /\ destroyed \subseteq Creds
  /\ grant \in [Creds -> Grants]
  /\ taken \subseteq Grants
  /\ connects \in Grants
  /\ pending \in BOOLEAN
  /\ flow \in {"none", "completed", "failed"} \cup Running
  /\ delays \in 0..Delays /\ tries \in 0..Tries
  /\ slot \in Slots
  /\ attempt \in [Slots -> Attempts]
  /\ disconnects \in 0..MaxDisconnects
  /\ revoke \in [Disconnects -> Revokes]
  /\ faults \in 0..MaxFaults

\* A channel that a person has just connected.
Init ==
  /\ revocable \in BOOLEAN /\ expiring \in BOOLEAN
  /\ status = "active" /\ expires = expiring
  /\ cred = 1 /\ made = 1 /\ destroyed = {}
  /\ grant = [c \in Creds |-> 1]
  /\ taken = {} /\ connects = 1
  /\ pending = TRUE
  /\ flow = "none" /\ delays = Delays /\ tries = Tries
  /\ slot = CHOOSE s \in Slots : TRUE
  /\ attempt = [s \in Slots |-> NoAttempt]
  /\ disconnects = 0 /\ revoke = [d \in Disconnects |-> NoRevoke]
  /\ faults = MaxFaults

-----------------------------------------------------------------------------
(* People *)

\* Mutant: the refresh destroys the row it opened, not the row it replaces.
ReplacesOpened(g, old) ==
  /\ made < MaxCreds
  /\ made' = made + 1 /\ cred' = made + 1
  /\ grant' = [grant EXCEPT ![made + 1] = g]
  /\ destroyed' = destroyed \cup {old}
  /\ status' = "active" /\ expires' = expiring

\* A new credential row in place of the one the locked connection has.
Replaces(g, old) ==
  /\ made < MaxCreds
  /\ made' = made + 1 /\ cred' = made + 1
  /\ grant' = [grant EXCEPT ![made + 1] = g]
  /\ destroyed' = destroyed \cup {cred}
  /\ status' = "active" /\ expires' = expiring

\* connect.complete or select for the known account.
Connect ==
  /\ connects <= MaxConnects
  /\ connects' = connects + 1
  /\ Replaces(connects + 1, cred)
  /\ pending' = TRUE
  /\ UNCHANGED <<revocable, expiring, taken, flowVars, attempt, revokeVars, faults>>

Disconnect ==
  /\ disconnects < MaxDisconnects
  /\ disconnects' = disconnects + 1
  /\ status' = "disabled" /\ expires' = FALSE
  /\ IF revocable /\ cred \notin destroyed
       THEN /\ revoke' = [revoke EXCEPT ![disconnects + 1].at = "load"]
            /\ UNCHANGED destroyed
       ELSE /\ destroyed' = destroyed \cup {cred}
            /\ UNCHANGED revoke
  /\ UNCHANGED <<revocable, expiring, cred, made, grant, connects, taken, pending, flowVars,
                 attempt, faults>>

-----------------------------------------------------------------------------
(* The refresh workflow *)

Fault == faults > 0 /\ faults' = faults - 1

Joins == flow \in Running

\* channel.connected: a running workflow is joined, a failed one run again, and
\* the id of a completed one may not be started again.
DeliverStart ==
  /\ pending
  /\ \/ Joins /\ UNCHANGED flow
     \/ flow \in {"none", "failed"} /\ flow' = "read"
  /\ pending' = FALSE
  /\ UNCHANGED <<rowVars, taken, delays, tries, slot, attempt, revokeVars, faults>>

ReadSchedule ==
  /\ flow = "read"
  /\ flow' = IF status \in Usable /\ expires THEN "sleep" ELSE "completed"
  /\ delays' = Delays
  /\ UNCHANGED <<rowVars, taken, pending, tries, slot, attempt, revokeVars, faults>>

\* An attempt is scheduled on a worker; one that timed out may still be alive.
Schedules(n) ==
  LET Idle == {s \in Slots : attempt[s].at = "idle"}
      s == CHOOSE i \in Idle : TRUE IN
  /\ Idle # {}
  /\ attempt' = [attempt EXCEPT ![s] = [NoAttempt EXCEPT !.at = "load"]]
  /\ slot' = s /\ flow' = "refresh" /\ tries' = n

\* The margin before the expiry is reached, and the row is read again.
Wakes ==
  /\ flow = "sleep"
  /\ IF status \in Usable
       THEN Schedules(Tries)
       ELSE flow' = "completed" /\ UNCHANGED <<attempt, slot, tries>>
  /\ UNCHANGED <<rowVars, taken, pending, delays, revokeVars, faults>>

DelayEnds ==
  /\ flow = "delay"
  /\ Schedules(Tries)
  /\ UNCHANGED <<rowVars, taken, pending, delays, revokeVars, faults>>

\* What the workflow makes of an answer: ok continues as new, a transient or
\* locked one is retried after a pause, and the others end it.
Continues(s, answer) ==
  IF slot = s /\ flow = "refresh"
    THEN CASE answer = "ok" -> flow' = "read" /\ UNCHANGED delays
           [] answer = "transient" /\ delays > 0 ->
                flow' = "delay" /\ delays' = delays - 1
           [] OTHER -> flow' = "completed" /\ UNCHANGED delays
    ELSE UNCHANGED <<flow, delays>>

\* The answer of the attempt reaches the workflow, or is lost on the way.
Returns(s, answer) ==
  /\ attempt' = [attempt EXCEPT ![s] = NoAttempt]
  /\ UNCHANGED <<tries, slot>>
  /\ \/ Continues(s, answer) /\ UNCHANGED faults
     \/ Fault /\ UNCHANGED <<flow, delays>>

HitBefore == made > 1 \/ tries < Tries \/ delays < Delays

\* The lock is a hit within 60 seconds in the memory of one worker process: an
\* attempt may meet it, or come later or on another worker.
RefreshLoad(s) ==
  /\ attempt[s].at = "load"
  /\ \/ status \notin Usable /\ Returns(s, "not_active")
     \/ HitBefore /\ Returns(s, "transient")
     \/ /\ status \in Usable
        /\ attempt' = [attempt EXCEPT ![s].at = "open", ![s].cred = cred]
        /\ UNCHANGED <<flowVars, faults>>
  /\ UNCHANGED <<rowVars, taken, pending, revokeVars>>

Answered(s, answer) ==
  attempt' = [attempt EXCEPT ![s].at = "record", ![s].answer = answer]

\* withCredentials reads the row again; a disconnected owner is a transient error.
RefreshOpen(s) ==
  /\ attempt[s].at = "open"
  /\ IF status = "disabled" THEN Answered(s, "transient")
     ELSE IF cred \in destroyed THEN Answered(s, "reconnect_required")
     ELSE attempt' = [attempt EXCEPT ![s].at = "call", ![s].cred = cred]
  /\ UNCHANGED <<rowVars, taken, pending, flowVars, revokeVars, faults>>

RefreshCall(s) ==
  /\ attempt[s].at = "call"
  /\ \E answer \in {"ok", "reconnect_required", "transient"} :
       /\ answer = "ok" => grant[attempt[s].cred] \notin taken
       /\ Answered(s, answer)
  /\ UNCHANGED <<rowVars, taken, pending, flowVars, revokeVars, faults>>

\* Under the row's lock, whatever has become of the row since it was loaded.
RefreshRecord(s) ==
  LET a == attempt[s] IN
  /\ a.at = "record"
  /\ IF a.answer = "ok"
       THEN Replaces(grant[a.cred], a.cred)
       ELSE /\ status' = IF a.answer = "transient" THEN "refresh_needed"
                                                  ELSE "reconnect_needed"
            /\ UNCHANGED <<expires, cred, made, destroyed, grant>>
  /\ Returns(s, a.answer)
  /\ UNCHANGED <<revocable, expiring, connects, taken, pending, revokeVars>>

\* The worker of an attempt dies, and what it held is gone.
AttemptDies(s) ==
  /\ attempt[s].at # "idle" /\ Fault
  /\ attempt' = [attempt EXCEPT ![s] = NoAttempt]
  /\ UNCHANGED <<rowVars, taken, pending, flowVars, revokeVars>>

\* Mutant: an attempt without a timeout is given up only while it is alive.
GivenUpAlive == attempt[slot].at # "idle" /\ Fault

\* Two minutes are over for the attempt the workflow waits for: it is still at
\* work, or its worker or its answer was lost.
GivenUp ==
  \/ attempt[slot].at # "idle" /\ Fault
  \/ attempt[slot].at = "idle" /\ UNCHANGED faults

\* The next attempt is scheduled beside it.
TimesOut ==
  /\ flow = "refresh"
  /\ GivenUp
  /\ IF tries > 1 THEN Schedules(tries - 1)
                  ELSE flow' = "failed" /\ UNCHANGED <<attempt, slot, tries>>
  /\ UNCHANGED <<rowVars, taken, pending, delays, revokeVars>>

-----------------------------------------------------------------------------
(* The revoke of a disconnect, and the floor under it *)

RevokeGoes(d, where) == revoke' = [revoke EXCEPT ![d].at = where]

RevokeLoad(d) ==
  /\ revoke[d].at = "load"
  /\ RevokeGoes(d, IF cred \in destroyed \/ status # "disabled" THEN "over" ELSE "open")
  /\ UNCHANGED <<rowVars, taken, pending, flowVars, attempt, disconnects, faults>>

\* withCredentials for the purpose "revoke": a destroyed one ends it.
RevokeOpen(d) ==
  /\ revoke[d].at = "open"
  /\ IF cred \in destroyed
       THEN RevokeGoes(d, "over")
       ELSE revoke' = [revoke EXCEPT ![d].at = "call", ![d].cred = cred]
  /\ UNCHANGED <<rowVars, taken, pending, flowVars, attempt, disconnects, faults>>

\* The platform takes the grant back, or refuses: the credential goes anyway.
RevokeCall(d) ==
  /\ revoke[d].at = "call"
  /\ \/ taken' = taken \cup {grant[revoke[d].cred]}
     \/ UNCHANGED taken
  /\ RevokeGoes(d, "record")
  /\ UNCHANGED <<rowVars, pending, flowVars, attempt, disconnects, faults>>

\* Mutant: the transaction trusts what was read before the call.
SparedNever == FALSE

\* A reconnect since the read gave the row a credential that must survive.
Spared == status # "disabled"

RevokeRecord(d) ==
  /\ revoke[d].at = "record"
  /\ destroyed' = IF Spared THEN destroyed ELSE destroyed \cup {cred}
  /\ RevokeGoes(d, "over")
  /\ UNCHANGED <<revocable, expiring, status, expires, cred, made, grant, connects, taken,
                 pending, flowVars, attempt, disconnects, faults>>

\* An attempt, or its answer, is lost; the last one fails the workflow.
RevokeLost(d) ==
  /\ revoke[d].at \in {"load", "open", "call", "record"} /\ Fault
  /\ IF revoke[d].tries > 1
       THEN revoke' = [revoke EXCEPT ![d].at = "load", ![d].tries = @ - 1]
       ELSE RevokeGoes(d, "over")
  /\ UNCHANGED <<rowVars, taken, pending, flowVars, attempt, disconnects>>

\* Mutant: the floor waits for a revoke that has run.
UnshreddedRevoked ==
  /\ status = "disabled" /\ cred \notin destroyed
  /\ \E d \in Disconnects : revoke[d].at = "over" /\ revoke[d].cred = cred

\* findDisabledWithLiveCredential, an hour after the disconnect.
Unshredded == status = "disabled" /\ cred \notin destroyed

ShredFloor ==
  /\ Unshredded
  /\ destroyed' = destroyed \cup {cred}
  /\ UNCHANGED <<revocable, expiring, status, expires, cred, made, grant, connects, taken,
                 pending, flowVars, attempt, revokeVars, faults>>

-----------------------------------------------------------------------------

Workflow == ReadSchedule \/ Wakes \/ DelayEnds \/ TimesOut
Refresh(s) == RefreshLoad(s) \/ RefreshOpen(s) \/ RefreshCall(s) \/ RefreshRecord(s)
Revoke(d) == RevokeLoad(d) \/ RevokeOpen(d) \/ RevokeCall(d) \/ RevokeRecord(d)

Next ==
  \/ Connect \/ Disconnect
  \/ DeliverStart \/ Workflow
  \/ \E s \in Slots : Refresh(s) \/ AttemptDies(s)
  \/ \E d \in Disconnects : Revoke(d) \/ RevokeLost(d)
  \/ ShredFloor

Spec == Init /\ [][Next]_vars

\* The outbox is polled, Temporal drives the workflow and times its activities
\* out, workers go on, and the sweeper is scheduled.  The revoke owes nothing.
FairSpec ==
  /\ Spec
  /\ WF_vars(DeliverStart) /\ WF_vars(Workflow) /\ WF_vars(ShredFloor)
  /\ \A s \in Slots : WF_vars(Refresh(s))

-----------------------------------------------------------------------------
(* Properties *)

\* Of all the credentials a channel ever had only the current one can still be
\* opened, through rotations, reconnects and attempts that overlap.
OnlyCurrentOpens == \A c \in 1..made : c \notin destroyed => c = cred

\* A channel in use has its credential: the revoke and the floor of an earlier
\* disconnect never shred what a reconnect stored.
ActiveIsIntact == status = "active" => cred \notin destroyed

\* Unless a refresh overtook the disconnect, the credential of a disconnected
\* channel is shredded in the end, with the platform and the revoke lost too.
DisabledIsShredded ==
  status = "disabled" ~> cred \in destroyed \/ status # "disabled"

\* While its workflow lives, the token of a channel does not run out unseen: it
\* is replaced, or the row says that it was not.
ExpiryIsMet ==
  \A c \in Creds :
    /\ flow \in Running \/ (flow = "none" /\ pending)
    /\ status = "active" /\ expires /\ cred = c
      ~> \/ cred # c \/ status # "active"
         \/ flow \in {"completed", "failed"} \/ made = MaxCreds

=============================================================================
