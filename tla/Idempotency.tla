---------------------------- MODULE Idempotency ----------------------------
(***************************************************************************)
(* One idempotency key of modules/operations: idempotent() run by several  *)
(* requests that carry the key, the marker they share, and the purge of    *)
(* expired records.  Each statement of the repository is a transaction of  *)
(* its own and one action here; a command and the completion of its marker *)
(* commit together and are one action.  A client retry is one more member  *)
(* of Requests; Others carry the same key for a different command.         *)
(***************************************************************************)
EXTENDS FiniteSets, Naturals

CONSTANTS
  Requests,     \* calls that carry the key
  Others,       \* of these, the ones with another path or request hash
  Nobody,       \* no response, no holder
  MaxDeaths,    \* bound: processes that die between two statements
  MaxDays,      \* bound: times the record's TTL runs out
  MaxLostAcks   \* bound: commits whose acknowledgement is lost

ASSUME IdempotencyAssumption ==
  /\ Others \subseteq Requests
  /\ Nobody \notin Requests
  /\ MaxDeaths \in Nat /\ MaxDays \in Nat /\ MaxLostAcks \in Nat

VARIABLES
  rec,       \* the idempotency_keys row
  at,        \* where each request is
  answer,    \* the request whose result a request returned
  holder,    \* history: the request that wrote or took over the marker last
  fresh,     \* history: commands committed since the TTL last ran out
  displaced, \* history: a live record was removed by its key, a lease ran out
             \* under a command, or a takeover met another command's marker
  deaths, days, lostAcks  \* what is left of each budget

keyLimitVars == <<deaths, days, lostAcks>>
keyVars == <<rec, at, answer, holder, fresh, displaced, keyLimitVars>>

Ends == {"replay", "reused", "conflict", "failed", "done", "crashed"}
Pcs == {"start", "takeover", "remove", "insert", "again", "command", "cleanup"}

\* The hash and path of a row, as far as requests can tell them apart.
NoRow == [state |-> "none", other |-> FALSE, expired |-> FALSE, resp |-> Nobody]
Rows == [state : {"none", "in_progress", "completed"}, other : BOOLEAN,
         expired : BOOLEAN, resp : Requests \cup {Nobody}]

KeyTypeOK ==
  /\ rec \in Rows
  /\ at \in [Requests -> Pcs \cup Ends]
  /\ answer \in [Requests -> Requests \cup {Nobody}]
  /\ holder \in Requests \cup {Nobody}
  /\ fresh \in SUBSET Requests
  /\ displaced \in BOOLEAN
  /\ deaths \in 0..MaxDeaths
  /\ days \in 0..MaxDays
  /\ lostAcks \in 0..MaxLostAcks

KeyInit ==
  /\ rec = NoRow
  /\ at = [r \in Requests |-> "start"]
  /\ answer = [r \in Requests |-> Nobody]
  /\ holder = Nobody
  /\ fresh = {} /\ displaced = FALSE
  /\ deaths = MaxDeaths /\ days = MaxDays /\ lostAcks = MaxLostAcks

-----------------------------------------------------------------------------

IsOther(r) == r \in Others
SameRequest(r) == rec.other = IsOther(r)
Reaches(r, where) == at' = [at EXCEPT ![r] = where]

\* The stored response is returned.
Replays(r) ==
  /\ Reaches(r, "replay")
  /\ answer' = [answer EXCEPT ![r] = rec.resp]

\* Mutant: an expired record is replayed.
LookupIgnoresExpiry(r) ==
  /\ at[r] = "start"
  /\ \/ rec.state = "none" /\ Reaches(r, "insert") /\ UNCHANGED answer
     \/ rec.state # "none" /\ ~SameRequest(r) /\ Reaches(r, "reused")
        /\ UNCHANGED answer
     \/ rec.state = "in_progress" /\ SameRequest(r)
        /\ Reaches(r, IF rec.expired THEN "takeover" ELSE "conflict")
        /\ UNCHANGED answer
     \/ rec.state = "completed" /\ SameRequest(r) /\ Replays(r)
  /\ UNCHANGED <<rec, holder, fresh, displaced, keyLimitVars>>

\* The first lookup, and what is decided on the row it read.
Lookup(r) ==
  /\ at[r] = "start"
  /\ \/ rec.state = "none" /\ Reaches(r, "insert") /\ UNCHANGED answer
     \/ /\ rec.state # "none" /\ rec.expired
        /\ Reaches(r, IF rec.state = "in_progress" /\ SameRequest(r)
                     THEN "takeover" ELSE "remove")
        /\ UNCHANGED answer
     \/ /\ rec.state # "none" /\ ~rec.expired /\ ~SameRequest(r)
        /\ Reaches(r, "reused") /\ UNCHANGED answer
     \/ /\ rec.state = "in_progress" /\ ~rec.expired /\ SameRequest(r)
        /\ Reaches(r, "conflict") /\ UNCHANGED answer
     \/ /\ rec.state = "completed" /\ ~rec.expired /\ SameRequest(r)
        /\ Replays(r)
  /\ UNCHANGED <<rec, holder, fresh, displaced, keyLimitVars>>

\* Mutant: the takeover does not look at the lease again.
AbandonedAnyway == rec.state = "in_progress"

\* What takeOverExpired's UPDATE asks of the row.
Abandoned == rec.state = "in_progress" /\ rec.expired

TakeOver(r) ==
  /\ at[r] = "takeover"
  /\ IF Abandoned
       THEN /\ rec' = [rec EXCEPT !.expired = FALSE]
            /\ holder' = r
            /\ displaced' = (displaced \/ ~SameRequest(r))
            /\ Reaches(r, "command")
       ELSE /\ Reaches(r, "conflict")
            /\ UNCHANGED <<rec, holder, displaced>>
  /\ UNCHANGED <<answer, fresh, keyLimitVars>>

\* The row is deleted by its key, whatever it holds by now.
Remove(r) ==
  /\ at[r] = "remove"
  /\ rec' = NoRow
  /\ displaced' = (displaced \/ (rec.state # "none" /\ ~rec.expired))
  /\ Reaches(r, "insert")
  /\ UNCHANGED <<answer, holder, fresh, keyLimitVars>>

\* The marker commits on its own; a duplicate key is looked up once more.
InsertInProgress(r) ==
  /\ at[r] = "insert"
  /\ IF rec.state = "none"
       THEN /\ rec' = [NoRow EXCEPT !.state = "in_progress", !.other = IsOther(r)]
            /\ holder' = r
            /\ Reaches(r, "command")
       ELSE /\ Reaches(r, "again")
            /\ UNCHANGED <<rec, holder>>
  /\ UNCHANGED <<answer, fresh, displaced, keyLimitVars>>

\* Mutant: the second lookup forgets to compare the request.
LookupAgainAnyRequest(r) ==
  /\ at[r] = "again"
  /\ IF rec.state = "completed" THEN Replays(r)
     ELSE Reaches(r, "conflict") /\ UNCHANGED answer
  /\ UNCHANGED <<rec, holder, fresh, displaced, keyLimitVars>>

LookupAgain(r) ==
  /\ at[r] = "again"
  /\ IF rec.state = "completed" /\ SameRequest(r)
       THEN Replays(r)
       ELSE /\ Reaches(r, IF rec.state # "none" /\ ~SameRequest(r)
                         THEN "reused" ELSE "conflict")
            /\ UNCHANGED answer
  /\ UNCHANGED <<rec, holder, fresh, displaced, keyLimitVars>>

\* complete(): an UPDATE by the key, which takes whatever row is there.
Complete(r) ==
  rec' = IF rec.state = "none" THEN rec
         ELSE [rec EXCEPT !.state = "completed", !.resp = r, !.expired = FALSE]

\* The command's writes and the completed record, in one transaction.
Commit(r) ==
  /\ at[r] = "command"
  /\ Complete(r)
  /\ fresh' = fresh \cup {r}
  /\ Reaches(r, "done")
  /\ answer' = [answer EXCEPT ![r] = r]
  /\ UNCHANGED <<holder, displaced, keyLimitVars>>

\* The same, but the connection is lost before the acknowledgement arrives.
CommitLosesAck(r) ==
  /\ at[r] = "command" /\ lostAcks > 0
  /\ lostAcks' = lostAcks - 1
  /\ Complete(r)
  /\ fresh' = fresh \cup {r}
  /\ Reaches(r, "cleanup")
  /\ UNCHANGED <<answer, holder, displaced, deaths, days>>

\* The command throws: nothing of it stays.
RollBack(r) ==
  /\ at[r] = "command"
  /\ Reaches(r, "cleanup")
  /\ UNCHANGED <<rec, answer, holder, fresh, displaced, keyLimitVars>>

\* The marker of a failed command is removed; that the removal fails as well
\* is swallowed, and counted with the deaths.
CleanUp(r) ==
  /\ at[r] = "cleanup"
  /\ \/ rec' = NoRow /\ UNCHANGED deaths
     \/ deaths > 0 /\ deaths' = deaths - 1 /\ UNCHANGED rec
  /\ Reaches(r, "failed")
  /\ UNCHANGED <<answer, holder, fresh, displaced, days, lostAcks>>

Dies(r) ==
  /\ at[r] \in Pcs \ {"start"} /\ deaths > 0
  /\ deaths' = deaths - 1
  /\ Reaches(r, "crashed")
  /\ UNCHANGED <<rec, answer, holder, fresh, displaced, days, lostAcks>>

Holding(r) == at[r] \in {"command", "cleanup"}

\* IN_PROGRESS_LEASE_MS pass.
LeaseRunsOut ==
  /\ rec.state = "in_progress" /\ ~rec.expired
  /\ rec' = [rec EXCEPT !.expired = TRUE]
  /\ displaced' = (displaced \/ \E r \in Requests : Holding(r))
  /\ UNCHANGED <<at, answer, holder, fresh, keyLimitVars>>

\* The TTL of the record passes; no request lasts that long.
TtlRunsOut ==
  /\ days > 0 /\ rec.state = "completed" /\ ~rec.expired
  /\ \A r \in Requests : at[r] \in Ends \cup {"start"}
  /\ days' = days - 1
  /\ rec' = [rec EXCEPT !.expired = TRUE]
  /\ fresh' = {}
  /\ UNCHANGED <<at, answer, holder, displaced, deaths, lostAcks>>

PurgeExpired ==
  /\ rec.state # "none" /\ rec.expired
  /\ rec' = NoRow
  /\ UNCHANGED <<at, answer, holder, fresh, displaced, keyLimitVars>>

-----------------------------------------------------------------------------

Idempotent(r) ==
  \/ Lookup(r) \/ TakeOver(r) \/ Remove(r) \/ InsertInProgress(r)
  \/ LookupAgain(r) \/ Commit(r) \/ CommitLosesAck(r) \/ RollBack(r)
  \/ CleanUp(r) \/ Dies(r)

KeyNext ==
  \/ \E r \in Requests : Idempotent(r)
  \/ LeaseRunsOut \/ TtlRunsOut \/ PurgeExpired

KeySpec == KeyInit /\ [][KeyNext]_keyVars

-----------------------------------------------------------------------------
(* Properties *)

\* A key runs its command at most once while its record lives, whatever retries
\* overlap, fail, crash or take the marker over: until a record is displaced or a
\* commit is not acknowledged.
CommandOnce ==
  ~displaced /\ lostAcks = MaxLostAcks => Cardinality(fresh) <= 1

Own(r) == answer[r] \in Requests /\ IsOther(answer[r]) = IsOther(r)

\* A replayed response is the response of a committed command with the same
\* hash and path, until a record is displaced.
ReplayIsOwn == ~displaced => \A r \in Requests : at[r] = "replay" => Own(r)

\* A replay returns what a command committed while the record lives: neither a
\* rolled-back response nor one whose TTL has run out.
ReplaysFresh ==
  \A r \in Requests :
    at'[r] = "replay" /\ at[r] # "replay" => answer'[r] \in fresh
ReplayIsFresh == [][ReplaysFresh]_keyVars

\* The inductive form of CommandOnce and ReplayIsOwn: a request inside its
\* command, or removing the marker of a failed one, holds the record, whose
\* lease runs, so it is the only one; a completed record answers its own request;
\* and once a command has committed, the record that replays it is there.
Marked ==
  /\ \A r \in Requests : Holding(r) =>
       rec.state # "none" /\ ~rec.expired /\ holder = r /\ SameRequest(r)
  /\ \A r \in Requests : at[r] = "command" => rec.state = "in_progress"
  /\ rec.state = "completed" =>
       rec.resp \in Requests /\ IsOther(rec.resp) = rec.other
  /\ \A r \in Requests : at[r] = "replay" => Own(r)

Committed ==
  /\ \A r \in Requests : Holding(r) => rec.state = "in_progress"
  /\ \A r \in fresh : fresh = {r} /\ rec.state = "completed" /\ ~rec.expired

KeyInductive ==
  /\ KeyTypeOK
  /\ ~displaced => Marked
  /\ ~displaced /\ lostAcks = MaxLostAcks => Committed

\* The inductive form of ReplayIsFresh: a live completed record is a commit of
\* its lifetime, and one that a request finds on its way is live.
FreshKept ==
  /\ rec.state = "completed" /\ ~rec.expired => rec.resp \in fresh
  /\ \A r \in Requests :
       at[r] \in {"insert", "again"} /\ rec.state = "completed" => ~rec.expired

=============================================================================
