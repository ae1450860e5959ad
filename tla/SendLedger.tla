----------------------------- MODULE SendLedger -----------------------------
(***************************************************************************)
(* What the attempt ledger promises of one publication, whatever the row,  *)
(* the workflows and the provider do in between: a mutation leaves for the *)
(* platform only when every earlier one is settled, that is, proven to     *)
(* have had no effect or resolved by a person (ADR-08: no blind mutation   *)
(* retries).  The promise is void once a claim was disowned, which is when *)
(* a superseded workflow has moved the row of a newer claim.               *)
(***************************************************************************)
EXTENDS Naturals

CONSTANT Attempts

VARIABLES
  sent,      \* attempts whose mutation left (sentAt is set)
  settled,   \* of these, the ones whose effect is known
  disowned   \* a superseded workflow moved the row

vars == <<sent, settled, disowned>>

Init == sent = {} /\ settled = {} /\ disowned = FALSE

Send(a) ==
  /\ a \notin sent
  /\ disowned \/ sent \subseteq settled
  /\ sent' = sent \cup {a}
  /\ UNCHANGED <<settled, disowned>>

Settle ==
  /\ \E known \in SUBSET sent : settled' = settled \cup known
  /\ disowned' \in {disowned, TRUE}
  /\ UNCHANGED sent

Next == Settle \/ \E a \in Attempts : Send(a)

Spec == Init /\ [][Next]_vars

=============================================================================
