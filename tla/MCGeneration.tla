----------------------------- MODULE MCGeneration -----------------------------
(***************************************************************************)
(* Generation on small instances, and what its code says of itself.        *)
(***************************************************************************)
EXTENDS Generation, TLC

\* Two jobs are alike when each spends its own brand's money: the brands have
\* the same cap.
Symmetry == Permutations(Jobs)

\* "The attempt's reservation (once)" (creative/src/generation.ts): an attempt
\* owns one row of the budget.
ReservedOnce == \A a \in Attempts : Cardinality(B!OwnedBy(a)) <= 1

\* "Releases what the attempt reserved and did not spend" (the same file): an
\* attempt whose workflow is over holds nothing.
NothingLeft ==
  \A a \in Attempts :
    at[a] = "over" => \A i \in B!OwnedBy(a) : held[i] # "held"

=============================================================================
