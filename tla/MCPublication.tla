--------------------------- MODULE MCPublication ---------------------------
(***************************************************************************)
(* What the repository's documents say of a publication, stated without    *)
(* the reservation Publication makes for superseded workflows.  The runs   *)
(* of this module put the statement to the model.                          *)
(***************************************************************************)
EXTENDS Publication

\* "Never retry the publish blindly (spec 2.2). The attempt ledger decides, and
\* the code enforces it" (docs/runbooks/reconcile-outcome-unknown.md): a send
\* finds every earlier send of the publication settled.
NoUnsettledResend == [][sent' # sent => Unsettled = {}]_vars

=============================================================================
