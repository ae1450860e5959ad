--------------------------- MODULE MCCredentials ---------------------------
(***************************************************************************)
(* What the repository says of a channel's credential, put to the model.   *)
(***************************************************************************)
EXTENDS Credentials

\* "A disconnected channel's credential is unusable from the moment of the
\* disconnect" (broker.ts): only a person's connect ends a disconnect.
DisconnectIsFinal ==
  [][status = "disabled" /\ status' # "disabled" => connects' > connects]_vars

\* "A connect starts the connection's token refresh workflow" (outbox-routes.ts),
\* for a provider whose tokens expire.
ConnectStartsRefresh == expiring /\ pending ~> ~pending

\* A revoke takes back a grant that was disconnected, not the one of a person
\* who has reconnected since (runtime.ts, revokeChannelAccess).
ActiveGrantStands == status = "active" => grant[cred] \notin taken

=============================================================================
