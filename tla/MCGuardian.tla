----------------------------- MODULE MCGuardian -----------------------------
(***************************************************************************)
(* Guardian on small instances.                                            *)
(***************************************************************************)
EXTENDS Guardian, TLC
CONSTANTS TOKEN, BRIDGE, srxToken, srxTokenV2, eid

\* As deployed: both ids name SRXToken.
TokenThenBridge == <<TOKEN, BRIDGE>>
SharedTarget == TOKEN :> {srxToken} @@ BRIDGE :> {srxToken}

\* The same, and governance may move BRIDGE to a new deployment.
Redeployed == TOKEN :> {srxToken} @@ BRIDGE :> {srxToken, srxTokenV2}
=============================================================================
