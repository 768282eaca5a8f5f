----------------------------- MODULE MCFrontDoor -----------------------------
(***************************************************************************)
(* What is open to a visitor without a session, the email links of an        *)
(* account and the public snapshot, side by side.  They share no state: as   *)
(* in MCWorkspaceWork only one part, `focus`, moves in a behaviour.          *)
(***************************************************************************)
EXTENDS AccountTokens, PublicSnapshot, TLC

VARIABLE focus

vars == <<tokenVars, snapVars, focus>>

MCInit == focus \in {"tokens", "snapshot"} /\ InitTokens /\ InitSnapshot

MCNext ==
  /\ UNCHANGED focus
  /\ \/ focus = "tokens" /\ NextTokens /\ UNCHANGED snapVars
     \/ focus = "snapshot" /\ NextSnapshot /\ UNCHANGED tokenVars

MCSpec == MCInit /\ [][MCNext]_vars /\ SnapshotFairness

\* Types of both parts.
FrontDoorTypeOK == TokensTypeOK /\ SnapshotTypeOK
=============================================================================
