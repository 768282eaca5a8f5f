---------------------------- MODULE ChargeLedger ----------------------------
(***************************************************************************)
(* What the AI monitoring service promises about money, with runs, workers, *)
(* retries and crashes left out: a unit of work (an idempotency key) is     *)
(* observed at most once, only an observed unit may be charged, it is       *)
(* charged at most once, and the usage counter is exactly the number of     *)
(* charges and never passes the plan's limit.  A charge may be missing (the *)
(* process dies after the observation, or the counter refuses); it is never *)
(* invented.                                                                *)
(***************************************************************************)
EXTENDS Integers, FiniteSets

CONSTANTS
  Key,    \* idempotency keys: website|prompt|surface|country|language|window
  Limit   \* the plan's AI_SCANS allowance of the period

VARIABLES
  observed,  \* keys with a COMPLETED observation
  charged,   \* keys whose observation was charged
  used       \* UsageCounter.used for AI_SCANS in the period

ledger == <<observed, charged, used>>

LedgerInit ==
  /\ observed = {}
  /\ charged = {}
  /\ used = 0

Observe(k) ==
  /\ k \notin observed
  /\ observed' = observed \union {k}
  /\ UNCHANGED <<charged, used>>

Charge(k) ==
  /\ k \in observed \ charged
  /\ used < Limit
  /\ charged' = charged \union {k}
  /\ used' = used + 1
  /\ UNCHANGED observed

LedgerNext == \E k \in Key : Observe(k) \/ Charge(k)

LedgerSpec == LedgerInit /\ [][LedgerNext]_ledger
=============================================================================
