-------------------------- MODULE MCRazorpayBilling --------------------------
(* Small instances of RazorpayBilling for TLC.                              *)
EXTENDS RazorpayBilling, TLC

\* A paid workspace whose events have all been delivered and forgotten.
Paid ==
  \E plan \in Plans :
    /\ prov = [s \in Sub |-> IF s = 1 THEN [status |-> "active", plan |-> plan]
                             ELSE [status |-> "absent", plan |-> NoPlan]]
    /\ pay = [s \in Sub |-> IF s = 1 THEN "captured" ELSE "none"]
    /\ row = [status |-> "ACTIVE", sub |-> 1, plan |-> plan, recent |-> FALSE,
              atEnd |-> FALSE]
    /\ payRow = [s \in Sub |-> IF s = 1 THEN "CAPTURED" ELSE "NONE"]
    /\ events = <<>>
    /\ ledger = [e \in EventId |-> "none"] /\ applied = [e \in EventId |-> 0]
    /\ hook = [h \in Hooks |-> IdleHook] /\ req = [u \in Customers |-> IdleReq]
    /\ faults = 0

\* Few events are enough when a run may also start from there.
InitOrPaid == InitBilling \/ Paid
=============================================================================
