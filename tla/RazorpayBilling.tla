--------------------------- MODULE RazorpayBilling ---------------------------
(***************************************************************************)
(* The Razorpay subscription of one workspace (backend/src/billing): the     *)
(* checkout, its verification, synchronisation, cancellation and resumption, *)
(* and the webhook, which delivers the provider's events late, twice and out *)
(* of order.  The provider is external and modelled from how the code uses   *)
(* it; a subscription has one payment.                                       *)
(*                                                                          *)
(* One action is one database or provider round trip of a request.  Periods, *)
(* amounts and signatures are left out: a request gets this far only with a  *)
(* valid signature.                                                          *)
(***************************************************************************)
EXTENDS Integers, Sequences, FiniteSets

CONSTANTS
  Customers,      \* requests of the workspace's users in progress
  Hooks,      \* webhook deliveries in progress
  Plans,      \* plan/interval/currency combinations on sale
  NoPlan,
  MaxSubs, MaxEvents, MaxFaults  \* bounds of the model

ASSUME BillingAssumption ==
  /\ MaxSubs \in Nat /\ MaxEvents \in Nat /\ MaxFaults \in Nat
  /\ NoPlan \notin Plans

VARIABLES
  prov,     \* subscriptions at the provider, in creation order
  pay,      \* the payment of each of them at the provider
  events,   \* events emitted by the provider, in order
  row,      \* the workspace's Subscription row; recent: PENDING and just touched
  payRow,   \* Payment.status by subscription
  ledger,   \* BillingEvent by event: none, received, processed
  applied,  \* how many handlers got past the insert of the event
  hook,     \* webhook handlers: step and event
  req,      \* user requests: step and local values
  faults

provVars == <<prov, pay, events>>
billingVars == <<provVars, row, payRow, ledger, applied, hook, req, faults>>

Sub == 1..MaxSubs
NoSub == 0
EventId == 1..MaxEvents
ProvStatus == {"absent", "created", "authenticated", "active", "pending", "halted",
               "paused", "cancelled", "expired"}
PayStatus == {"none", "authorized", "captured", "failed"}
RowStatus == {"NONE", "PENDING", "ACTIVE", "PAST_DUE", "PAUSED", "CANCELED", "EXPIRED"}
Row == [status : RowStatus, sub : Sub \union {NoSub}, plan : Plans \union {NoPlan},
        recent : BOOLEAN, atEnd : BOOLEAN]
NoRow == [status |-> "NONE", sub |-> NoSub, plan |-> NoPlan, recent |-> FALSE,
          atEnd |-> FALSE]
Event == [kind : {"subscription", "payment"}, sub : Sub,
          status : ProvStatus \union PayStatus]
ReqSteps == {"idle", "create", "save", "fetch", "record", "grant", "sync", "resume",
             "apply", "pend", "cancel", "cancelNow", "cancelLater", "saveNow",
             "saveLater"}
IdleReq == [step |-> "idle", sub |-> NoSub, found |-> FALSE, plan |-> NoPlan,
            paid |-> "none", status |-> "NONE"]
HookSteps == {"idle", "insert", "lookup", "apply", "pend", "paid", "activate", "mark"}
IdleHook == [step |-> "idle", event |-> 0]

InitBilling ==
  /\ prov = [s \in Sub |-> [status |-> "absent", plan |-> NoPlan]]
  /\ pay = [s \in Sub |-> "none"]
  /\ events = <<>>
  /\ row = NoRow
  /\ payRow = [s \in Sub |-> "NONE"]
  /\ ledger = [e \in EventId |-> "none"]
  /\ applied = [e \in EventId |-> 0]
  /\ hook = [h \in Hooks |-> IdleHook]
  /\ req = [u \in Customers |-> IdleReq]
  /\ faults = 0

-----------------------------------------------------------------------------
(* billing-state.ts.                                                        *)

\* Fault: the provider-neutral name is written as it is.
StatusForUnmapped(provStatus) ==
  CASE provStatus = "active" -> "ACTIVE"
    [] provStatus = "halted" -> "PAST_DUE"
    [] provStatus = "paused" -> "PAUSED"
    [] provStatus = "cancelled" -> "CANCELLED"
    [] provStatus = "expired" -> "EXPIRED"
    [] OTHER -> "PENDING"

\* mapRazorpayStatus, then the row status each branch writes.
StatusFor(provStatus) ==
  CASE provStatus = "active" -> "ACTIVE"
    [] provStatus = "halted" -> "PAST_DUE"
    [] provStatus = "paused" -> "PAUSED"
    [] provStatus = "cancelled" -> "CANCELED"
    [] provStatus = "expired" -> "EXPIRED"
    [] OTHER -> "PENDING"

PaymentStatusFor(payStatus) ==
  CASE payStatus = "captured" -> "CAPTURED"
    [] payStatus = "authorized" -> "AUTHORIZED"
    [] payStatus = "failed" -> "FAILED"
    [] OTHER -> "CREATED"

\* effectiveEntitlementState of a bare status, as blockingSubscriptionState asks.
Effective(status) ==
  IF status \in {"ACTIVE", "PAST_DUE", "PAUSED"} THEN status ELSE "FREE"

Blocking(status) ==
  Effective(status) \in {"ACTIVE", "PENDING", "PAST_DUE", "PAUSED"}

-----------------------------------------------------------------------------
(* The provider (external).                                                 *)

\* A subscription changes status; the event carries the new one.
ProvMove(s, to) ==
  /\ Len(events) < MaxEvents
  /\ prov' = [prov EXCEPT ![s].status = to]
  /\ events' = Append(events, [kind |-> "subscription", sub |-> s, status |-> to])

ProvLifecycle ==
  {<<"created", "expired">>, <<"active", "pending">>,
   <<"pending", "active">>, <<"pending", "halted">>, <<"halted", "active">>,
   <<"active", "paused">>, <<"paused", "active">>, <<"active", "cancelled">>}

ProviderStep(s) ==
  \/ /\ \E to \in ProvStatus : /\ <<prov[s].status, to>> \in ProvLifecycle
                               /\ ProvMove(s, to)
     /\ UNCHANGED pay
  \/ /\ prov[s].status = "authenticated" /\ pay[s] = "captured"
     /\ ProvMove(s, "active")
     /\ UNCHANGED pay

\* The customer pays: the payment fails, or it goes through and authenticates the
\* subscription, which emits one event of the two; an authorized one is captured.
\* Its id is not out before the checkout is saved.
PaymentStep(s) ==
  LET note(kind) == events' = Append(events,
        [kind |-> kind, sub |-> s,
         status |-> IF kind = "payment" THEN pay'[s] ELSE prov'[s].status]) IN
  /\ \A u \in Customers : req[u].step = "save" => req[u].sub # s
  /\ Len(events) < MaxEvents
  /\ \/ /\ prov[s].status = "created" /\ pay[s] = "none"
        /\ pay' = [pay EXCEPT ![s] = "failed"] /\ UNCHANGED prov
        /\ note("payment")
     \/ /\ prov[s].status = "created"
        /\ \E to \in {"authorized", "captured"} : pay' = [pay EXCEPT ![s] = to]
        /\ prov' = [prov EXCEPT ![s].status = "authenticated"]
        /\ note("payment") \/ note("subscription")
     \/ /\ pay[s] = "authorized"
        /\ pay' = [pay EXCEPT ![s] = "captured"] /\ UNCHANGED prov
        /\ note("payment")

Provider(s) ==
  /\ ProviderStep(s) \/ PaymentStep(s)
  /\ UNCHANGED <<row, payRow, ledger, applied, hook, req, faults>>

-----------------------------------------------------------------------------
(* POST razorpay/webhook.  The provider delivers an event until it is        *)
(* answered, and sometimes again.                                           *)

EventOf(h) == events[hook[h].event]
HookTo(h, step) == hook' = [hook EXCEPT ![h].step = step]
HookEnds(h) == hook' = [hook EXCEPT ![h] = IdleHook]
SetStatus(status) ==
  row' = [row EXCEPT !.status = status, !.recent = status = "PENDING",
                     !.atEnd = IF status \in {"ACTIVE", "CANCELED"} THEN FALSE ELSE @]

\* The lookup by eventId found nothing; a known event is refused at once.
DeliverEvent(h, e) ==
  /\ hook[h].step = "idle"
  /\ e \in DOMAIN events /\ ledger[e] = "none"
  /\ hook' = [hook EXCEPT ![h] = [step |-> "insert", event |-> e]]
  /\ UNCHANGED <<provVars, row, payRow, ledger, applied, req, faults>>

\* Fault: eventId is not unique, only the lookup guards it.
RecordEventAlways(h) ==
  LET e == hook[h].event IN
  /\ hook[h].step = "insert"
  /\ ledger' = [ledger EXCEPT ![e] = "received"]
  /\ applied' = [applied EXCEPT ![e] = @ + 1]
  /\ HookTo(h, "lookup")
  /\ UNCHANGED <<provVars, row, payRow, req, faults>>

\* The insert; the unique index refuses the loser of a race.
RecordEvent(h) ==
  LET e == hook[h].event IN
  /\ hook[h].step = "insert"
  /\ IF ledger[e] = "none"
     THEN /\ ledger' = [ledger EXCEPT ![e] = "received"]
          /\ applied' = [applied EXCEPT ![e] = @ + 1]
          /\ HookTo(h, "lookup")
     ELSE HookEnds(h) /\ UNCHANGED <<ledger, applied>>
  /\ UNCHANGED <<provVars, row, payRow, req, faults>>

\* findOrgBySubscription: only the subscription the row names now is known.
LookupOrg(h) ==
  /\ hook[h].step = "lookup"
  /\ HookTo(h, IF EventOf(h).sub = row.sub THEN "apply" ELSE "mark")
  /\ UNCHANGED <<provVars, row, payRow, ledger, applied, req, faults>>

\* The subscription branches that write at once, by organizationId.
ApplyStatus(h) ==
  /\ hook[h].step = "apply" /\ EventOf(h).kind = "subscription"
  /\ StatusFor(EventOf(h).status) # "PENDING"
  /\ SetStatus(StatusFor(EventOf(h).status))
  /\ HookTo(h, "mark")
  /\ UNCHANGED <<provVars, payRow, ledger, applied, req, faults>>

\* A PENDING event reads the row first and lets an ACTIVE one alone.
CheckPending(h) ==
  /\ hook[h].step = "apply" /\ EventOf(h).kind = "subscription"
  /\ StatusFor(EventOf(h).status) = "PENDING"
  /\ HookTo(h, IF row.status = "ACTIVE" THEN "mark" ELSE "pend")
  /\ UNCHANGED <<provVars, row, payRow, ledger, applied, req, faults>>

WritePending(h) ==
  /\ hook[h].step = "pend"
  /\ SetStatus("PENDING")
  /\ HookTo(h, "mark")
  /\ UNCHANGED <<provVars, payRow, ledger, applied, req, faults>>

\* Fault: an authorized payment is taken for a captured one.
UpsertPaymentAuthorized(h) ==
  LET status == PaymentStatusFor(EventOf(h).status) IN
  /\ hook[h].step = "apply" /\ EventOf(h).kind = "payment"
  /\ payRow' = [payRow EXCEPT ![EventOf(h).sub] = status]
  /\ HookTo(h, IF status \in {"CAPTURED", "AUTHORIZED"} THEN "paid" ELSE "mark")
  /\ UNCHANGED <<provVars, row, ledger, applied, req, faults>>

UpsertPayment(h) ==
  LET status == PaymentStatusFor(EventOf(h).status) IN
  /\ hook[h].step = "apply" /\ EventOf(h).kind = "payment"
  /\ payRow' = [payRow EXCEPT ![EventOf(h).sub] = status]
  /\ HookTo(h, IF status = "CAPTURED" THEN "paid" ELSE "mark")
  /\ UNCHANGED <<provVars, row, ledger, applied, req, faults>>

CheckPaid(h) ==
  /\ hook[h].step = "paid"
  /\ HookTo(h, IF row.status = "PENDING" THEN "activate" ELSE "mark")
  /\ UNCHANGED <<provVars, row, payRow, ledger, applied, req, faults>>

Activate(h) ==
  /\ hook[h].step = "activate"
  /\ SetStatus("ACTIVE")
  /\ HookTo(h, "mark")
  /\ UNCHANGED <<provVars, payRow, ledger, applied, req, faults>>

MarkProcessed(h) ==
  /\ hook[h].step = "mark"
  /\ ledger' = [ledger EXCEPT ![hook[h].event] = "processed"]
  /\ HookEnds(h)
  /\ UNCHANGED <<provVars, row, payRow, applied, req, faults>>

\* The application throws and the event row notes the error, or the process
\* dies: either way the event stays unprocessed, and known.
HookFails(h) ==
  /\ faults < MaxFaults
  /\ faults' = faults + 1
  /\ hook[h].step # "idle"
  /\ HookEnds(h)
  /\ UNCHANGED <<provVars, row, payRow, ledger, applied, req>>

HookStep(h) ==
  \/ \E e \in EventId : DeliverEvent(h, e)
  \/ RecordEvent(h) \/ LookupOrg(h) \/ ApplyStatus(h) \/ CheckPending(h)
  \/ WritePending(h) \/ UpsertPayment(h) \/ CheckPaid(h) \/ Activate(h)
  \/ MarkProcessed(h) \/ HookFails(h)

-----------------------------------------------------------------------------
(* Requests of the workspace's users (razorpay.service.ts).                 *)

Req(u, step) == req[u].step = step
ReqTo(u, step) == req' = [req EXCEPT ![u].step = step]
ReqOn(u, step, sub) == req' = [req EXCEPT ![u].step = step, ![u].sub = sub]
ReqEnds(u) == req' = [req EXCEPT ![u] = IdleReq]
tableVars == <<row, payRow, ledger, applied>>

\* The row holds a checkout of the same target, touched within REUSE_WINDOW_MS.
Reusable(plan) == row.status = "PENDING" /\ row.plan = plan /\ row.recent

\* createSubscription.  A blocking subscription ends it here: with an error, or
\* for a PENDING one with the checkout it already has.
Checkout(u, plan) ==
  /\ Req(u, "idle")
  /\ ~Blocking(row.status)
  /\ req' = [req EXCEPT ![u].step = "create", ![u].plan = plan,
                        ![u].found = row.status # "NONE"]
  /\ UNCHANGED <<provVars, tableVars, hook, faults>>

CreateAtProvider(u) ==
  /\ Req(u, "create")
  /\ \E s \in Sub : /\ prov[s].status = "absent"
                    /\ \A t \in 1..(s - 1) : prov[t].status # "absent"
                    /\ prov' = [prov EXCEPT ![s] = [status |-> "created",
                                                    plan |-> req[u].plan]]
                    /\ ReqOn(u, "save", s)
  /\ UNCHANGED <<pay, events, tableVars, hook, faults>>

\* An update if there was a row; else a create, refused if there is one by now.
SaveCheckout(u) ==
  /\ Req(u, "save")
  /\ row' = IF ~req[u].found /\ row.status # "NONE" THEN row
            ELSE [status |-> "PENDING", sub |-> req[u].sub, plan |-> req[u].plan,
                  recent |-> TRUE, atEnd |-> FALSE]
  /\ ReqEnds(u)
  /\ UNCHANGED <<provVars, payRow, ledger, applied, hook, faults>>

ReuseWindowPasses ==
  /\ row.recent
  /\ row' = [row EXCEPT !.recent = FALSE]
  /\ UNCHANGED <<provVars, payRow, ledger, applied, hook, req, faults>>

\* verifyCheckout: the signature exists once the provider took the payment up.
VerifyCheckout(u) ==
  /\ Req(u, "idle")
  /\ row.sub # NoSub /\ pay[row.sub] # "none"
  /\ ReqOn(u, "fetch", row.sub)
  /\ UNCHANGED <<provVars, tableVars, hook, faults>>

VerifyFetch(u) ==
  LET s == req[u].sub IN
  /\ Req(u, "fetch")
  /\ req' = [req EXCEPT ![u].step = "record", ![u].paid = pay[s],
               ![u].status = IF prov[s].status = "active" \/ pay[s] = "captured"
                             THEN "ACTIVE" ELSE "PENDING"]
  /\ UNCHANGED <<provVars, tableVars, hook, faults>>

\* Fault: every payment with a valid signature is recorded as captured.
VerifyRecordCaptured(u) ==
  /\ Req(u, "record")
  /\ payRow' = [payRow EXCEPT ![req[u].sub] = "CAPTURED"]
  /\ IF req[u].paid = "failed" THEN ReqEnds(u) ELSE ReqTo(u, "grant")
  /\ UNCHANGED <<provVars, row, ledger, applied, hook, faults>>

\* The payment row; a payment neither captured nor authorized ends the request.
VerifyRecord(u) ==
  /\ Req(u, "record")
  /\ payRow' = [payRow EXCEPT ![req[u].sub] = PaymentStatusFor(req[u].paid)]
  /\ IF req[u].paid = "failed" THEN ReqEnds(u) ELSE ReqTo(u, "grant")
  /\ UNCHANGED <<provVars, row, ledger, applied, hook, faults>>

VerifyGrant(u) ==
  /\ Req(u, "grant")
  /\ row' = [row EXCEPT !.status = req[u].status, !.atEnd = FALSE,
                        !.recent = req[u].status = "PENDING"]
  /\ ReqEnds(u)
  /\ UNCHANGED <<provVars, payRow, ledger, applied, hook, faults>>

\* syncFromProvider, up to the provider's answer.
Sync(u) ==
  /\ Req(u, "idle") /\ row.sub # NoSub
  /\ ReqOn(u, "sync", row.sub)
  /\ UNCHANGED <<provVars, tableVars, hook, faults>>

SyncFetch(u) ==
  /\ Req(u, "sync")
  /\ req' = [req EXCEPT ![u].step = "apply",
                        ![u].status = StatusFor(prov[req[u].sub].status)]
  /\ UNCHANGED <<provVars, tableVars, hook, faults>>

\* applyProviderState; a PENDING answer reads the row first.
ApplyState(u) ==
  /\ Req(u, "apply")
  /\ IF req[u].status = "PENDING"
     THEN /\ IF row.status = "ACTIVE" THEN ReqEnds(u) ELSE ReqTo(u, "pend")
          /\ UNCHANGED row
     ELSE SetStatus(req[u].status) /\ ReqEnds(u)
  /\ UNCHANGED <<provVars, payRow, ledger, applied, hook, faults>>

ApplyPending(u) ==
  /\ Req(u, "pend")
  /\ SetStatus("PENDING")
  /\ ReqEnds(u)
  /\ UNCHANGED <<provVars, payRow, ledger, applied, hook, faults>>

\* reactivate: only a PAUSED row is resumed, at the provider first.
Reactivate(u) ==
  /\ Req(u, "idle") /\ row.status = "PAUSED"
  /\ ReqOn(u, "resume", row.sub)
  /\ UNCHANGED <<provVars, tableVars, hook, faults>>

\* The provider resumes a paused subscription and refuses any other.
Resume(u) ==
  /\ Req(u, "resume")
  /\ IF prov[req[u].sub].status = "paused"
     THEN /\ ProvMove(req[u].sub, "active")
          /\ req' = [req EXCEPT ![u].step = "apply", ![u].status = "ACTIVE"]
     ELSE ReqEnds(u) /\ UNCHANGED <<prov, events>>
  /\ UNCHANGED <<pay, tableVars, hook, faults>>

Cancel(u) ==
  /\ Req(u, "idle") /\ row.sub # NoSub
  /\ ReqOn(u, "cancel", row.sub)
  /\ UNCHANGED <<provVars, tableVars, hook, faults>>

\* Without a billing cycle the cancellation is immediate.
CancelFetch(u) ==
  /\ Req(u, "cancel")
  /\ ReqTo(u, IF prov[req[u].sub].status \in {"created", "authenticated", "pending"}
              THEN "cancelNow" ELSE "cancelLater")
  /\ UNCHANGED <<provVars, tableVars, hook, faults>>

\* The provider refuses to cancel what has ended; the request fails with it.
Ending == {"cancelled", "expired"}

CancelNow(u) ==
  /\ Req(u, "cancelNow")
  /\ IF prov[req[u].sub].status \in Ending
     THEN ReqEnds(u) /\ UNCHANGED <<prov, events>>
     ELSE ProvMove(req[u].sub, "cancelled") /\ ReqTo(u, "saveNow")
  /\ UNCHANGED <<pay, tableVars, hook, faults>>

CancelLater(u) ==
  /\ Req(u, "cancelLater")
  /\ IF prov[req[u].sub].status \in Ending THEN ReqEnds(u) ELSE ReqTo(u, "saveLater")
  /\ UNCHANGED <<provVars, tableVars, hook, faults>>

SaveCancelNow(u) ==
  /\ Req(u, "saveNow")
  /\ SetStatus("CANCELED")
  /\ ReqEnds(u)
  /\ UNCHANGED <<provVars, payRow, ledger, applied, hook, faults>>

SaveCancelLater(u) ==
  /\ Req(u, "saveLater")
  /\ row' = [row EXCEPT !.atEnd = TRUE, !.recent = row.status = "PENDING"]
  /\ ReqEnds(u)
  /\ UNCHANGED <<provVars, payRow, ledger, applied, hook, faults>>

\* The process dies, or a database or provider call throws.
CustomerFails(u) ==
  /\ faults < MaxFaults
  /\ faults' = faults + 1
  /\ req[u].step # "idle"
  /\ ReqEnds(u)
  /\ UNCHANGED <<provVars, tableVars, hook>>

ReqStep(u) ==
  \/ \E plan \in Plans : Checkout(u, plan)
  \/ CreateAtProvider(u) \/ SaveCheckout(u)
  \/ VerifyCheckout(u) \/ VerifyFetch(u) \/ VerifyRecord(u) \/ VerifyGrant(u)
  \/ Sync(u) \/ SyncFetch(u) \/ ApplyState(u) \/ ApplyPending(u)
  \/ Reactivate(u) \/ Resume(u)
  \/ Cancel(u) \/ CancelFetch(u) \/ CancelNow(u) \/ CancelLater(u)
  \/ SaveCancelNow(u) \/ SaveCancelLater(u) \/ CustomerFails(u)

NextBilling ==
  \/ ReuseWindowPasses
  \/ \E s \in Sub : Provider(s)
  \/ \E h \in Hooks : HookStep(h)
  \/ \E u \in Customers : ReqStep(u)

SpecBilling == InitBilling /\ [][NextBilling]_billingVars

-----------------------------------------------------------------------------
(* Properties that hold.                                                    *)

ProvTypes ==
  /\ prov \in [Sub -> [status : ProvStatus, plan : Plans \union {NoPlan}]]
  /\ pay \in [Sub -> PayStatus]
  /\ events \in Seq(Event) /\ Len(events) <= MaxEvents

RowTypes ==
  /\ row \in Row
  /\ payRow \in [Sub -> {"NONE", "CREATED", "AUTHORIZED", "CAPTURED", "FAILED"}]

LedgerTypes ==
  /\ ledger \in [EventId -> {"none", "received", "processed"}]
  /\ applied \in [EventId -> Nat]

HookTypes == hook \in [Hooks -> [step : HookSteps, event : 0..MaxEvents]]

ReqTypes ==
  req \in [Customers -> [step : ReqSteps, sub : Sub \union {NoSub}, found : BOOLEAN,
                    plan : Plans \union {NoPlan}, paid : PayStatus,
                    status : RowStatus]]

\* Type correctness of the provider, the tables and the requests in progress.
BillingTypeOK ==
  ProvTypes /\ RowTypes /\ LedgerTypes /\ HookTypes /\ ReqTypes /\ faults \in Nat

\* "Concurrent retries can both pass the findUnique guard above; the unique
\* constraint is the real arbiter": no event is applied by two handlers.
AppliedOnce == \A e \in EventId : applied[e] <= 1

\* Whatever was delivered, verified, synchronised or resumed, and in whatever
\* order: the workspace is ACTIVE only if the provider captured a payment of one
\* of its subscriptions ("provider state proves money").
ActiveIsPaid == row.status = "ACTIVE" => \E s \in Sub : pay[s] = "captured"

\* A payment is recorded as captured only if it was, late and repeated events
\* and verifications of an earlier state included.
CapturedIsCaptured == \A s \in Sub : payRow[s] = "CAPTURED" => pay[s] = "captured"

-----------------------------------------------------------------------------
(* Statements of the comments the code does not keep.                       *)

\* "Out-of-order delivery never regresses a live subscription": while the
\* provider says active and an event saying so has been applied, no handler of an
\* earlier event takes the row from ACTIVE.
LiveNeverRegresses ==
  [][\A h \in Hooks, e \in DOMAIN events :
       /\ hook'[h] # hook[h] /\ row.status = "ACTIVE" /\ row'.status # "ACTIVE"
       /\ prov[row.sub].status = "active"
       /\ ledger[e] = "processed"
       /\ events[e] = [kind |-> "subscription", sub |-> row.sub, status |-> "active"]
       => e < hook[h].event]_billingVars

\* "Idempotent reuse: a PENDING subscription for the same plan/interval/currency
\* created recently returns its checkout payload instead of a duplicate".
PendingCheckoutReused ==
  [][\A u \in Customers : req[u].step = "idle" /\ req'[u].step = "create"
       => ~Reusable(req'[u].plan)]_billingVars
=============================================================================
