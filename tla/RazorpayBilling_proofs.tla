----------------------- MODULE RazorpayBilling_proofs -----------------------
(***************************************************************************)
(* Machine-checked theorems about RazorpayBilling, for every value of its   *)
(* constants that satisfies BillingAssumption.                              *)
(***************************************************************************)
EXTENDS RazorpayBilling, TLAPS

-----------------------------------------------------------------------------
(* The inductive invariant.                                                 *)

Paid == \E s \in Sub : pay[s] = "captured"

\* The provider takes the money before it serves, and never gives it back here.
ServedIsPaid ==
  \A s \in Sub :
    /\ prov[s].status \in {"absent", "created"} => pay[s] \in {"none", "failed"}
    /\ prov[s].status \in {"active", "pending", "halted", "paused"} => pay[s] = "captured"

\* An event stays true: what was active or captured was paid, and still is.
EventsTrue ==
  \A e \in DOMAIN events :
    events[e].status \in {"active", "captured"} => pay[events[e].sub] = "captured"

\* A row that names no subscription has never been written.
RowNamed == row.sub = NoSub => row.status = "NONE"

\* What a webhook handler has in hand.
HooksKnow ==
  \A h \in Hooks :
    /\ hook[h].step # "idle" => hook[h].event \in DOMAIN events
    /\ hook[h].step \in {"apply", "pend", "paid", "activate"} => row.sub # NoSub
    /\ hook[h].step \in {"paid", "activate"} => Paid

\* What a user's request has in hand.
ReqsKnow ==
  \A u \in Customers :
    /\ req[u].step \notin {"idle", "create", "save"} => row.sub # NoSub
    /\ req[u].step \notin {"idle", "create"} => req[u].sub \in Sub
    /\ req[u].status = "ACTIVE" => Paid
    /\ req[u].paid = "captured" =>
         req[u].step \in {"record", "grant"} /\ pay[req[u].sub] = "captured"

\* An event without a ledger row has not been applied.
UnknownIsUnapplied ==
  \A e \in EventId : applied[e] <= 1 /\ (ledger[e] = "none" => applied[e] = 0)

Knowledge == ServedIsPaid /\ EventsTrue /\ RowNamed /\ HooksKnow /\ ReqsKnow

IInv ==
  BillingTypeOK /\ Knowledge /\ UnknownIsUnapplied /\ ActiveIsPaid /\ CapturedIsCaptured

-----------------------------------------------------------------------------
LEMMA InitInv == InitBilling => IInv
<1> SUFFICES ASSUME InitBilling PROVE IInv
  OBVIOUS
<1> USE BillingAssumption DEF InitBilling, BillingAssumption
<1>1. ProvTypes /\ RowTypes /\ LedgerTypes
  BY DEF ProvTypes, RowTypes, LedgerTypes, Sub, EventId, ProvStatus, PayStatus, Row,
         NoRow, RowStatus, NoSub
<1>2. HookTypes /\ ReqTypes
  BY DEF HookTypes, ReqTypes, IdleHook, IdleReq, HookSteps, ReqSteps, NoSub, PayStatus,
         RowStatus
<1>3. Knowledge
  BY DEF Knowledge, ServedIsPaid, EventsTrue, RowNamed, HooksKnow, ReqsKnow, IdleHook,
         IdleReq, NoRow
<1>4. UnknownIsUnapplied /\ ActiveIsPaid /\ CapturedIsCaptured
  BY DEF UnknownIsUnapplied, ActiveIsPaid, CapturedIsCaptured, NoRow
<1>5. QED
  BY <1>1, <1>2, <1>3, <1>4 DEF IInv, BillingTypeOK

-----------------------------------------------------------------------------
(* The helpers of the actions.                                              *)

LEMMA HookToOne ==
  ASSUME HookTypes, NEW h \in Hooks, NEW step \in HookSteps, HookTo(h, step)
  PROVE  /\ HookTypes'
         /\ hook'[h].step = step /\ hook'[h].event = hook[h].event
         /\ \A g \in Hooks : g # h => hook'[g] = hook[g]
BY DEF HookTypes, HookTo

LEMMA HookEndsOne ==
  ASSUME HookTypes, BillingAssumption, NEW h \in Hooks, HookEnds(h)
  PROVE  /\ HookTypes'
         /\ hook'[h].step = "idle"
         /\ \A g \in Hooks : g # h => hook'[g] = hook[g]
BY DEF HookTypes, HookEnds, IdleHook, HookSteps, BillingAssumption

LEMMA ReqToOne ==
  ASSUME ReqTypes, NEW u \in Customers, NEW step \in ReqSteps, ReqTo(u, step)
  PROVE  /\ ReqTypes'
         /\ req'[u] = [req[u] EXCEPT !.step = step]
         /\ \A v \in Customers : v # u => req'[v] = req[v]
BY DEF ReqTypes, ReqTo

LEMMA ReqOnOne ==
  ASSUME ReqTypes, NEW u \in Customers, NEW step \in ReqSteps,
         NEW s \in Sub \union {NoSub}, ReqOn(u, step, s)
  PROVE  /\ ReqTypes'
         /\ req'[u] = [req[u] EXCEPT !.step = step, !.sub = s]
         /\ \A v \in Customers : v # u => req'[v] = req[v]
BY DEF ReqTypes, ReqOn

LEMMA ReqEndsOne ==
  ASSUME ReqTypes, NEW u \in Customers, ReqEnds(u)
  PROVE  /\ ReqTypes'
         /\ req'[u] = IdleReq
         /\ \A v \in Customers : v # u => req'[v] = req[v]
BY DEF ReqTypes, ReqEnds, IdleReq, ReqSteps, NoSub, PayStatus, RowStatus

LEMMA SetStatusOnly ==
  ASSUME row \in Row, NEW status \in RowStatus, SetStatus(status)
  PROVE  row' \in Row /\ row'.status = status /\ row'.sub = row.sub
BY DEF Row, SetStatus

LEMMA StatusForType ==
  ASSUME NEW x
  PROVE  StatusFor(x) \in RowStatus /\ (StatusFor(x) = "ACTIVE" => x = "active")
BY DEF StatusFor, RowStatus

LEMMA PaymentStatusForType ==
  ASSUME NEW x
  PROVE  /\ PaymentStatusFor(x) \in {"CREATED", "AUTHORIZED", "CAPTURED", "FAILED"}
         /\ PaymentStatusFor(x) = "CAPTURED" => x = "captured"
BY DEF PaymentStatusFor

LEMMA EventType ==
  ASSUME ProvTypes, NEW e \in DOMAIN events
  PROVE  e \in EventId /\ events[e] \in Event /\ events[e].sub \in Sub
<1>1. events \in Seq(Event) /\ Len(events) \in Nat /\ Len(events) <= MaxEvents
  BY DEF ProvTypes
<1>2. e \in 1..Len(events) /\ events[e] \in Event
  BY <1>1
<1>3. QED
  BY <1>1, <1>2, BillingAssumption DEF BillingAssumption, Event, EventId

LEMMA Announced ==
  ASSUME ProvTypes, NEW event \in Event, Len(events) < MaxEvents,
         events' = Append(events, event)
  PROVE  /\ events' \in Seq(Event) /\ Len(events') <= MaxEvents
         /\ DOMAIN events \subseteq DOMAIN events'
         /\ \A e \in DOMAIN events' :
              \/ e \in DOMAIN events /\ events'[e] = events[e]
              \/ events'[e] = event
<1>1. events \in Seq(Event) /\ Len(events) \in Nat /\ MaxEvents \in Nat
  BY BillingAssumption DEF ProvTypes, BillingAssumption
<1>2. events' \in Seq(Event) /\ Len(events') = Len(events) + 1
  BY <1>1
<1>3. QED
  BY <1>1, <1>2

LEMMA MoveKeeps ==
  ASSUME ProvTypes, ServedIsPaid, EventsTrue, NEW s \in Sub, NEW to \in ProvStatus,
         ProvMove(s, to), UNCHANGED pay,
         to \in {"absent", "created"} => pay[s] \in {"none", "failed"},
         to \in {"active", "pending", "halted", "paused"} => pay[s] = "captured"
  PROVE  ProvTypes' /\ ServedIsPaid' /\ EventsTrue' /\ DOMAIN events \subseteq DOMAIN events'
<1> DEFINE event == [kind |-> "subscription", sub |-> s, status |-> to]
<1>1. /\ event \in Event /\ Len(events) < MaxEvents
      /\ events' = Append(events, event)
      /\ prov' = [prov EXCEPT ![s].status = to]
  BY DEF ProvMove, Event
<1>2. event.status = to /\ event.sub = s
  OBVIOUS
<1> HIDE DEF event
<1>3. prov' \in [Sub -> [status : ProvStatus, plan : Plans \union {NoPlan}]]
  BY <1>1 DEF ProvTypes
<1>4. ProvTypes'
  BY <1>1, <1>3, Announced DEF ProvTypes
<1>5. \A t \in Sub : prov'[t].status = IF t = s THEN to ELSE prov[t].status
  BY <1>1 DEF ProvTypes
<1>6. ServedIsPaid'
  BY <1>5 DEF ServedIsPaid
<1>7. EventsTrue'
  <2> SUFFICES ASSUME NEW e \in DOMAIN events', events'[e].status \in {"active", "captured"}
               PROVE  pay'[events'[e].sub] = "captured"
    BY DEF EventsTrue
  <2>1. CASE e \in DOMAIN events /\ events'[e] = events[e]
    BY <2>1 DEF EventsTrue
  <2>2. CASE events'[e] = event
    BY <2>2, <1>2 DEF ProvStatus
  <2>3. QED
    BY <2>1, <2>2, <1>1, Announced
<1>8. QED
  BY <1>1, <1>4, <1>6, <1>7, Announced

LEMMA PaymentKeeps ==
  ASSUME ProvTypes, ServedIsPaid, EventsTrue, NEW s \in Sub, PaymentStep(s)
  PROVE  /\ ProvTypes' /\ ServedIsPaid' /\ EventsTrue'
         /\ DOMAIN events \subseteq DOMAIN events'
         /\ \A t \in Sub : pay[t] = "captured" => pay'[t] = "captured"
<1>1. /\ pay' \in [Sub -> PayStatus]
      /\ prov' \in [Sub -> [status : ProvStatus, plan : Plans \union {NoPlan}]]
      /\ \A t \in Sub : t # s => pay'[t] = pay[t] /\ prov'[t] = prov[t]
  BY DEF PaymentStep, ProvTypes, PayStatus, ProvStatus
<1>2. \A t \in Sub : pay[t] = "captured" => pay'[t] = "captured"
  BY <1>1 DEF PaymentStep, ServedIsPaid, ProvTypes
<1>3. ServedIsPaid'
  BY <1>1 DEF PaymentStep, ServedIsPaid, ProvTypes
<1>4. PICK event \in Event :
        /\ Len(events) < MaxEvents /\ events' = Append(events, event)
        /\ event.sub = s
        /\ event.status \in {"active", "captured"} => pay'[s] = "captured"
  <2> DEFINE note(kind) == [kind |-> kind, sub |-> s,
               status |-> IF kind = "payment" THEN pay'[s] ELSE prov'[s].status]
  <2>1. note("payment") \in Event /\ note("subscription") \in Event
    BY <1>1 DEF Event
  <2>2. note("payment").sub = s /\ note("payment").status = pay'[s]
    OBVIOUS
  <2>3. note("subscription").sub = s /\ note("subscription").status = prov'[s].status
    OBVIOUS
  <2>4. Len(events) < MaxEvents /\ pay'[s] # "active"
    BY <1>1 DEF PaymentStep, PayStatus
  <2>5. CASE events' = Append(events, note("payment"))
    BY <2>1, <2>2, <2>4, <2>5
  <2>6. CASE events' = Append(events, note("subscription")) /\ prov'[s].status = "authenticated"
    BY <2>1, <2>3, <2>4, <2>6
  <2>7. \/ events' = Append(events, note("payment"))
        \/ events' = Append(events, note("subscription")) /\ prov'[s].status = "authenticated"
    BY DEF PaymentStep, ProvTypes
  <2>8. QED
    BY <2>5, <2>6, <2>7
<1>5. ProvTypes'
  BY <1>1, <1>4, Announced DEF ProvTypes
<1>6. EventsTrue'
  <2> SUFFICES ASSUME NEW e \in DOMAIN events', events'[e].status \in {"active", "captured"}
               PROVE  pay'[events'[e].sub] = "captured"
    BY DEF EventsTrue
  <2>1. CASE e \in DOMAIN events /\ events'[e] = events[e]
    BY <2>1, <1>2, EventType DEF EventsTrue
  <2>2. CASE events'[e] = event
    BY <2>2, <1>4
  <2>3. QED
    BY <2>1, <2>2, <1>4, Announced
<1>7. QED
  BY <1>2, <1>3, <1>4, <1>5, <1>6, Announced

LEMMA ProviderKeeps ==
  ASSUME ProvTypes, ServedIsPaid, EventsTrue, NEW s \in Sub, Provider(s)
  PROVE  /\ ProvTypes' /\ ServedIsPaid' /\ EventsTrue'
         /\ DOMAIN events \subseteq DOMAIN events'
         /\ \A t \in Sub : pay[t] = "captured" => pay'[t] = "captured"
<1>1. CASE PaymentStep(s)
  BY <1>1, PaymentKeeps
<1>2. CASE ProviderStep(s)
  <2>1. UNCHANGED pay
    BY <1>2 DEF ProviderStep
  <2>2. CASE prov[s].status = "authenticated" /\ pay[s] = "captured" /\ ProvMove(s, "active")
    BY <2>1, <2>2, MoveKeeps DEF ProvStatus
  <2>3. CASE \E to \in ProvStatus : <<prov[s].status, to>> \in ProvLifecycle /\ ProvMove(s, to)
    <3>1. PICK to \in ProvStatus : <<prov[s].status, to>> \in ProvLifecycle /\ ProvMove(s, to)
      BY <2>3
    <3>2. /\ to \notin {"absent", "created"}
          /\ to \in {"active", "pending", "halted", "paused"} => pay[s] = "captured"
      BY <3>1 DEF ProvLifecycle, ServedIsPaid
    <3>3. QED
      BY <2>1, <3>1, <3>2, MoveKeeps
  <2>4. QED
    BY <1>2, <2>2, <2>3 DEF ProviderStep
<1>3. QED
  BY <1>1, <1>2 DEF Provider

-----------------------------------------------------------------------------
(* The steps of the provider.                                               *)

LEMMA ProviderInv ==
  ASSUME IInv, NEW s \in Sub, Provider(s)
  PROVE  IInv'
<1> USE DEF IInv, BillingTypeOK, Knowledge
<1>1. /\ ProvTypes' /\ ServedIsPaid' /\ EventsTrue'
      /\ DOMAIN events \subseteq DOMAIN events'
      /\ \A t \in Sub : pay[t] = "captured" => pay'[t] = "captured"
  BY ProviderKeeps
<1>2. UNCHANGED <<row, payRow, ledger, applied, hook, req, faults>>
  BY DEF Provider
<1>3. RowTypes' /\ LedgerTypes' /\ HookTypes' /\ ReqTypes' /\ faults' \in Nat
  BY <1>2 DEF RowTypes, LedgerTypes, HookTypes, ReqTypes
<1>4. Paid => Paid'
  BY <1>1 DEF Paid
<1>5. RowNamed' /\ HooksKnow'
  BY <1>1, <1>2, <1>4 DEF RowNamed, HooksKnow
<1>6. ReqsKnow'
  BY <1>1, <1>2, <1>4 DEF ReqsKnow
<1>7. UnknownIsUnapplied' /\ ActiveIsPaid' /\ CapturedIsCaptured'
  BY <1>1, <1>2, <1>4 DEF UnknownIsUnapplied, ActiveIsPaid, CapturedIsCaptured, Paid
<1>8. QED
  BY <1>1, <1>3, <1>5, <1>6, <1>7

-----------------------------------------------------------------------------
(* The steps of a webhook handler.                                          *)

\* Whatever it does to its own state, the row and the ledger.
LEMMA HookCombine ==
  ASSUME IInv, UNCHANGED <<provVars, req>>, faults' \in Nat,
         RowTypes', row'.sub = row.sub, row'.status = "ACTIVE" => Paid,
         row.sub = NoSub => row'.status = "NONE",
         \A s \in Sub : payRow'[s] = "CAPTURED" => pay[s] = "captured",
         LedgerTypes', UnknownIsUnapplied', HookTypes',
         NEW h \in Hooks, \A g \in Hooks : g # h => hook'[g] = hook[g],
         hook'[h].step # "idle" => hook'[h].event \in DOMAIN events,
         hook'[h].step \in {"apply", "pend", "paid", "activate"} => row.sub # NoSub,
         hook'[h].step \in {"paid", "activate"} => Paid
  PROVE  IInv'
<1> USE DEF IInv, BillingTypeOK, Knowledge
<1>1. ProvTypes' /\ ServedIsPaid' /\ EventsTrue' /\ ReqTypes' /\ (Paid' <=> Paid)
  BY DEF provVars, ProvTypes, ServedIsPaid, EventsTrue, ReqTypes, Paid
<1>2. RowNamed'
  BY DEF RowNamed
<1>3. HooksKnow'
  BY <1>1 DEF HooksKnow, provVars
<1>4. ReqsKnow'
  BY <1>1 DEF ReqsKnow, provVars
<1>5. ActiveIsPaid' /\ CapturedIsCaptured'
  BY <1>1 DEF ActiveIsPaid, CapturedIsCaptured, provVars, Paid
<1>6. QED
  BY <1>1, <1>2, <1>3, <1>4, <1>5

\* A handler that only moves on, or ends.
LEMMA HookOnly ==
  ASSUME IInv, UNCHANGED <<provVars, row, payRow, ledger, applied, req>>,
         faults' \in Nat, HookTypes',
         NEW h \in Hooks, \A g \in Hooks : g # h => hook'[g] = hook[g],
         hook'[h].step # "idle" => hook'[h].event \in DOMAIN events,
         hook'[h].step \in {"apply", "pend", "paid", "activate"} => row.sub # NoSub,
         hook'[h].step \in {"paid", "activate"} => Paid
  PROVE  IInv'
<1> USE DEF IInv, BillingTypeOK, Knowledge
<1>1. RowTypes' /\ LedgerTypes' /\ UnknownIsUnapplied'
  BY DEF RowTypes, LedgerTypes, UnknownIsUnapplied
<1>2. /\ row'.sub = row.sub /\ (row'.status = "ACTIVE" => Paid)
      /\ row.sub = NoSub => row'.status = "NONE"
      /\ \A s \in Sub : payRow'[s] = "CAPTURED" => pay[s] = "captured"
  BY DEF ActiveIsPaid, CapturedIsCaptured, RowNamed, Paid
<1>3. QED
  BY <1>1, <1>2, HookCombine

\* A handler that writes a status and goes to its mark.
LEMMA HookWrites ==
  ASSUME IInv, NEW h \in Hooks, NEW status \in RowStatus,
         SetStatus(status), HookTo(h, "mark"), hook[h].step # "idle",
         row.sub # NoSub, status = "ACTIVE" => Paid,
         UNCHANGED <<provVars, payRow, ledger, applied, req, faults>>
  PROVE  IInv'
<1> USE DEF IInv, BillingTypeOK, Knowledge
<1>1. HookTypes' /\ hook'[h].step = "mark" /\ hook'[h].event = hook[h].event
      /\ \A g \in Hooks : g # h => hook'[g] = hook[g]
  BY HookToOne DEF HookSteps
<1>2. RowTypes' /\ row'.status = status /\ row'.sub = row.sub
  BY SetStatusOnly DEF RowTypes
<1>3. LedgerTypes' /\ UnknownIsUnapplied'
  BY DEF LedgerTypes, UnknownIsUnapplied
<1>4. hook[h].event \in DOMAIN events
  BY DEF HooksKnow
<1>5. \A s \in Sub : payRow'[s] = "CAPTURED" => pay[s] = "captured"
  BY DEF CapturedIsCaptured
<1>6. QED
  BY <1>1, <1>2, <1>3, <1>4, <1>5, HookCombine

LEMMA DeliverInv ==
  ASSUME IInv, NEW h \in Hooks, NEW e \in EventId, DeliverEvent(h, e)
  PROVE  IInv'
<1> USE DEF IInv, BillingTypeOK
<1>1. HookTypes' /\ hook'[h].step = "insert" /\ hook'[h].event \in DOMAIN events
      /\ \A g \in Hooks : g # h => hook'[g] = hook[g]
  BY EventType, BillingAssumption
     DEF DeliverEvent, HookTypes, HookSteps, EventId, BillingAssumption
<1>2. QED
  BY <1>1, HookOnly DEF DeliverEvent

LEMMA RecordEventInv ==
  ASSUME IInv, NEW h \in Hooks, RecordEvent(h)
  PROVE  IInv'
<1> USE DEF IInv, BillingTypeOK, Knowledge
<1> DEFINE e == hook[h].event
<1>1. e \in DOMAIN events /\ e \in EventId
  BY EventType DEF RecordEvent, HooksKnow
<1>2. CASE ledger[e] = "none"
  <2>1. HookTypes' /\ hook'[h].step = "lookup" /\ hook'[h].event = e
        /\ \A g \in Hooks : g # h => hook'[g] = hook[g]
    BY <1>2, HookToOne DEF RecordEvent, HookSteps
  <2>2. /\ ledger' = [ledger EXCEPT ![e] = "received"]
        /\ applied' = [applied EXCEPT ![e] = @ + 1]
    BY <1>2 DEF RecordEvent
  <2>3. LedgerTypes' /\ UnknownIsUnapplied'
    BY <1>1, <1>2, <2>2 DEF LedgerTypes, UnknownIsUnapplied
  <2>4. /\ UNCHANGED <<provVars, row, payRow, req, faults>>
        /\ RowTypes' /\ (row'.status = "ACTIVE" => Paid)
        /\ row.sub = NoSub => row'.status = "NONE"
        /\ \A s \in Sub : payRow'[s] = "CAPTURED" => pay[s] = "captured"
    BY DEF RecordEvent, RowTypes, ActiveIsPaid, CapturedIsCaptured, RowNamed, Paid
  <2>5. QED
    BY <1>1, <2>1, <2>3, <2>4, HookCombine
<1>3. CASE ledger[e] # "none"
  BY <1>3, HookEndsOne, BillingAssumption, HookOnly DEF RecordEvent
<1>4. QED
  BY <1>2, <1>3

LEMMA LookupOrgInv ==
  ASSUME IInv, NEW h \in Hooks, LookupOrg(h)
  PROVE  IInv'
<1> USE DEF IInv, BillingTypeOK, Knowledge
<1>1. hook[h].event \in DOMAIN events /\ EventOf(h).sub \in Sub
  BY EventType DEF LookupOrg, HooksKnow, EventOf
<1>2. EventOf(h).sub # NoSub
  BY <1>1 DEF Sub, NoSub
<1>3. QED
  BY <1>1, <1>2, HookToOne, HookOnly DEF LookupOrg, HookSteps

LEMMA ApplyStatusInv ==
  ASSUME IInv, NEW h \in Hooks, ApplyStatus(h)
  PROVE  IInv'
<1> USE DEF IInv, BillingTypeOK, Knowledge
<1>1. /\ hook[h].step # "idle" /\ row.sub # NoSub
      /\ hook[h].event \in DOMAIN events /\ EventOf(h).sub \in Sub
  BY EventType DEF ApplyStatus, HooksKnow, EventOf
<1>2. StatusFor(EventOf(h).status) = "ACTIVE" => Paid
  BY <1>1, StatusForType DEF EventsTrue, EventOf, Paid
<1>3. QED
  BY <1>1, <1>2, StatusForType, HookWrites DEF ApplyStatus

LEMMA CheckPendingInv ==
  ASSUME IInv, NEW h \in Hooks, CheckPending(h)
  PROVE  IInv'
<1> USE DEF IInv, BillingTypeOK, Knowledge
<1>1. hook[h].event \in DOMAIN events /\ row.sub # NoSub
  BY DEF CheckPending, HooksKnow
<1>2. QED
  BY <1>1, HookToOne, HookOnly DEF CheckPending, HookSteps

LEMMA WritePendingInv ==
  ASSUME IInv, NEW h \in Hooks, WritePending(h)
  PROVE  IInv'
BY HookWrites DEF WritePending, RowStatus, HooksKnow, IInv, Knowledge

LEMMA UpsertPaymentInv ==
  ASSUME IInv, NEW h \in Hooks, UpsertPayment(h)
  PROVE  IInv'
<1> USE DEF IInv, BillingTypeOK, Knowledge
<1> DEFINE s == EventOf(h).sub
           status == PaymentStatusFor(EventOf(h).status)
<1>1. /\ hook[h].event \in DOMAIN events /\ s \in Sub /\ row.sub # NoSub
      /\ payRow' = [payRow EXCEPT ![s] = status]
      /\ UNCHANGED <<provVars, row, ledger, applied, req, faults>>
  BY EventType DEF UpsertPayment, HooksKnow, EventOf
<1>2. status = "CAPTURED" => pay[s] = "captured"
  BY <1>1, PaymentStatusForType DEF EventsTrue, EventOf
<1>3. status \in {"CREATED", "AUTHORIZED", "CAPTURED", "FAILED"}
  BY PaymentStatusForType
<1>4. /\ HookTypes' /\ hook'[h].event = hook[h].event
      /\ hook'[h].step = IF status = "CAPTURED" THEN "paid" ELSE "mark"
      /\ \A g \in Hooks : g # h => hook'[g] = hook[g]
  BY HookToOne DEF UpsertPayment, HookSteps
<1> HIDE DEF s, status
<1>5. RowTypes' /\ \A t \in Sub : payRow'[t] = "CAPTURED" => pay[t] = "captured"
  BY <1>1, <1>2, <1>3 DEF RowTypes, CapturedIsCaptured
<1>6. LedgerTypes' /\ UnknownIsUnapplied'
  BY <1>1 DEF LedgerTypes, UnknownIsUnapplied
<1>7. row'.sub = row.sub /\ (row'.status = "ACTIVE" => Paid)
  BY <1>1 DEF ActiveIsPaid, Paid
<1>8. status = "CAPTURED" => Paid
  BY <1>1, <1>2 DEF Paid
<1>9. QED
  BY <1>1, <1>4, <1>5, <1>6, <1>7, <1>8, HookCombine

LEMMA CheckPaidInv ==
  ASSUME IInv, NEW h \in Hooks, CheckPaid(h)
  PROVE  IInv'
<1> USE DEF IInv, BillingTypeOK, Knowledge
<1>1. hook[h].event \in DOMAIN events /\ row.sub # NoSub /\ Paid
  BY DEF CheckPaid, HooksKnow
<1>2. QED
  BY <1>1, HookToOne, HookOnly DEF CheckPaid, HookSteps

LEMMA ActivateInv ==
  ASSUME IInv, NEW h \in Hooks, Activate(h)
  PROVE  IInv'
BY HookWrites DEF Activate, RowStatus, HooksKnow, IInv, Knowledge

LEMMA MarkProcessedInv ==
  ASSUME IInv, NEW h \in Hooks, MarkProcessed(h)
  PROVE  IInv'
<1> USE DEF IInv, BillingTypeOK, Knowledge
<1> DEFINE e == hook[h].event
<1>1. e \in EventId
  BY EventType DEF MarkProcessed, HooksKnow
<1>2. LedgerTypes' /\ UnknownIsUnapplied'
  BY <1>1 DEF MarkProcessed, LedgerTypes, UnknownIsUnapplied
<1>3. HookTypes' /\ hook'[h].step = "idle"
      /\ \A g \in Hooks : g # h => hook'[g] = hook[g]
  BY HookEndsOne, BillingAssumption DEF MarkProcessed
<1>4. /\ UNCHANGED <<provVars, row, payRow, req, faults>>
      /\ RowTypes' /\ (row'.status = "ACTIVE" => Paid)
      /\ row.sub = NoSub => row'.status = "NONE"
      /\ \A s \in Sub : payRow'[s] = "CAPTURED" => pay[s] = "captured"
  BY DEF MarkProcessed, RowTypes, ActiveIsPaid, CapturedIsCaptured, RowNamed, Paid
<1>5. QED
  BY <1>2, <1>3, <1>4, HookCombine

LEMMA HookFailsInv ==
  ASSUME IInv, NEW h \in Hooks, HookFails(h)
  PROVE  IInv'
<1> USE DEF IInv, BillingTypeOK, Knowledge
<1>1. HookTypes' /\ hook'[h].step = "idle"
      /\ \A g \in Hooks : g # h => hook'[g] = hook[g]
  BY HookEndsOne, BillingAssumption DEF HookFails
<1>2. QED
  BY <1>1, HookOnly DEF HookFails

LEMMA HookStepInv ==
  ASSUME IInv, NEW h \in Hooks, HookStep(h)
  PROVE  IInv'
BY DeliverInv, RecordEventInv, LookupOrgInv, ApplyStatusInv, CheckPendingInv,
   WritePendingInv, UpsertPaymentInv, CheckPaidInv, ActivateInv, MarkProcessedInv,
   HookFailsInv DEF HookStep

-----------------------------------------------------------------------------
(* The steps of a user's request.                                           *)

\* Whatever it does to its own state, the row, the payments and the provider.
LEMMA ReqCombine ==
  ASSUME IInv, UNCHANGED <<pay, ledger, applied, hook>>, faults' \in Nat,
         ProvTypes', ServedIsPaid', EventsTrue', DOMAIN events \subseteq DOMAIN events',
         RowTypes', RowNamed', row.sub # NoSub => row'.sub # NoSub,
         row'.status = "ACTIVE" => Paid,
         \A s \in Sub : payRow'[s] = "CAPTURED" => pay[s] = "captured",
         ReqTypes', NEW u \in Customers, \A v \in Customers : v # u => req'[v] = req[v],
         req'[u].step \notin {"idle", "create", "save"} => row'.sub # NoSub,
         req'[u].step \notin {"idle", "create"} => req'[u].sub \in Sub,
         req'[u].status = "ACTIVE" => Paid,
         req'[u].paid = "captured" =>
           req'[u].step \in {"record", "grant"} /\ pay[req'[u].sub] = "captured"
  PROVE  IInv'
<1> USE DEF IInv, BillingTypeOK, Knowledge
<1>1. LedgerTypes' /\ UnknownIsUnapplied' /\ HookTypes' /\ (Paid' <=> Paid)
  BY DEF LedgerTypes, UnknownIsUnapplied, HookTypes, Paid
<1>2. HooksKnow'
  BY <1>1 DEF HooksKnow
<1>3. ReqsKnow'
  BY <1>1 DEF ReqsKnow
<1>4. ActiveIsPaid' /\ CapturedIsCaptured'
  BY <1>1 DEF ActiveIsPaid, CapturedIsCaptured, Paid
<1>5. QED
  BY <1>1, <1>2, <1>3, <1>4

\* A request that only moves on, or ends.
LEMMA ReqOnly ==
  ASSUME IInv, UNCHANGED <<provVars, tableVars, hook>>, faults' \in Nat, ReqTypes',
         NEW u \in Customers, \A v \in Customers : v # u => req'[v] = req[v],
         req'[u].step \notin {"idle", "create", "save"} => row.sub # NoSub,
         req'[u].step \notin {"idle", "create"} => req'[u].sub \in Sub,
         req'[u].status = "ACTIVE" => Paid,
         req'[u].paid = "captured" =>
           req'[u].step \in {"record", "grant"} /\ pay[req'[u].sub] = "captured"
  PROVE  IInv'
<1> USE DEF IInv, BillingTypeOK, Knowledge
<1>1. /\ UNCHANGED <<pay, ledger, applied, hook>> /\ row' = row
      /\ ProvTypes' /\ ServedIsPaid' /\ EventsTrue' /\ DOMAIN events \subseteq DOMAIN events'
  BY DEF provVars, tableVars, ProvTypes, ServedIsPaid, EventsTrue
<1>2. /\ RowTypes' /\ RowNamed' /\ (row'.status = "ACTIVE" => Paid)
      /\ \A s \in Sub : payRow'[s] = "CAPTURED" => pay[s] = "captured"
  BY DEF tableVars, RowTypes, RowNamed, ActiveIsPaid, CapturedIsCaptured, Paid
<1>3. QED
  BY <1>1, <1>2, ReqCombine

\* A request that writes the row and ends.
LEMMA ReqWrites ==
  ASSUME IInv, NEW u \in Customers, ReqEnds(u), row' \in Row,
         row'.sub # NoSub, row'.status = "ACTIVE" => Paid,
         UNCHANGED <<provVars, payRow, ledger, applied, hook, faults>>
  PROVE  IInv'
<1> USE DEF IInv, BillingTypeOK, Knowledge
<1>1. /\ ReqTypes' /\ \A v \in Customers : v # u => req'[v] = req[v]
      /\ req'[u] = IdleReq
  BY ReqEndsOne
<1>2. /\ UNCHANGED <<pay, ledger, applied, hook>>
      /\ ProvTypes' /\ ServedIsPaid' /\ EventsTrue' /\ DOMAIN events \subseteq DOMAIN events'
  BY DEF provVars, ProvTypes, ServedIsPaid, EventsTrue
<1>3. /\ RowTypes' /\ RowNamed'
      /\ \A s \in Sub : payRow'[s] = "CAPTURED" => pay[s] = "captured"
  BY DEF RowTypes, RowNamed, CapturedIsCaptured
<1>4. QED
  BY <1>1, <1>2, <1>3, ReqCombine DEF IdleReq

\* A request that changes nothing but its step, past the checkout.
LEMMA ReqAdvances ==
  ASSUME IInv, NEW u \in Customers, NEW step \in ReqSteps, ReqTo(u, step),
         req[u].step \notin {"idle", "create", "save", "record", "grant"},
         UNCHANGED <<provVars, tableVars, hook, faults>>
  PROVE  IInv'
<1> USE DEF IInv, BillingTypeOK, Knowledge
<1>1. /\ ReqTypes' /\ \A v \in Customers : v # u => req'[v] = req[v]
      /\ req'[u] = [req[u] EXCEPT !.step = step]
  BY ReqToOne
<1>2. /\ req'[u].step = step /\ req'[u].sub = req[u].sub
      /\ req'[u].status = req[u].status /\ req'[u].paid = req[u].paid
  BY <1>1 DEF ReqTypes
<1>3. /\ row.sub # NoSub /\ req[u].sub \in Sub /\ req[u].paid # "captured"
      /\ req[u].status = "ACTIVE" => Paid
  BY DEF ReqsKnow
<1>4. QED
  BY <1>1, <1>2, <1>3, ReqOnly

\* A request that starts with the subscription of the row.
LEMMA ReqStarts ==
  ASSUME IInv, NEW u \in Customers, NEW step \in ReqSteps, ReqOn(u, step, row.sub),
         req[u].step = "idle", row.sub # NoSub,
         UNCHANGED <<provVars, tableVars, hook, faults>>
  PROVE  IInv'
<1> USE DEF IInv, BillingTypeOK, Knowledge
<1>1. row.sub \in Sub
  BY DEF RowTypes, Row
<1>2. /\ ReqTypes' /\ \A v \in Customers : v # u => req'[v] = req[v]
      /\ req'[u] = [req[u] EXCEPT !.step = step, !.sub = row.sub]
  BY <1>1 DEF ReqOn, ReqTypes
<1>3. /\ req'[u].sub = row.sub
      /\ req'[u].status = req[u].status /\ req'[u].paid = req[u].paid
  BY <1>2 DEF ReqTypes
<1>4. req[u].paid # "captured" /\ (req[u].status = "ACTIVE" => Paid)
  BY DEF ReqsKnow
<1>5. QED
  BY <1>1, <1>2, <1>3, <1>4, ReqOnly

\* A request that ends without a write.
LEMMA ReqStops ==
  ASSUME IInv, NEW u \in Customers, ReqEnds(u), faults' \in Nat,
         UNCHANGED <<provVars, tableVars, hook>>
  PROVE  IInv'
BY ReqEndsOne, ReqOnly DEF IInv, BillingTypeOK, IdleReq

LEMMA ReuseWindowInv ==
  ASSUME IInv, ReuseWindowPasses
  PROVE  IInv'
<1> USE DEF IInv, BillingTypeOK, Knowledge
<1>1. row' \in Row /\ row'.sub = row.sub /\ row'.status = row.status
  BY DEF ReuseWindowPasses, RowTypes, Row
<1>2. UNCHANGED <<provVars, payRow, ledger, applied, hook, req, faults>>
  BY DEF ReuseWindowPasses
<1>3. ProvTypes' /\ LedgerTypes' /\ HookTypes' /\ ReqTypes' /\ RowTypes'
  BY <1>1, <1>2 DEF ProvTypes, LedgerTypes, HookTypes, ReqTypes, RowTypes, provVars
<1>4. ServedIsPaid' /\ EventsTrue' /\ UnknownIsUnapplied' /\ (Paid' <=> Paid)
  BY <1>2 DEF provVars, ServedIsPaid, EventsTrue, UnknownIsUnapplied, Paid
<1>5. RowNamed' /\ HooksKnow' /\ ReqsKnow'
  BY <1>1, <1>2, <1>4 DEF RowNamed, HooksKnow, ReqsKnow, provVars
<1>6. ActiveIsPaid' /\ CapturedIsCaptured'
  BY <1>1, <1>2, <1>4 DEF ActiveIsPaid, CapturedIsCaptured, Paid, provVars
<1>7. QED
  BY <1>2, <1>3, <1>4, <1>5, <1>6

LEMMA CheckoutInv ==
  ASSUME IInv, NEW u \in Customers, NEW plan \in Plans, Checkout(u, plan)
  PROVE  IInv'
<1> USE DEF IInv, BillingTypeOK, Knowledge
<1> DEFINE found == row.status # "NONE"
<1>1. req' = [req EXCEPT ![u].step = "create", ![u].plan = plan, ![u].found = found]
  BY DEF Checkout
<1>2. found \in BOOLEAN
  OBVIOUS
<1> HIDE DEF found
<1>3. /\ \A v \in Customers : v # u => req'[v] = req[v]
      /\ req'[u] = [req[u] EXCEPT !.step = "create", !.plan = plan, !.found = found]
      /\ DOMAIN req' = Customers /\ req' = [v \in Customers |-> req'[v]]
  BY <1>1 DEF ReqTypes
<1>4. req'[u] \in [step : ReqSteps, sub : Sub \union {NoSub}, found : BOOLEAN,
                   plan : Plans \union {NoPlan}, paid : PayStatus, status : RowStatus]
  BY <1>2, <1>3 DEF ReqTypes, ReqSteps
<1>5. ReqTypes'
  BY <1>3, <1>4 DEF ReqTypes
<1>6. /\ req'[u].step = "create"
      /\ req'[u].status = req[u].status /\ req'[u].paid = req[u].paid
  BY <1>3 DEF ReqTypes
<1>7. req[u].paid # "captured" /\ (req[u].status = "ACTIVE" => Paid)
  BY DEF ReqsKnow, Checkout, Req
<1>8. QED
  BY <1>3, <1>5, <1>6, <1>7, ReqOnly DEF Checkout

LEMMA CreateAtProviderInv ==
  ASSUME IInv, NEW u \in Customers, CreateAtProvider(u)
  PROVE  IInv'
<1> USE DEF IInv, BillingTypeOK, Knowledge
<1>1. PICK s \in Sub :
        /\ prov[s].status = "absent"
        /\ prov' = [prov EXCEPT ![s] = [status |-> "created", plan |-> req[u].plan]]
        /\ ReqOn(u, "save", s)
  BY DEF CreateAtProvider
<1>2. /\ ReqTypes' /\ \A v \in Customers : v # u => req'[v] = req[v]
      /\ req'[u].step = "save" /\ req'[u].sub = s
      /\ req'[u].status = req[u].status /\ req'[u].paid = req[u].paid
  BY <1>1 DEF ReqOn, ReqTypes, ReqSteps
<1>3. req[u].paid # "captured" /\ (req[u].status = "ACTIVE" => Paid)
  BY DEF ReqsKnow, CreateAtProvider, Req
<1>4. UNCHANGED <<pay, events, row, payRow, ledger, applied, hook, faults>>
  BY DEF CreateAtProvider, tableVars
<1>5. req[u].plan \in Plans \union {NoPlan}
  BY DEF ReqTypes
<1>6. ProvTypes'
  BY <1>1, <1>4, <1>5 DEF ProvTypes, ProvStatus
<1>7. \A t \in Sub : prov'[t].status = IF t = s THEN "created" ELSE prov[t].status
  BY <1>1 DEF ProvTypes
<1>8. ServedIsPaid' /\ EventsTrue' /\ DOMAIN events \subseteq DOMAIN events'
  BY <1>1, <1>4, <1>7 DEF ServedIsPaid, EventsTrue
<1>9. /\ RowTypes' /\ RowNamed' /\ (row'.status = "ACTIVE" => Paid)
      /\ \A t \in Sub : payRow'[t] = "CAPTURED" => pay[t] = "captured"
  BY <1>4 DEF RowTypes, RowNamed, ActiveIsPaid, CapturedIsCaptured, Paid
<1>10. QED
  BY <1>2, <1>3, <1>4, <1>6, <1>8, <1>9, ReqCombine

LEMMA SaveCheckoutInv ==
  ASSUME IInv, NEW u \in Customers, SaveCheckout(u)
  PROVE  IInv'
<1> USE DEF IInv, BillingTypeOK, Knowledge
<1>1. req[u].sub \in Sub /\ req[u].plan \in Plans \union {NoPlan}
  BY DEF SaveCheckout, Req, ReqsKnow, ReqTypes
<1>2. req[u].sub # NoSub
  BY <1>1 DEF Sub, NoSub
<1>3. CASE row' = row /\ row.status # "NONE"
  BY <1>3, ReqWrites DEF SaveCheckout, RowTypes, RowNamed, ActiveIsPaid, Paid
<1>4. CASE row' = [status |-> "PENDING", sub |-> req[u].sub, plan |-> req[u].plan,
                   recent |-> TRUE, atEnd |-> FALSE]
  <2>1. row' \in Row /\ row'.sub = req[u].sub /\ row'.status = "PENDING"
    BY <1>1, <1>4 DEF Row, RowStatus
  <2>2. QED
    BY <1>2, <2>1, ReqWrites DEF SaveCheckout
<1>5. QED
  BY <1>3, <1>4 DEF SaveCheckout

LEMMA VerifyCheckoutInv ==
  ASSUME IInv, NEW u \in Customers, VerifyCheckout(u)
  PROVE  IInv'
BY ReqStarts DEF VerifyCheckout, Req, ReqSteps

LEMMA VerifyFetchInv ==
  ASSUME IInv, NEW u \in Customers, VerifyFetch(u)
  PROVE  IInv'
<1> USE DEF IInv, BillingTypeOK, Knowledge
<1> DEFINE s == req[u].sub
<1>1. s \in Sub /\ row.sub # NoSub
  BY DEF VerifyFetch, Req, ReqsKnow
<1>2. pay[s] \in PayStatus
  BY <1>1 DEF ProvTypes
<1> DEFINE status == IF prov[s].status = "active" \/ pay[s] = "captured"
                     THEN "ACTIVE" ELSE "PENDING"
<1>3. status \in RowStatus /\ (status = "ACTIVE" => Paid)
  BY <1>1 DEF RowStatus, ServedIsPaid, Paid
<1>4. req' = [req EXCEPT ![u].step = "record", ![u].paid = pay[s], ![u].status = status]
  BY DEF VerifyFetch
<1> HIDE DEF status
<1>5. /\ \A v \in Customers : v # u => req'[v] = req[v]
      /\ req'[u] = [req[u] EXCEPT !.step = "record", !.paid = pay[s], !.status = status]
      /\ DOMAIN req' = Customers /\ req' = [v \in Customers |-> req'[v]]
  BY <1>4 DEF ReqTypes
<1>6. req'[u] \in [step : ReqSteps, sub : Sub \union {NoSub}, found : BOOLEAN,
                   plan : Plans \union {NoPlan}, paid : PayStatus, status : RowStatus]
  BY <1>2, <1>3, <1>5 DEF ReqTypes, ReqSteps
<1>7. ReqTypes'
  BY <1>5, <1>6 DEF ReqTypes
<1>8. /\ req'[u].step = "record" /\ req'[u].sub = s /\ req'[u].paid = pay[s]
      /\ req'[u].status = status
  BY <1>5 DEF ReqTypes
<1>9. QED
  BY <1>1, <1>3, <1>5, <1>7, <1>8, ReqOnly DEF VerifyFetch

LEMMA VerifyRecordInv ==
  ASSUME IInv, NEW u \in Customers, VerifyRecord(u)
  PROVE  IInv'
<1> USE DEF IInv, BillingTypeOK, Knowledge
<1> DEFINE s == req[u].sub
           status == PaymentStatusFor(req[u].paid)
<1>1. /\ req[u].step = "record" /\ s \in Sub /\ row.sub # NoSub
      /\ payRow' = [payRow EXCEPT ![s] = status]
      /\ UNCHANGED <<provVars, row, ledger, applied, hook, faults>>
  BY DEF VerifyRecord, Req, ReqsKnow
<1>2. status = "CAPTURED" => pay[s] = "captured"
  BY PaymentStatusForType DEF ReqsKnow
<1>3. status \in {"CREATED", "AUTHORIZED", "CAPTURED", "FAILED"}
  BY PaymentStatusForType
<1>4. /\ ReqTypes' /\ \A v \in Customers : v # u => req'[v] = req[v]
      /\ \/ req'[u] = IdleReq
         \/ req'[u] = [req[u] EXCEPT !.step = "grant"]
  BY ReqEndsOne, ReqToOne DEF VerifyRecord, ReqSteps
<1>5. /\ req'[u].step \notin {"idle", "create"} => req'[u].sub \in Sub
      /\ req'[u].status = "ACTIVE" => Paid
      /\ req'[u].paid = "captured" =>
           req'[u].step \in {"record", "grant"} /\ pay[req'[u].sub] = "captured"
  BY <1>1, <1>4 DEF ReqTypes, ReqsKnow, IdleReq
<1> HIDE DEF s, status
<1>6. RowTypes' /\ \A t \in Sub : payRow'[t] = "CAPTURED" => pay[t] = "captured"
  BY <1>1, <1>2, <1>3 DEF RowTypes, CapturedIsCaptured
<1>7. /\ ProvTypes' /\ ServedIsPaid' /\ EventsTrue' /\ DOMAIN events \subseteq DOMAIN events'
      /\ UNCHANGED <<pay, ledger, applied, hook>> /\ faults' \in Nat
  BY <1>1 DEF provVars, ProvTypes, ServedIsPaid, EventsTrue
<1>8. RowNamed' /\ row'.sub = row.sub /\ (row'.status = "ACTIVE" => Paid)
  BY <1>1 DEF RowNamed, ActiveIsPaid, Paid
<1>9. QED
  BY <1>1, <1>4, <1>5, <1>6, <1>7, <1>8, ReqCombine

LEMMA VerifyGrantInv ==
  ASSUME IInv, NEW u \in Customers, VerifyGrant(u)
  PROVE  IInv'
<1> USE DEF IInv, BillingTypeOK, Knowledge
<1>1. row.sub # NoSub /\ req[u].status \in RowStatus /\ (req[u].status = "ACTIVE" => Paid)
  BY DEF VerifyGrant, Req, ReqsKnow, ReqTypes
<1>2. row' \in Row /\ row'.sub = row.sub /\ row'.status = req[u].status
  BY <1>1 DEF VerifyGrant, RowTypes, Row
<1>3. QED
  BY <1>1, <1>2, ReqWrites DEF VerifyGrant

LEMMA SyncInv ==
  ASSUME IInv, NEW u \in Customers, Sync(u)
  PROVE  IInv'
BY ReqStarts DEF Sync, Req, ReqSteps

LEMMA SyncFetchInv ==
  ASSUME IInv, NEW u \in Customers, SyncFetch(u)
  PROVE  IInv'
<1> USE DEF IInv, BillingTypeOK, Knowledge
<1> DEFINE s == req[u].sub
           status == StatusFor(prov[s].status)
<1>1. s \in Sub /\ row.sub # NoSub /\ req[u].paid # "captured"
  BY DEF SyncFetch, Req, ReqsKnow
<1>2. status \in RowStatus /\ (status = "ACTIVE" => Paid)
  BY <1>1, StatusForType DEF ServedIsPaid, Paid
<1>3. /\ ReqTypes' /\ \A v \in Customers : v # u => req'[v] = req[v]
      /\ req'[u].step = "apply" /\ req'[u].sub = s /\ req'[u].paid = req[u].paid
      /\ req'[u].status = status
  BY <1>2 DEF SyncFetch, ReqTypes, ReqSteps
<1>4. QED
  BY <1>1, <1>2, <1>3, ReqOnly DEF SyncFetch

LEMMA SetStatusEnds ==
  ASSUME IInv, NEW u \in Customers, NEW status \in RowStatus, SetStatus(status), ReqEnds(u),
         row.sub # NoSub, status = "ACTIVE" => Paid,
         UNCHANGED <<provVars, payRow, ledger, applied, hook, faults>>
  PROVE  IInv'
<1>1. row' \in Row /\ row'.status = status /\ row'.sub = row.sub
  BY SetStatusOnly DEF IInv, BillingTypeOK, RowTypes
<1>2. QED
  BY <1>1, ReqWrites

LEMMA ApplyStateInv ==
  ASSUME IInv, NEW u \in Customers, ApplyState(u)
  PROVE  IInv'
<1> USE DEF IInv, BillingTypeOK, Knowledge
<1>1. /\ row.sub # NoSub /\ req[u].status \in RowStatus
      /\ req[u].status = "ACTIVE" => Paid
  BY DEF ApplyState, Req, ReqsKnow, ReqTypes
<1>2. CASE req[u].status = "PENDING" /\ row.status = "ACTIVE"
  BY <1>2, ReqStops DEF ApplyState, tableVars
<1>3. CASE req[u].status = "PENDING" /\ row.status # "ACTIVE"
  BY <1>3, ReqAdvances DEF ApplyState, tableVars, Req, ReqSteps
<1>4. CASE req[u].status # "PENDING"
  BY <1>1, <1>4, SetStatusEnds DEF ApplyState
<1>5. QED
  BY <1>2, <1>3, <1>4

LEMMA ApplyPendingInv ==
  ASSUME IInv, NEW u \in Customers, ApplyPending(u)
  PROVE  IInv'
BY SetStatusEnds DEF ApplyPending, Req, ReqsKnow, RowStatus, IInv, Knowledge

LEMMA ReactivateInv ==
  ASSUME IInv, NEW u \in Customers, Reactivate(u)
  PROVE  IInv'
BY ReqStarts DEF Reactivate, Req, ReqSteps, RowNamed, IInv, Knowledge

\* The requests that move the subscription at the provider.
LEMMA ReqMoves ==
  ASSUME IInv, NEW u \in Customers, NEW to \in {"active", "cancelled"}, ReqTypes',
         req[u].step \notin {"idle", "create", "save", "record", "grant"},
         ProvMove(req[u].sub, to),
         to = "active" => prov[req[u].sub].status = "paused",
         \A v \in Customers : v # u => req'[v] = req[v],
         req'[u].step \notin {"idle", "create", "save"} /\ req'[u].sub = req[u].sub,
         req'[u].status = "ACTIVE" => req[u].status = "ACTIVE" \/ to = "active",
         req'[u].paid = req[u].paid,
         UNCHANGED <<pay, tableVars, hook, faults>>
  PROVE  IInv'
<1> USE DEF IInv, BillingTypeOK, Knowledge
<1>1. row.sub # NoSub /\ req[u].sub \in Sub /\ req[u].paid # "captured"
  BY DEF ReqsKnow
<1>2. to = "active" => pay[req[u].sub] = "captured"
  BY <1>1 DEF ServedIsPaid
<1>3. ProvTypes' /\ ServedIsPaid' /\ EventsTrue' /\ DOMAIN events \subseteq DOMAIN events'
  BY <1>1, <1>2, MoveKeeps DEF ProvStatus
<1>4. req'[u].status = "ACTIVE" => Paid
  BY <1>1, <1>2 DEF ReqsKnow, Paid
<1>5. /\ RowTypes' /\ RowNamed' /\ (row'.status = "ACTIVE" => Paid)
      /\ \A t \in Sub : payRow'[t] = "CAPTURED" => pay[t] = "captured"
  BY DEF tableVars, RowTypes, RowNamed, ActiveIsPaid, CapturedIsCaptured, Paid
<1>6. UNCHANGED <<pay, ledger, applied, hook>> /\ row' = row
  BY DEF tableVars
<1>7. QED
  BY <1>1, <1>3, <1>4, <1>5, <1>6, ReqCombine

LEMMA ResumeInv ==
  ASSUME IInv, NEW u \in Customers, Resume(u)
  PROVE  IInv'
<1> USE DEF IInv, BillingTypeOK, Knowledge
<1>1. CASE prov[req[u].sub].status = "paused"
  <2>1. req' = [req EXCEPT ![u].step = "apply", ![u].status = "ACTIVE"]
    BY <1>1 DEF Resume
  <2>2. /\ ReqTypes' /\ \A v \in Customers : v # u => req'[v] = req[v]
        /\ req'[u].step = "apply" /\ req'[u].sub = req[u].sub
        /\ req'[u].paid = req[u].paid
    BY <2>1 DEF ReqTypes, ReqSteps, RowStatus
  <2>3. QED
    BY <1>1, <2>2, ReqMoves DEF Resume, Req
<1>2. CASE prov[req[u].sub].status # "paused"
  BY <1>2, ReqStops DEF Resume, provVars
<1>3. QED
  BY <1>1, <1>2

LEMMA CancelInv ==
  ASSUME IInv, NEW u \in Customers, Cancel(u)
  PROVE  IInv'
BY ReqStarts DEF Cancel, Req, ReqSteps

LEMMA CancelFetchInv ==
  ASSUME IInv, NEW u \in Customers, CancelFetch(u)
  PROVE  IInv'
BY ReqAdvances DEF CancelFetch, Req, ReqSteps

LEMMA CancelNowInv ==
  ASSUME IInv, NEW u \in Customers, CancelNow(u)
  PROVE  IInv'
<1> USE DEF IInv, BillingTypeOK, Knowledge
<1>1. CASE prov[req[u].sub].status \in Ending
  BY <1>1, ReqStops DEF CancelNow, provVars
<1>2. CASE prov[req[u].sub].status \notin Ending
  <2>1. ReqTo(u, "saveNow") /\ ProvMove(req[u].sub, "cancelled")
    BY <1>2 DEF CancelNow
  <2>2. /\ ReqTypes' /\ \A v \in Customers : v # u => req'[v] = req[v]
        /\ req'[u].step = "saveNow" /\ req'[u].sub = req[u].sub
        /\ req'[u].paid = req[u].paid /\ req'[u].status = req[u].status
    BY <2>1 DEF ReqTo, ReqTypes, ReqSteps
  <2>3. QED
    BY <2>1, <2>2, ReqMoves DEF CancelNow, Req
<1>3. QED
  BY <1>1, <1>2

LEMMA CancelLaterInv ==
  ASSUME IInv, NEW u \in Customers, CancelLater(u)
  PROVE  IInv'
<1>1. CASE ReqEnds(u)
  BY <1>1, ReqStops DEF CancelLater, IInv, BillingTypeOK
<1>2. CASE ReqTo(u, "saveLater")
  BY <1>2, ReqAdvances DEF CancelLater, Req, ReqSteps
<1>3. QED
  BY <1>1, <1>2 DEF CancelLater

LEMMA SaveCancelNowInv ==
  ASSUME IInv, NEW u \in Customers, SaveCancelNow(u)
  PROVE  IInv'
BY SetStatusEnds DEF SaveCancelNow, Req, ReqsKnow, RowStatus, IInv, Knowledge

LEMMA SaveCancelLaterInv ==
  ASSUME IInv, NEW u \in Customers, SaveCancelLater(u)
  PROVE  IInv'
<1> USE DEF IInv, BillingTypeOK, Knowledge
<1>1. row.sub # NoSub
  BY DEF SaveCancelLater, Req, ReqsKnow
<1>2. row' = [row EXCEPT !.atEnd = TRUE, !.recent = (row.status = "PENDING")]
  BY DEF SaveCancelLater
<1>3. row' \in Row /\ row'.sub = row.sub /\ row'.status = row.status
  BY <1>2 DEF RowTypes, Row
<1>4. row'.status = "ACTIVE" => Paid
  BY <1>3 DEF ActiveIsPaid, Paid
<1>5. QED
  BY <1>1, <1>3, <1>4, ReqWrites DEF SaveCancelLater

LEMMA RequestFailsInv ==
  ASSUME IInv, NEW u \in Customers, CustomerFails(u)
  PROVE  IInv'
BY ReqStops DEF CustomerFails, IInv, BillingTypeOK

LEMMA ReqStepInv ==
  ASSUME IInv, NEW u \in Customers, ReqStep(u)
  PROVE  IInv'
BY CheckoutInv, CreateAtProviderInv, SaveCheckoutInv, VerifyCheckoutInv, VerifyFetchInv,
   VerifyRecordInv, VerifyGrantInv, SyncInv, SyncFetchInv, ApplyStateInv, ApplyPendingInv,
   ReactivateInv, ResumeInv, CancelInv, CancelFetchInv, CancelNowInv, CancelLaterInv,
   SaveCancelNowInv, SaveCancelLaterInv, RequestFailsInv DEF ReqStep

-----------------------------------------------------------------------------
(* The theorems.                                                            *)

LEMMA StutterInv == IInv /\ UNCHANGED billingVars => IInv'
<1> SUFFICES ASSUME IInv, UNCHANGED billingVars PROVE IInv'
  OBVIOUS
<1> USE DEF IInv, BillingTypeOK, Knowledge, billingVars, provVars
<1>1. ProvTypes' /\ RowTypes' /\ LedgerTypes' /\ HookTypes' /\ ReqTypes' /\ faults' \in Nat
  BY DEF ProvTypes, RowTypes, LedgerTypes, HookTypes, ReqTypes
<1>2. ServedIsPaid' /\ EventsTrue' /\ RowNamed' /\ HooksKnow' /\ ReqsKnow'
  BY DEF ServedIsPaid, EventsTrue, RowNamed, HooksKnow, ReqsKnow, Paid
<1>3. UnknownIsUnapplied' /\ ActiveIsPaid' /\ CapturedIsCaptured'
  BY DEF UnknownIsUnapplied, ActiveIsPaid, CapturedIsCaptured
<1>4. QED
  BY <1>1, <1>2, <1>3

LEMMA StepInv == IInv /\ [NextBilling]_billingVars => IInv'
BY ReuseWindowInv, ProviderInv, HookStepInv, ReqStepInv, StutterInv DEF NextBilling

\* Every reachable state satisfies the inductive invariant.
LEMMA BillingInvariant == SpecBilling => []IInv
BY InitInv, StepInv, PTL DEF SpecBilling

\* The tables, the provider and every request in progress keep their types, for any
\* number of users, deliveries, subscriptions and events.
THEOREM TypeCorrectBilling == SpecBilling => []BillingTypeOK
<1>1. IInv => BillingTypeOK
  BY DEF IInv
<1>2. QED
  BY <1>1, BillingInvariant, PTL

\* However many deliveries of one event are in progress, one handler gets past the
\* insert of the event (razorpay.service.ts, handleWebhook).
THEOREM EventAppliedOnce == SpecBilling => []AppliedOnce
<1>1. IInv => AppliedOnce
  BY DEF IInv, UnknownIsUnapplied, AppliedOnce
<1>2. QED
  BY <1>1, BillingInvariant, PTL

\* No interleaving of deliveries, verifications, synchronisations and resumptions
\* makes the workspace ACTIVE before the provider captured a payment of it.
THEOREM ActiveOnlyIfPaid == SpecBilling => []ActiveIsPaid
<1>1. IInv => ActiveIsPaid
  BY DEF IInv
<1>2. QED
  BY <1>1, BillingInvariant, PTL

\* A Payment row says CAPTURED only of a payment the provider captured, whichever
\* of the webhook and the verification wrote it and whatever it knew.
THEOREM CapturedRecordedTruly == SpecBilling => []CapturedIsCaptured
<1>1. IInv => CapturedIsCaptured
  BY DEF IInv
<1>2. QED
  BY <1>1, BillingInvariant, PTL
=============================================================================
