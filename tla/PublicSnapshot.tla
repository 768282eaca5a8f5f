--------------------------- MODULE PublicSnapshot ---------------------------
(***************************************************************************)
(* The public snapshot (backend/src/snapshot/snapshot.service.ts and         *)
(* snapshot-limits.ts): runSnapshot with its limiters, cache, table of       *)
(* builds in flight and monthly budget, buildFresh, and readCached.          *)
(*                                                                          *)
(* All state is in the memory of one process, and a behaviour is one life    *)
(* of it.  An action is what runs between two awaits.                        *)
(***************************************************************************)
EXTENDS Integers, Sequences, FiniteSets

CONSTANTS
  Visitors,                 \* clients, each with an address of its own
  Domains, Dripping,        \* domains; those whose homepage may never end
  Calls,                    \* planned calls of a build: prompt and engine
  Budget, MonthLength,      \* monthlyCallBudget; ticks of a calendar month
  PerVisitor, VisitorWindow,
  PerDomain, DomainWindow,  \* hits allowed and the window of each limiter
  TTL,                      \* cacheTtlHours, in ticks
  MaxTime, MaxAsks          \* bounds on the clock and on the requests

ASSUME SnapshotAssumption ==
  /\ Dripping \subseteq Domains
  /\ IsFiniteSet(Calls) /\ Calls # {}
  /\ {Budget, PerVisitor, VisitorWindow, PerDomain, DomainWindow, MaxTime, MaxAsks}
       \subseteq Nat
  /\ {MonthLength, TTL} \subseteq Nat \ {0}

VARIABLES
  clock,
  cache,        \* resultCache: the build an entry came from, 0: no entry
  inflight,     \* the build in progress for a domain, 0: none
  visitorHits, domainHits,  \* WindowCounter: times of the admitted hits
  month, used,  \* MonthlyBudget
  builds,       \* calls of buildFresh, by their start
  ask,          \* each visitor's last request
  asked         \* requests made so far

snapVars ==
  <<clock, cache, inflight, visitorHits, domainHits, month, used, builds, ask, asked>>

NoAsk == [status |-> "idle", build |-> 0, at |-> 0]

InitSnapshot ==
  /\ clock = 0
  /\ cache = [d \in Domains |-> 0] /\ inflight = [d \in Domains |-> 0]
  /\ visitorHits = [v \in Visitors |-> <<>>]
  /\ domainHits = [d \in Domains |-> <<>>]
  /\ month = 0 /\ used = 0
  /\ builds = <<>>
  /\ ask = [v \in Visitors |-> NoAsk] /\ asked = 0

\* Each entry's expiresAt is fixed when the build ends; the boundary counts as
\* expired.  Fault: at the boundary the entry is still served.
ExpiredAfter(b) == builds[b].ended + TTL < clock
Expired(b) == builds[b].ended + TTL <= clock
Cached(d) == cache[d] # 0 /\ ~Expired(cache[d])
\* get deletes an entry it finds expired.
AfterLookup(d) == [cache EXCEPT ![d] = IF Cached(d) THEN @ ELSE 0]

\* allow: hits inside the window; one more is recorded when it is admitted.  Hits
\* are in the order of time, so those that the filter drops come first.
Kept(hits, window) ==
  SubSeq(hits, Cardinality({i \in DOMAIN hits : hits[i] <= clock - window}) + 1,
         Len(hits))
Allowed(hits, max, window) == Len(Kept(hits, window)) < max
Hit(hits, max, window) ==
  IF Allowed(hits, max, window) THEN Append(Kept(hits, window), clock)
  ELSE Kept(hits, window)

\* Where a request ends or waits; when, if it is answered
Reply(status, b) ==
  [status |-> status, build |-> b, at |-> IF status = "answered" THEN clock ELSE 0]
Settle(v, status, b) == ask' = [ask EXCEPT ![v] = Reply(status, b)]

-----------------------------------------------------------------------------
(* Requests                                                                 *)

NewAsk(v) ==
  /\ ask[v].status # "waiting" /\ asked < MaxAsks
  /\ asked' = asked + 1

TakeVisitorHit(v) ==
  visitorHits' = [visitorHits EXCEPT ![v] = Hit(@, PerVisitor, VisitorWindow)]
TakeDomainHit(d) ==
  domainHits' = [domainHits EXCEPT ![d] = Hit(@, PerDomain, DomainWindow)]

VisitorAllowed(v) == Allowed(visitorHits[v], PerVisitor, VisitorWindow)
DomainAllowed(d) == Allowed(domainHits[d], PerDomain, DomainWindow)

VisitorLimited(v) ==
  /\ NewAsk(v) /\ ~VisitorAllowed(v)
  /\ TakeVisitorHit(v)
  /\ Settle(v, "refused", 0)
  /\ UNCHANGED <<clock, cache, inflight, domainHits, month, used, builds>>

ServeCached(v, d) ==
  /\ NewAsk(v) /\ VisitorAllowed(v) /\ Cached(d)
  /\ TakeVisitorHit(v)
  /\ Settle(v, "answered", cache[d])
  /\ UNCHANGED <<clock, cache, inflight, domainHits, month, used, builds>>

\* Past the address and the cache: what the domain's limiter sees
Miss(v, d) ==
  /\ NewAsk(v) /\ VisitorAllowed(v) /\ ~Cached(d)
  /\ TakeVisitorHit(v) /\ TakeDomainHit(d)
  /\ cache' = AfterLookup(d)
  /\ UNCHANGED <<clock, month, used>>

DomainLimited(v, d) ==
  /\ Miss(v, d) /\ ~DomainAllowed(d)
  /\ Settle(v, "refused", 0)
  /\ UNCHANGED <<inflight, builds>>

\* Fault: a build is entered in the table only once its calls have begun.
RunningCalls(d) == inflight[d] # 0 /\ builds[inflight[d]].step = "calls"
Running(d) == inflight[d] # 0

JoinBuild(v, d) ==
  /\ Miss(v, d) /\ DomainAllowed(d) /\ Running(d)
  /\ Settle(v, "waiting", inflight[d])
  /\ UNCHANGED <<inflight, builds>>

StartBuild(v, d) ==
  /\ Miss(v, d) /\ DomainAllowed(d) /\ ~Running(d)
  /\ builds' = Append(builds, [domain |-> d, step |-> "brand", paid |-> -1, ended |-> 0,
                               calls |-> [c \in Calls |-> "planned"]])
  /\ inflight' = [inflight EXCEPT ![d] = Len(builds')]
  /\ Settle(v, "waiting", Len(builds'))

\* readCached has no limiter.
ReadCached(v, d) ==
  /\ NewAsk(v)
  /\ cache' = AfterLookup(d)
  /\ IF Cached(d) THEN Settle(v, "answered", cache[d]) ELSE Settle(v, "refused", 0)
  /\ UNCHANGED <<clock, inflight, visitorHits, domainHits, month, used, builds>>

-----------------------------------------------------------------------------
(* A build                                                                  *)

\* The promise of the build settles: the finally of dedupe, and everybody who
\* shares it.
EndBuild(b, status, calls) ==
  /\ builds' = [builds EXCEPT ![b] =
       [@ EXCEPT !.step = status, !.ended = clock, !.calls = calls]]
  /\ inflight' = [inflight EXCEPT ![builds[b].domain] = 0]
  /\ ask' = [v \in Visitors |->
       IF ask[v].status = "waiting" /\ ask[v].build = b
       THEN Reply(status, b) ELSE ask[v]]

Month == clock \div MonthLength
UsedThisMonth == IF month = Month THEN used ELSE 0
\* Fault: a snapshot counts once, whatever it calls.
ChargeOne == 1
Charge == Cardinality(Calls)
\* Fault: the calls that are planned are no part of the comparison.
AffordableSoFar == UsedThisMonth <= Budget
Affordable == UsedThisMonth + Charge <= Budget

\* brandFor returns, the budget is charged and all calls are started at once.
BrandFound(b) ==
  /\ builds[b].step = "brand" /\ Affordable
  /\ month' = Month /\ used' = UsedThisMonth + Charge
  /\ builds' = [builds EXCEPT ![b] =
       [@ EXCEPT !.step = "calls", !.paid = Month, !.calls = [c \in Calls |-> "running"]]]
  /\ UNCHANGED <<clock, cache, inflight, visitorHits, domainHits, ask, asked>>

BudgetExhausted(b) ==
  /\ builds[b].step = "brand" /\ ~Affordable
  /\ month' = Month /\ used' = UsedThisMonth
  /\ EndBuild(b, "failed", builds[b].calls)
  /\ UNCHANGED <<clock, cache, visitorHits, domainHits, asked>>

\* Promise.all: after the last outcome a build with a result is cached, and one
\* without is an error, which is not.
Outcome(b, c, outcome) ==
  LET calls == [builds[b].calls EXCEPT ![c] = outcome]
  IN /\ builds[b].step = "calls" /\ builds[b].calls[c] = "running"
     /\ \/ /\ \E o \in Calls : calls[o] = "running"
           /\ builds' = [builds EXCEPT ![b].calls = calls]
           /\ UNCHANGED <<cache, inflight, ask>>
        \/ /\ \A o \in Calls : calls[o] # "running"
           /\ \E o \in Calls : calls[o] = "ok"
           /\ EndBuild(b, "answered", calls)
           /\ cache' = [cache EXCEPT ![builds[b].domain] = b]
        \/ /\ \A o \in Calls : calls[o] \notin {"running", "ok"}
           /\ EndBuild(b, "failed", calls)
           /\ UNCHANGED cache
     /\ UNCHANGED <<clock, visitorHits, domainHits, month, used, asked>>

CallAnswers(b, c) == Outcome(b, c, "ok")
CallFails(b, c) == Outcome(b, c, "failed")
\* Fault: the provider's promise is awaited without a deadline.
NoTimeout(b, c) == FALSE
\* withTimeout stops waiting, which is one more failure; the call itself goes on
\* and its answer is dropped.
CallTimesOut(b, c) == Outcome(b, c, "failed")

-----------------------------------------------------------------------------
(* Time, and the traffic of others                                          *)

Tick ==
  /\ clock < MaxTime /\ clock' = clock + 1
  /\ UNCHANGED <<cache, inflight, visitorHits, domainHits, month, used, builds, ask, asked>>

\* More than 2000 other domains, or 5000 other keys of a limiter: the oldest
\* entry is dropped.
EvictEntry(d) ==
  /\ cache[d] # 0
  /\ cache' = [cache EXCEPT ![d] = 0]
  /\ UNCHANGED <<clock, inflight, visitorHits, domainHits, month, used, builds, ask, asked>>

EvictHits ==
  /\ \/ /\ UNCHANGED visitorHits
        /\ \E d \in Domains : domainHits' = [domainHits EXCEPT ![d] = <<>>]
     \/ /\ UNCHANGED domainHits
        /\ \E v \in Visitors : visitorHits' = [visitorHits EXCEPT ![v] = <<>>]
  /\ UNCHANGED <<clock, cache, inflight, month, used, builds, ask, asked>>

NextSnapshot ==
  \/ Tick \/ EvictHits
  \/ \E d \in Domains : EvictEntry(d)
  \/ \E v \in Visitors :
       \/ VisitorLimited(v)
       \/ \E d \in Domains :
            \/ ServeCached(v, d) \/ DomainLimited(v, d)
            \/ JoinBuild(v, d) \/ StartBuild(v, d) \/ ReadCached(v, d)
  \/ \E b \in DOMAIN builds :
       \/ BrandFound(b) \/ BudgetExhausted(b)
       \/ \E c \in Calls :
            CallAnswers(b, c) \/ CallFails(b, c) \/ CallTimesOut(b, c)

\* Homepages end except the dripping ones (the abort timer is cleared when the
\* headers are there), and the deadline of a call fires; nobody answers of need.
SnapshotFairness ==
  \A b \in 1..MaxAsks :
    /\ WF_snapVars(/\ b \in DOMAIN builds /\ builds[b].domain \notin Dripping
                   /\ (BrandFound(b) \/ BudgetExhausted(b)))
    /\ \A c \in Calls : WF_snapVars(b \in DOMAIN builds /\ CallTimesOut(b, c))

SpecSnapshot == InitSnapshot /\ [][NextSnapshot]_snapVars /\ SnapshotFairness

-----------------------------------------------------------------------------
(* Properties                                                               *)

\* Types of the memory of the process.
SnapshotTypeOK ==
  /\ clock \in 0..MaxTime /\ asked \in 0..MaxAsks
  /\ cache \in [Domains -> 0..Len(builds)] /\ inflight \in [Domains -> 0..Len(builds)]
  /\ visitorHits \in [Visitors -> Seq(0..clock)]
  /\ domainHits \in [Domains -> Seq(0..clock)]
  /\ month \in 0..clock /\ used \in 0..Budget
  /\ builds \in Seq([domain : Domains, step : {"brand", "calls", "answered", "failed"},
                     paid : -1..clock, ended : 0..clock,
                     calls : [Calls -> {"planned", "running", "ok", "failed"}]])
  /\ ask \in [Visitors -> [status : {"idle", "waiting", "answered", "refused", "failed"},
                           build : 0..Len(builds), at : 0..clock]]

InProgress(d) ==
  {b \in DOMAIN builds : builds[b].domain = d /\ builds[b].step \in {"brand", "calls"}}

\* "Concurrent callers for the same uncached key share one execution": a domain
\* has one build in progress, whoever asks, and whoever waits for a build waits
\* for one that is still going on.
OneBuildPerDomain ==
  /\ \A d \in Domains : Cardinality(InProgress(d)) <= 1
  /\ \A v \in Visitors : ask[v].status = "waiting" =>
       \E d \in Domains : ask[v].build \in InProgress(d)

\* The calls sent to providers in a calendar month stay within the budget: the
\* failed ones, the late ones and those of builds that overlap a month's end
\* are counted in the month in which they were sent.
BudgetKept ==
  \A m \in 0..Month :
    Cardinality({b \in DOMAIN builds : builds[b].paid = m}) * Cardinality(Calls) <= Budget

\* An answer, also one from the cache, comes from a build in which a provider
\* answered and which ended less than the lifetime of an entry ago; an error is
\* nobody's cached answer.
ServedIsFresh ==
  \A v \in Visitors : ask[v].status = "answered" =>
    /\ \E c \in Calls : builds[ask[v].build].calls[c] = "ok"
    /\ ask[v].at < builds[ask[v].build].ended + TTL

\* Who waits for a build gets an answer or an error, however slow the providers
\* are, unless the homepage of the domain never ends.
EveryRequestAnswered ==
  \A v \in Visitors :
    /\ ask[v].status = "waiting"
    /\ \E d \in Domains \ Dripping : ask[v].build \in InProgress(d)
    ~> ask[v].status # "waiting"
=============================================================================
