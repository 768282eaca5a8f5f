-------------------------- MODULE FrontDoor_proofs --------------------------
(***************************************************************************)
(* Machine-checked theorems about PublicSnapshot, for any visitors, domains *)
(* and planned calls, any limits, windows and lifetimes, and about           *)
(* MCFrontDoor, which puts it beside AccountTokens.                          *)
(***************************************************************************)
EXTENDS MCFrontDoor, AccountTokens_proofs, FiniteSetTheorems, SequenceTheorems, TLAPS

-----------------------------------------------------------------------------
(* The inductive invariant: SnapshotTypeOK and three groups.                *)

Build == [domain : Domains, step : {"brand", "calls", "answered", "failed"},
          paid : -1..clock, ended : 0..clock,
          calls : [Calls -> {"planned", "running", "ok", "failed"}]]

\* The table names the one build in progress of a domain, and who waits for a
\* build waits for one in progress.
TableAgrees ==
  /\ \A d \in Domains : InProgress(d) = IF inflight[d] = 0 THEN {} ELSE {inflight[d]}
  /\ \A v \in Visitors : ask[v].status = "waiting" =>
       /\ ask[v].build \in DOMAIN builds
       /\ builds[ask[v].build].step \in {"brand", "calls"}

\* The builds that were charged to month m
PaidIn(m) == {b \in DOMAIN builds : builds[b].paid = m}

\* The counter covers the calls of its month; no build is charged to a later
\* one, and no earlier month passed the budget.
MoneyCounted ==
  /\ month <= Month
  /\ \A b \in DOMAIN builds : builds[b].paid <= month
  /\ \A m \in 0..month :
       Cardinality(PaidIn(m)) * Cardinality(Calls) <= IF m = month THEN used ELSE Budget

\* A build that says answered has an answer; only such builds are cached, and an
\* answer was given in the lifetime of its build's entry.
AnswersFresh ==
  /\ \A b \in DOMAIN builds : builds[b].step = "answered" =>
       \E c \in Calls : builds[b].calls[c] = "ok"
  /\ \A d \in Domains : cache[d] # 0 => builds[cache[d]].step = "answered"
  /\ \A v \in Visitors : ask[v].status = "answered" =>
       /\ ask[v].build \in DOMAIN builds
       /\ builds[ask[v].build].step = "answered"
       /\ ask[v].at < builds[ask[v].build].ended + TTL

SInv == SnapshotTypeOK /\ TableAgrees /\ MoneyCounted /\ AnswersFresh

-----------------------------------------------------------------------------
(* Months, tables and finite sets                                           *)

\* The month of a time is a number no greater than it, and months do not run back.
LEMMA MonthFacts ==
  ASSUME NEW n \in Nat, NEW length \in Nat \ {0}
  PROVE  /\ n \div length \in 0..n
         /\ n \div length <= (n + 1) \div length
<1>1. n \div length \in Nat /\ n \div length <= n
  OBVIOUS
<1>2. n \div length <= (n + 1) \div length
  OBVIOUS
<1> QED
  BY <1>1, <1>2

LEMMA CallsCounted ==
  IsFiniteSet(Calls) /\ Cardinality(Calls) \in Nat \ {0}
<1>1. IsFiniteSet(Calls) /\ Calls # {}
  BY SnapshotAssumption
<1> QED
  BY <1>1, FS_CardinalityType, FS_EmptySet

LEMMA BuildsTable ==
  ASSUME SnapshotTypeOK
  PROVE  /\ builds \in Seq(Build) /\ Len(builds) \in Nat
         /\ DOMAIN builds = 1..Len(builds)
         /\ \A b \in DOMAIN builds : builds[b] \in Build
         /\ clock \in Nat /\ Month \in 0..clock /\ month \in Nat
         /\ MaxTime \in Nat /\ TTL \in Nat \ {0} /\ Budget \in Nat
<1>1. builds \in Seq(Build)
  BY DEF SnapshotTypeOK, Build
<1>2. Len(builds) \in Nat /\ DOMAIN builds = 1..Len(builds)
  BY <1>1, LenProperties
<1>3. \A b \in DOMAIN builds : builds[b] \in Build
  BY <1>1, <1>2, ElementOfSeq
<1>4. clock \in Nat /\ MaxTime \in Nat /\ TTL \in Nat \ {0} /\ Budget \in Nat
      /\ MonthLength \in Nat \ {0} /\ month \in Nat
  BY SnapshotAssumption DEF SnapshotTypeOK
<1>5. Month \in 0..clock
  BY <1>4, MonthFacts DEF Month
<1> QED
  BY <1>1, <1>2, <1>3, <1>4, <1>5

LEMMA PaidFinite ==
  ASSUME SnapshotTypeOK, NEW m
  PROVE  IsFiniteSet(PaidIn(m)) /\ Cardinality(PaidIn(m)) \in Nat
<1>1. IsFiniteSet(DOMAIN builds)
  BY BuildsTable, FS_Interval
<1>2. PaidIn(m) \in SUBSET DOMAIN builds
  BY DEF PaidIn
<1> QED
  BY <1>1, <1>2, FS_Subset, FS_CardinalityType

\* A limiter keeps a list of times of the past, whatever it drops and adds.
LEMMA HitsAreTimes ==
  ASSUME NEW hits \in Seq(0..clock), clock \in Nat, NEW max, NEW window
  PROVE  Hit(hits, max, window) \in Seq(0..clock)
<1> DEFINE old == {i \in DOMAIN hits : hits[i] <= clock - window}
<1>1. Len(hits) \in Nat /\ DOMAIN hits = 1..Len(hits)
      /\ \A i \in 1..Len(hits) : hits[i] \in 0..clock
  BY LenProperties, ElementOfSeq
<1>2. Cardinality(old) + 1 \in Nat /\ Cardinality(old) + 1 > 0
  <2>1. old \in SUBSET (1..Len(hits)) /\ IsFiniteSet(1..Len(hits))
    BY <1>1, FS_Interval
  <2> HIDE DEF old
  <2>2. Cardinality(old) \in Nat
    BY <2>1, FS_Subset, FS_CardinalityType
  <2> QED
    BY <2>2
<1>3. Kept(hits, window) \in Seq(0..clock)
  <2> DEFINE m == Cardinality(old) + 1
  <2>1. Kept(hits, window) = SubSeq(hits, m, Len(hits))
    BY DEF Kept
  <2> HIDE DEF old
  <2>2. m \in Int /\ Len(hits) \in Int /\ \A i \in m..Len(hits) : hits[i] \in 0..clock
    BY <1>1, <1>2
  <2> HIDE DEF m
  <2> QED
    BY <2>1, <2>2, SubSeqProperties
<1>4. clock \in 0..clock
  OBVIOUS
<1> QED
  BY <1>3, <1>4, AppendProperties DEF Hit

-----------------------------------------------------------------------------
(* The steps                                                                *)

LEMMA InitSInv == InitSnapshot => SInv
<1> SUFFICES ASSUME InitSnapshot PROVE SInv
  OBVIOUS
<1> USE DEF InitSnapshot
<1>1. /\ Budget \in Nat /\ MaxTime \in Nat /\ MaxAsks \in Nat
      /\ MonthLength \in Nat \ {0}
  BY SnapshotAssumption
<1>2. builds \in Seq(Build) /\ Len(builds) = 0 /\ DOMAIN builds = {}
  BY EmptySeq
<1>3. SnapshotTypeOK
  <2>1. /\ visitorHits \in [Visitors -> Seq(0..clock)]
        /\ domainHits \in [Domains -> Seq(0..clock)]
    BY EmptySeq
  <2>2. /\ cache \in [Domains -> 0..Len(builds)] /\ inflight \in [Domains -> 0..Len(builds)]
    BY <1>2
  <2>3. ask \in [Visitors -> [status : {"idle", "waiting", "answered", "refused", "failed"},
                              build : 0..Len(builds), at : 0..clock]]
    BY <1>2 DEF NoAsk
  <2>4. /\ clock \in 0..MaxTime /\ asked \in 0..MaxAsks
        /\ month \in 0..clock /\ used \in 0..Budget
    BY <1>1
  <2>5. builds \in Seq(Build)
    BY <1>2
  <2> HIDE DEF InitSnapshot
  <2> QED
    BY <2>1, <2>2, <2>3, <2>4, <2>5 DEF SnapshotTypeOK, Build
<1>4. TableAgrees
  BY <1>2 DEF TableAgrees, InProgress, NoAsk
<1>5. MoneyCounted
  <2>1. Month \in 0..0
    BY <1>1, MonthFacts DEF Month
  <2>2. \A m : PaidIn(m) = {}
    BY <1>2 DEF PaidIn
  <2>3. month = 0 /\ used = 0 /\ month <= Month
    BY <2>1
  <2> HIDE DEF InitSnapshot
  <2>4. Cardinality(Calls) \in Nat
    BY CallsCounted
  <2>5. \A m : Cardinality(PaidIn(m)) = 0
    BY <2>2, FS_EmptySet
  <2>6. \A m : Cardinality(PaidIn(m)) * Cardinality(Calls) = 0
    BY <2>4, <2>5
  <2> QED
    BY <1>1, <1>2, <2>3, <2>6 DEF MoneyCounted
<1>6. AnswersFresh
  BY <1>2 DEF AnswersFresh, NoAsk
<1> QED
  BY <1>3, <1>4, <1>5, <1>6 DEF SInv

\* What a step that begins, ends and charges no build may do: time and requests
\* go on, entries leave the cache, and who asks joins the build in progress, or
\* is given the entry of the cache, or is refused.
Quiet ==
  /\ UNCHANGED <<inflight, month, used, builds>>
  /\ clock' \in {clock, clock + 1} /\ clock' \in 0..MaxTime /\ asked' \in 0..MaxAsks
  /\ visitorHits' \in [Visitors -> Seq(0..clock')]
  /\ domainHits' \in [Domains -> Seq(0..clock')]
  /\ cache' \in [Domains -> 0..Len(builds)] /\ \A d \in Domains : cache'[d] \in {0, cache[d]}
  /\ ask' \in [Visitors -> [status : {"idle", "waiting", "answered", "refused", "failed"},
                            build : 0..Len(builds), at : 0..clock']]
  /\ \A v \in Visitors :
       \/ ask'[v] = ask[v] \/ ask'[v].status \notin {"waiting", "answered"}
       \/ /\ ask'[v].status = "waiting"
          /\ \E d \in Domains : inflight[d] # 0 /\ ask'[v].build = inflight[d]
       \/ /\ ask'[v].status = "answered" /\ ask'[v].at = clock
          /\ \E d \in Domains : Cached(d) /\ ask'[v].build = cache[d]

LEMMA QuietKeeps == SInv /\ Quiet => SInv'
<1> SUFFICES ASSUME SInv, Quiet PROVE SInv'
  OBVIOUS
<1> USE DEF SInv
<1>1. /\ Len(builds) \in Nat /\ DOMAIN builds = 1..Len(builds)
      /\ clock \in Nat /\ clock' \in Nat /\ clock <= clock' /\ TTL \in Nat
      /\ \A b \in DOMAIN builds : builds[b] \in Build
  BY BuildsTable DEF Quiet
<1>2. builds' = builds /\ inflight' = inflight /\ month' = month /\ used' = used
  BY DEF Quiet
<1>3. SnapshotTypeOK'
  <2>1. builds' \in Seq(Build)'
    <3>1. Build \subseteq Build'
      BY <1>1 DEF Build
    <3> QED
      BY <1>2, <3>1, BuildsTable, SeqMonotonic
  <2>2. /\ clock' \in 0..MaxTime /\ asked' \in 0..MaxAsks
        /\ cache' \in [Domains -> 0..Len(builds')]
        /\ visitorHits' \in [Visitors -> Seq(0..clock')]
        /\ domainHits' \in [Domains -> Seq(0..clock')]
        /\ ask' \in [Visitors -> [status : {"idle", "waiting", "answered", "refused", "failed"},
                                  build : 0..Len(builds'), at : 0..clock']]
    BY <1>2 DEF Quiet
  <2>3. inflight' \in [Domains -> 0..Len(builds')] /\ month' \in 0..clock' /\ used' \in 0..Budget
    BY <1>1, <1>2 DEF SnapshotTypeOK
  <2> QED
    BY <2>1, <2>2, <2>3 DEF SnapshotTypeOK, Build
<1>4. TableAgrees'
  <2>1. \A d \in Domains : InProgress(d)' = InProgress(d)
    BY <1>2 DEF InProgress
  <2>2. ASSUME NEW v \in Visitors, ask'[v].status = "waiting"
        PROVE  /\ ask'[v].build \in DOMAIN builds
               /\ builds[ask'[v].build].step \in {"brand", "calls"}
    <3>1. CASE ask'[v] = ask[v]
      BY <2>2, <3>1 DEF TableAgrees
    <3>2. ASSUME NEW d \in Domains, inflight[d] # 0, ask'[v].build = inflight[d]
          PROVE  /\ ask'[v].build \in DOMAIN builds
                 /\ builds[ask'[v].build].step \in {"brand", "calls"}
      <4>1. inflight[d] \in InProgress(d)
        BY <3>2 DEF TableAgrees
      <4> QED
        BY <3>2, <4>1 DEF InProgress
    <3> QED
      BY <2>2, <3>1, <3>2 DEF Quiet
  <2> QED
    BY <1>2, <2>1, <2>2 DEF TableAgrees
<1>5. MoneyCounted'
  <2>1. Month <= Month'
    <3>1. MonthLength \in Nat \ {0}
      BY SnapshotAssumption
    <3>2. clock \div MonthLength \in Nat
          /\ clock \div MonthLength <= (clock + 1) \div MonthLength
      BY <1>1, <3>1, MonthFacts
    <3> QED
      BY <3>2 DEF Month, Quiet
  <2>2. Month \in Nat /\ Month' \in Nat /\ month \in Nat
    <3>1. MonthLength \in Nat \ {0}
      BY SnapshotAssumption
    <3>2. clock \div MonthLength \in 0..clock /\ clock' \div MonthLength \in 0..clock'
      BY <1>1, <3>1, MonthFacts
    <3> QED
      BY <3>2, BuildsTable DEF Month
  <2>3. \A m : PaidIn(m)' = PaidIn(m)
    BY <1>2 DEF PaidIn
  <2> QED
    BY <1>2, <2>1, <2>2, <2>3 DEF MoneyCounted
<1>6. AnswersFresh'
  <2>1. \A d \in Domains : cache'[d] # 0 => builds'[cache'[d]].step = "answered"
    BY <1>2 DEF Quiet, AnswersFresh
  <2>2. ASSUME NEW v \in Visitors, ask'[v].status = "answered"
        PROVE  /\ ask'[v].build \in DOMAIN builds
               /\ builds[ask'[v].build].step = "answered"
               /\ ask'[v].at < builds[ask'[v].build].ended + TTL
    <3>1. CASE ask'[v] = ask[v]
      BY <2>2, <3>1 DEF AnswersFresh
    <3>2. ASSUME NEW d \in Domains, Cached(d), ask'[v].build = cache[d], ask'[v].at = clock
          PROVE  /\ ask'[v].build \in DOMAIN builds
                 /\ builds[ask'[v].build].step = "answered"
                 /\ ask'[v].at < builds[ask'[v].build].ended + TTL
      <4>1. cache[d] # 0 /\ cache[d] \in DOMAIN builds
        BY <1>1, <3>2 DEF Cached, SnapshotTypeOK
      <4>2. builds[cache[d]].ended \in Nat
        BY <1>1, <4>1 DEF Build
      <4>3. clock < builds[cache[d]].ended + TTL
        BY <1>1, <3>2, <4>2 DEF Cached, Expired
      <4> QED
        BY <3>2, <4>1, <4>3 DEF AnswersFresh
    <3> QED
      BY <2>2, <3>1, <3>2 DEF Quiet
  <2> QED
    BY <1>2, <2>1, <2>2 DEF AnswersFresh
<1> QED
  BY <1>3, <1>4, <1>5, <1>6

AskType == [status : {"idle", "waiting", "answered", "refused", "failed"},
            build : 0..Len(builds), at : 0..clock]

\* The counters of the limiters keep their types.
LEMMA VisitorHitTypes ==
  ASSUME SInv, NEW v \in Visitors, TakeVisitorHit(v)
  PROVE  visitorHits' \in [Visitors -> Seq(0..clock)]
<1>1. visitorHits \in [Visitors -> Seq(0..clock)] /\ clock \in Nat
  BY BuildsTable DEF SInv, SnapshotTypeOK
<1>2. Hit(visitorHits[v], PerVisitor, VisitorWindow) \in Seq(0..clock)
  BY <1>1, HitsAreTimes
<1> QED
  BY <1>1, <1>2 DEF TakeVisitorHit

LEMMA DomainHitTypes ==
  ASSUME SInv, NEW d \in Domains, TakeDomainHit(d)
  PROVE  domainHits' \in [Domains -> Seq(0..clock)]
<1>1. domainHits \in [Domains -> Seq(0..clock)] /\ clock \in Nat
  BY BuildsTable DEF SInv, SnapshotTypeOK
<1>2. Hit(domainHits[d], PerDomain, DomainWindow) \in Seq(0..clock)
  BY <1>1, HitsAreTimes
<1> QED
  BY <1>1, <1>2 DEF TakeDomainHit

LEMMA LookupTypes ==
  ASSUME SInv, NEW d \in Domains, cache' = AfterLookup(d)
  PROVE  /\ cache' \in [Domains -> 0..Len(builds)]
         /\ \A e \in Domains : cache'[e] \in {0, cache[e]}
<1>1. cache \in [Domains -> 0..Len(builds)] /\ Len(builds) \in Nat
  BY BuildsTable DEF SInv, SnapshotTypeOK
<1> QED
  BY <1>1 DEF AfterLookup

\* What a settled request looks like.
LEMMA SettleTypes ==
  ASSUME SInv, NEW v \in Visitors, NEW status \in {"waiting", "answered", "refused", "failed"},
         NEW b \in 0..Len(builds), Settle(v, status, b)
  PROVE  /\ ask' \in [Visitors -> AskType]
         /\ \A w \in Visitors \ {v} : ask'[w] = ask[w]
         /\ ask'[v].status = status /\ ask'[v].build = b
         /\ status = "answered" => ask'[v].at = clock
<1>1. ask \in [Visitors -> AskType] /\ clock \in Nat
  BY BuildsTable DEF SInv, SnapshotTypeOK, AskType
<1>2. /\ Reply(status, b) \in AskType /\ Reply(status, b).status = status
      /\ Reply(status, b).build = b
      /\ status = "answered" => Reply(status, b).at = clock
  BY <1>1 DEF Reply, AskType
<1>3. ask' = [ask EXCEPT ![v] = Reply(status, b)]
  BY DEF Settle
<1> QED
  BY <1>1, <1>2, <1>3

\* What the requests that begin no build have in common
LEMMA QuietRequests ==
  ASSUME SInv, NEW v \in Visitors, NEW d \in Domains,
         ServeCached(v, d) \/ DomainLimited(v, d)
           \/ JoinBuild(v, d) \/ ReadCached(v, d)
  PROVE  Quiet
<1>1. /\ Len(builds) \in Nat /\ clock \in Nat /\ clock \in 0..MaxTime
      /\ visitorHits \in [Visitors -> Seq(0..clock)]
      /\ domainHits \in [Domains -> Seq(0..clock)]
      /\ cache \in [Domains -> 0..Len(builds)] /\ inflight \in [Domains -> 0..Len(builds)]
      /\ ask \in [Visitors -> AskType]
  BY BuildsTable DEF SInv, SnapshotTypeOK, AskType
<1>2. asked' \in 0..MaxAsks
  <2>1. NewAsk(v)
    BY DEF ServeCached, DomainLimited, JoinBuild, ReadCached, Miss
  <2> QED
    BY <2>1, SnapshotAssumption DEF NewAsk, SInv, SnapshotTypeOK
<1>3. UNCHANGED <<clock, inflight, month, used, builds>>
  BY DEF ServeCached, DomainLimited, JoinBuild, ReadCached, Miss
<1>4. visitorHits' \in [Visitors -> Seq(0..clock)]
  <2>1. TakeVisitorHit(v) \/ visitorHits' = visitorHits
    BY DEF ServeCached, DomainLimited, JoinBuild, ReadCached, Miss
  <2> QED
    BY <1>1, <2>1, VisitorHitTypes
<1>5. domainHits' \in [Domains -> Seq(0..clock)]
  <2>1. TakeDomainHit(d) \/ domainHits' = domainHits
    BY DEF ServeCached, DomainLimited, JoinBuild, ReadCached, Miss
  <2> QED
    BY <1>1, <2>1, DomainHitTypes
<1>6. /\ cache' \in [Domains -> 0..Len(builds)]
      /\ \A e \in Domains : cache'[e] \in {0, cache[e]}
  <2>1. cache' = AfterLookup(d) \/ cache' = cache
    BY DEF ServeCached, DomainLimited, JoinBuild, ReadCached, Miss
  <2> QED
    BY <1>1, <2>1, LookupTypes
<1>7. \/ Settle(v, "refused", 0)
      \/ Cached(d) /\ Settle(v, "answered", cache[d])
      \/ inflight[d] # 0 /\ Settle(v, "waiting", inflight[d])
  BY DEF ServeCached, DomainLimited, JoinBuild, ReadCached, Running
<1>8. /\ ask' \in [Visitors -> AskType]
      /\ \A w \in Visitors \ {v} : ask'[w] = ask[w]
      /\ \/ ask'[v].status = "refused"
         \/ Cached(d) /\ ask'[v].status = "answered" /\ ask'[v].build = cache[d]
               /\ ask'[v].at = clock
         \/ inflight[d] # 0 /\ ask'[v].status = "waiting" /\ ask'[v].build = inflight[d]
  <2>1. 0 \in 0..Len(builds) /\ cache[d] \in 0..Len(builds) /\ inflight[d] \in 0..Len(builds)
    BY <1>1
  <2>2. CASE Settle(v, "refused", 0)
    BY <2>1, <2>2, SettleTypes
  <2>3. CASE Cached(d) /\ Settle(v, "answered", cache[d])
    BY <2>1, <2>3, SettleTypes
  <2>4. CASE inflight[d] # 0 /\ Settle(v, "waiting", inflight[d])
    BY <2>1, <2>4, SettleTypes
  <2> QED
    BY <1>7, <2>2, <2>3, <2>4
<1>9. \A w \in Visitors :
       \/ ask'[w] = ask[w] \/ ask'[w].status \notin {"waiting", "answered"}
       \/ /\ ask'[w].status = "waiting"
          /\ \E e \in Domains : inflight[e] # 0 /\ ask'[w].build = inflight[e]
       \/ /\ ask'[w].status = "answered" /\ ask'[w].at = clock
          /\ \E e \in Domains : Cached(e) /\ ask'[w].build = cache[e]
  BY <1>8
<1> QED
  BY <1>1, <1>2, <1>3, <1>4, <1>5, <1>6, <1>8, <1>9 DEF Quiet, AskType

LEMMA LimitedQuiet ==
  ASSUME SInv, NEW v \in Visitors, VisitorLimited(v)
  PROVE  Quiet
<1>1. /\ Len(builds) \in Nat /\ clock \in Nat /\ clock \in 0..MaxTime
      /\ domainHits \in [Domains -> Seq(0..clock)]
      /\ cache \in [Domains -> 0..Len(builds)]
  BY BuildsTable DEF SInv, SnapshotTypeOK
<1>2. /\ NewAsk(v) /\ TakeVisitorHit(v) /\ Settle(v, "refused", 0)
      /\ UNCHANGED <<clock, cache, inflight, domainHits, month, used, builds>>
  BY DEF VisitorLimited
<1>3. asked' \in 0..MaxAsks
  BY <1>2, SnapshotAssumption DEF NewAsk, SInv, SnapshotTypeOK
<1>4. visitorHits' \in [Visitors -> Seq(0..clock)]
  BY <1>2, VisitorHitTypes
<1>5. /\ ask' \in [Visitors -> AskType]
      /\ \A w \in Visitors \ {v} : ask'[w] = ask[w]
      /\ ask'[v].status = "refused"
  BY <1>1, <1>2, SettleTypes
<1> QED
  BY <1>1, <1>2, <1>3, <1>4, <1>5 DEF Quiet, AskType

\* Time and the traffic of others
LEMMA QuietOthers ==
  ASSUME SInv, Tick \/ EvictHits \/ (\E d \in Domains : EvictEntry(d))
  PROVE  Quiet
<1>1. /\ Len(builds) \in Nat /\ clock \in Nat /\ clock \in 0..MaxTime /\ MaxTime \in Nat
      /\ visitorHits \in [Visitors -> Seq(0..clock)]
      /\ domainHits \in [Domains -> Seq(0..clock)]
      /\ cache \in [Domains -> 0..Len(builds)] /\ asked \in 0..MaxAsks
      /\ ask \in [Visitors -> AskType]
  BY BuildsTable DEF SInv, SnapshotTypeOK, AskType
<1>2. CASE Tick
  <2>1. /\ clock' = clock + 1 /\ clock' \in 0..MaxTime
        /\ UNCHANGED <<cache, inflight, visitorHits, domainHits, month, used, builds, ask, asked>>
    BY <1>1, <1>2 DEF Tick
  <2>2. 0..clock \subseteq 0..clock'
    BY <1>1, <2>1
  <2>3. Seq(0..clock) \subseteq Seq(0..clock')
    BY <2>2, SeqMonotonic
  <2>4. ask' \in [Visitors -> [status : {"idle", "waiting", "answered", "refused", "failed"},
                              build : 0..Len(builds), at : 0..clock']]
    BY <1>1, <2>1, <2>2 DEF AskType
  <2> QED
    BY <1>1, <2>1, <2>3, <2>4 DEF Quiet
<1>3. CASE EvictHits
  <2>1. <<>> \in Seq(0..clock)
    BY EmptySeq
  <2>2. visitorHits' \in [Visitors -> Seq(0..clock)] /\ domainHits' \in [Domains -> Seq(0..clock)]
    BY <1>1, <1>3, <2>1 DEF EvictHits
  <2> QED
    BY <1>1, <1>3, <2>2 DEF Quiet, EvictHits, AskType
<1>4. CASE \E d \in Domains : EvictEntry(d)
  <2>1. /\ cache' \in [Domains -> 0..Len(builds)] /\ \A d \in Domains : cache'[d] \in {0, cache[d]}
    BY <1>1, <1>4 DEF EvictEntry
  <2> QED
    BY <1>1, <1>4, <2>1 DEF Quiet, EvictEntry, AskType
<1> QED
  BY <1>2, <1>3, <1>4

-----------------------------------------------------------------------------
(* The steps of builds                                                      *)

LEMMA StartKeeps ==
  ASSUME SInv, NEW v \in Visitors, NEW d \in Domains, StartBuild(v, d)
  PROVE  SInv'
<1> DEFINE new == [domain |-> d, step |-> "brand", paid |-> -1, ended |-> 0,
                   calls |-> [c \in Calls |-> "planned"]]
           n == Len(builds) + 1
<1>1. /\ builds \in Seq(Build) /\ Len(builds) \in Nat /\ DOMAIN builds = 1..Len(builds)
      /\ \A b \in DOMAIN builds : builds[b] \in Build
      /\ clock \in Nat /\ clock \in 0..MaxTime /\ Budget \in Nat
      /\ cache \in [Domains -> 0..Len(builds)] /\ inflight \in [Domains -> 0..Len(builds)]
      /\ ask \in [Visitors -> AskType]
  BY BuildsTable DEF SInv, SnapshotTypeOK, AskType
<1>2. /\ Miss(v, d) /\ inflight[d] = 0 /\ builds' = Append(builds, new)
      /\ inflight' = [inflight EXCEPT ![d] = Len(builds')]
      /\ Settle(v, "waiting", Len(builds'))
      /\ UNCHANGED <<clock, month, used>>
  BY DEF StartBuild, Running, Miss
<1>3. new \in Build
  <2>1. [c \in Calls |-> "planned"] \in [Calls -> {"planned", "running", "ok", "failed"}]
    OBVIOUS
  <2>2. -1 \in -1..clock /\ 0 \in 0..clock
    BY <1>1
  <2> QED
    BY <2>1, <2>2 DEF Build
<1>4. new.domain = d /\ new.step = "brand" /\ new.paid = -1
  OBVIOUS
<1> HIDE DEF new
<1>5. /\ builds' \in Seq(Build) /\ Len(builds') = n /\ DOMAIN builds' = 1..n
      /\ \A b \in DOMAIN builds : b \in 1..n /\ b # n /\ builds'[b] = builds[b]
      /\ builds'[n] = new
  <2>1. /\ builds' \in Seq(Build) /\ Len(builds') = n
        /\ \A b \in 1..Len(builds) : builds'[b] = builds[b]
        /\ builds'[n] = new
    BY <1>1, <1>2, <1>3, AppendProperties
  <2> QED
    BY <1>1, <2>1, LenProperties
<1>6. /\ ask' \in [Visitors -> AskType']
      /\ \A w \in Visitors \ {v} : ask'[w] = ask[w]
      /\ ask'[v].status = "waiting" /\ ask'[v].build = n
  <2>1. Reply("waiting", n) \in AskType' /\ AskType \subseteq AskType'
        /\ Reply("waiting", n).status = "waiting" /\ Reply("waiting", n).build = n
    BY <1>1, <1>2, <1>5 DEF Reply, AskType
  <2>2. ask' = [ask EXCEPT ![v] = Reply("waiting", n)]
    BY <1>2, <1>5 DEF Settle
  <2> QED
    BY <1>1, <2>1, <2>2
<1>7. SnapshotTypeOK'
  <2>1. asked' \in 0..MaxAsks
    BY <1>2, SnapshotAssumption DEF Miss, NewAsk, SInv, SnapshotTypeOK
  <2>2. visitorHits' \in [Visitors -> Seq(0..clock)] /\ domainHits' \in [Domains -> Seq(0..clock)]
    BY <1>2, VisitorHitTypes, DomainHitTypes DEF Miss
  <2>3. cache' \in [Domains -> 0..Len(builds')]
    <3>1. cache' \in [Domains -> 0..Len(builds)] /\ 0..Len(builds) \subseteq 0..Len(builds')
      BY <1>1, <1>2, <1>5, LookupTypes DEF Miss
    <3> QED
      BY <3>1
  <2>4. inflight' \in [Domains -> 0..Len(builds')]
    BY <1>1, <1>2, <1>5
  <2>5. month' \in 0..clock /\ used' \in 0..Budget
    BY <1>2 DEF SInv, SnapshotTypeOK
  <2>6. Build' = Build
    BY <1>2 DEF Build
  <2> QED
    BY <1>1, <1>2, <1>5, <1>6, <2>1, <2>2, <2>3, <2>4, <2>5, <2>6
    DEF SnapshotTypeOK, Build, AskType
<1>8. TableAgrees'
  <2>1. ASSUME NEW e \in Domains
        PROVE  InProgress(e)' = IF inflight'[e] = 0 THEN {} ELSE {inflight'[e]}
    <3>1. InProgress(e) = IF inflight[e] = 0 THEN {} ELSE {inflight[e]}
      BY DEF SInv, TableAgrees
    <3>2. InProgress(e)' = {b \in 1..n : builds'[b].domain = e /\ builds'[b].step \in {"brand", "calls"}}
      BY <1>5 DEF InProgress
    <3>3. 1..n = DOMAIN builds \cup {n}
      BY <1>1
    <3>4. InProgress(e)' = InProgress(e) \cup (IF e = d THEN {n} ELSE {})
      BY <1>4, <1>5, <3>2, <3>3 DEF InProgress
    <3>5. inflight'[e] = IF e = d THEN n ELSE inflight[e]
      BY <1>1, <1>2, <1>5
    <3> QED
      BY <1>1, <1>2, <3>1, <3>4, <3>5
  <2>2. ASSUME NEW w \in Visitors, ask'[w].status = "waiting"
        PROVE  /\ ask'[w].build \in DOMAIN builds'
               /\ builds'[ask'[w].build].step \in {"brand", "calls"}
    <3>1. CASE w = v
      BY <1>1, <1>4, <1>5, <1>6, <3>1
    <3>2. CASE w # v
      BY <1>5, <1>6, <2>2, <3>2 DEF SInv, TableAgrees
    <3> QED
      BY <3>1, <3>2
  <2> QED
    BY <2>1, <2>2 DEF TableAgrees
<1>9. MoneyCounted'
  <2>1. Month' = Month /\ month' = month /\ used' = used /\ month \in Nat
    BY <1>2, BuildsTable DEF Month, SInv
  <2>2. ASSUME NEW m \in 0..month PROVE PaidIn(m)' = PaidIn(m)
    <3>1. PaidIn(m)' = {b \in DOMAIN builds \cup {n} : builds'[b].paid = m}
      BY <1>1, <1>5 DEF PaidIn
    <3>2. builds'[n].paid # m
      BY <1>4, <1>5, <2>1
    <3> QED
      BY <1>5, <3>1, <3>2 DEF PaidIn
  <2>3. \A b \in DOMAIN builds' : builds'[b].paid <= month
    <3>1. \A b \in DOMAIN builds' : b \in DOMAIN builds \/ b = n
      BY <1>1, <1>5
    <3> QED
      BY <1>4, <1>5, <2>1, <3>1 DEF SInv, MoneyCounted
  <2> QED
    BY <2>1, <2>2, <2>3 DEF SInv, MoneyCounted
<1>10. AnswersFresh'
  <2>1. \A b \in DOMAIN builds' : b \in DOMAIN builds \/ b = n
    BY <1>1, <1>5
  <2>2. \A b \in DOMAIN builds' : builds'[b].step = "answered" =>
          \E c \in Calls : builds'[b].calls[c] = "ok"
    BY <1>4, <1>5, <2>1 DEF SInv, AnswersFresh
  <2>3. \A e \in Domains : cache'[e] # 0 => builds'[cache'[e]].step = "answered"
    <3>1. \A e \in Domains : cache'[e] \in {0, cache[e]}
      BY <1>2, LookupTypes DEF Miss
    <3>2. \A e \in Domains : cache[e] # 0 => cache[e] \in DOMAIN builds
      BY <1>1
    <3> QED
      BY <1>5, <3>1, <3>2 DEF SInv, AnswersFresh
  <2>4. \A w \in Visitors : ask'[w].status = "answered" =>
          /\ ask'[w].build \in DOMAIN builds'
          /\ builds'[ask'[w].build].step = "answered"
          /\ ask'[w].at < builds'[ask'[w].build].ended + TTL
    BY <1>5, <1>6 DEF SInv, AnswersFresh
  <2> QED
    BY <2>2, <2>3, <2>4 DEF AnswersFresh
<1> QED
  BY <1>7, <1>8, <1>9, <1>10 DEF SInv

\* Monotony of a product
LEMMA ProductFacts ==
  ASSUME NEW a \in Nat, NEW b \in Nat, NEW c \in Nat, a <= b
  PROVE  /\ a * c \in Nat /\ b * c \in Nat /\ a * c <= b * c
         /\ (b + 1) * c = b * c + c
OBVIOUS

\* The table after one build has changed.
LEMMA BuildChanges ==
  ASSUME SInv, NEW b \in DOMAIN builds, NEW new \in Build,
         builds' = [builds EXCEPT ![b] = new]
  PROVE  /\ builds' \in Seq(Build) /\ Len(builds') = Len(builds)
         /\ DOMAIN builds' = DOMAIN builds
         /\ builds'[b] = new /\ \A o \in DOMAIN builds \ {b} : builds'[o] = builds[o]
<1>1. builds \in Seq(Build) /\ DOMAIN builds = 1..Len(builds) /\ Len(builds) \in Nat
  BY BuildsTable DEF SInv
<1>2. builds' \in Seq(Build) /\ Len(builds') = Len(builds)
  BY <1>1, ExceptSeq
<1> QED
  BY <1>1, <1>2

\* The counter of the month after a charge, and after a refusal, covers every
\* month as it did before.
LEMMA Charged ==
  ASSUME SInv, NEW b \in DOMAIN builds, clock' = clock, DOMAIN builds' = DOMAIN builds,
         \A o \in DOMAIN builds \ {b} : builds'[o] = builds[o],
         month' = Month,
         \/ /\ builds'[b].paid = builds[b].paid /\ used' = UsedThisMonth
         \/ /\ builds'[b].paid = Month /\ used' = UsedThisMonth + Charge /\ Affordable
  PROVE  MoneyCounted' /\ month' \in 0..clock /\ used' \in 0..Budget
<1> DEFINE n == Cardinality(Calls)
<1>1. /\ month \in Nat /\ Month \in 0..clock /\ clock \in Nat /\ month <= Month
      /\ Budget \in Nat /\ used \in 0..Budget
      /\ n \in Nat /\ Charge = n
      /\ \A o \in DOMAIN builds : builds[o].paid \in Int /\ builds[o].paid <= month
  <2>1. SnapshotTypeOK /\ MoneyCounted
    BY DEF SInv
  <2>2. /\ month \in Nat /\ Month \in 0..clock /\ clock \in Nat /\ Budget \in Nat
        /\ \A o \in DOMAIN builds : builds[o] \in Build
    BY <2>1, BuildsTable
  <2>3. \A o \in DOMAIN builds : builds[o].paid \in Int
    BY <2>2 DEF Build
  <2>4. month <= Month /\ \A o \in DOMAIN builds : builds[o].paid <= month
    BY <2>1 DEF MoneyCounted
  <2>5. used \in 0..Budget /\ n \in Nat /\ Charge = n
    BY <2>1, CallsCounted DEF SnapshotTypeOK, Charge
  <2> QED
    BY <2>2, <2>3, <2>4, <2>5
<1>2. UsedThisMonth \in 0..Budget
  BY <1>1 DEF UsedThisMonth
<1>3. used' \in 0..Budget /\ UsedThisMonth <= used'
  BY <1>1, <1>2 DEF Affordable
<1>4. Month' = Month
  BY DEF Month
<1>5. \A o \in DOMAIN builds' : builds'[o].paid <= month'
  BY <1>1
<1>6. ASSUME NEW m \in 0..Month
      PROVE  /\ IsFiniteSet(PaidIn(m)) /\ Cardinality(PaidIn(m)) \in Nat
             /\ Cardinality(PaidIn(m)) * n <= IF m = Month THEN UsedThisMonth ELSE Budget
  <2>1. IsFiniteSet(PaidIn(m)) /\ Cardinality(PaidIn(m)) \in Nat
    BY PaidFinite DEF SInv
  <2>2. CASE m <= month
    <3>1. Cardinality(PaidIn(m)) * n <= IF m = month THEN used ELSE Budget
      BY <1>1, <2>2 DEF SInv, MoneyCounted
    <3> HIDE DEF n
    <3> QED
      BY <1>1, <2>1, <2>2, <3>1 DEF UsedThisMonth
  <2>3. CASE m > month
    <3>1. PaidIn(m) = {}
      BY <1>1, <2>3 DEF PaidIn
    <3>2. Cardinality(PaidIn(m)) = 0
      BY <3>1, FS_EmptySet
    <3> HIDE DEF n
    <3> QED
      BY <1>1, <1>2, <2>1, <3>2
  <2> QED
    BY <1>1, <2>1, <2>2, <2>3
<1>7. ASSUME NEW m \in 0..Month
      PROVE  Cardinality(PaidIn(m)') * n <= IF m = Month THEN used' ELSE Budget
  <2>1. CASE PaidIn(m)' \subseteq PaidIn(m)
    <3>1. IsFiniteSet(PaidIn(m)') /\ Cardinality(PaidIn(m)') <= Cardinality(PaidIn(m))
      BY <1>6, <2>1, FS_Subset
    <3>2. Cardinality(PaidIn(m)') \in Nat
      BY <3>1, FS_CardinalityType
    <3> HIDE DEF n
    <3>3. Cardinality(PaidIn(m)') * n <= Cardinality(PaidIn(m)) * n
          /\ Cardinality(PaidIn(m)') * n \in Nat /\ Cardinality(PaidIn(m)) * n \in Nat
      BY <1>1, <1>6, <3>1, <3>2, ProductFacts
    <3> QED
      BY <1>1, <1>2, <1>3, <1>6, <3>3
  <2>2. CASE ~(PaidIn(m)' \subseteq PaidIn(m))
    <3>1. /\ builds'[b].paid = m /\ b \notin PaidIn(m)
          /\ PaidIn(m)' = PaidIn(m) \cup {b}
      BY <2>2 DEF PaidIn
    <3>2. m = Month /\ used' = UsedThisMonth + n /\ Affordable
      BY <1>1, <3>1 DEF PaidIn
    <3>3. Cardinality(PaidIn(m)') = Cardinality(PaidIn(m)) + 1
      BY <1>6, <3>1, FS_AddElement
    <3> HIDE DEF n
    <3>4. /\ (Cardinality(PaidIn(m)) + 1) * n = Cardinality(PaidIn(m)) * n + n
          /\ Cardinality(PaidIn(m)) * n \in Nat
      BY <1>1, <1>6, ProductFacts
    <3>5. Cardinality(PaidIn(m)) * n <= UsedThisMonth
      BY <1>6, <3>2
    <3> QED
      BY <1>1, <1>2, <3>2, <3>3, <3>4, <3>5
  <2> QED
    BY <2>1, <2>2
<1>8. \A m \in 0..month' :
        Cardinality(PaidIn(m)') * n <= IF m = month' THEN used' ELSE Budget
  BY <1>7
<1>9. \A m : PaidIn(m)' = {o \in DOMAIN builds' : builds'[o].paid = m}
  BY DEF PaidIn
<1> QED
  BY <1>1, <1>3, <1>4, <1>5, <1>8, <1>9 DEF MoneyCounted, PaidIn

\* The charge of a build, in the step that starts its calls
LEMMA BrandKeeps ==
  ASSUME SInv, NEW b \in DOMAIN builds, BrandFound(b)
  PROVE  SInv'
<1> DEFINE new == [builds[b] EXCEPT !.step = "calls", !.paid = Month,
                                    !.calls = [c \in Calls |-> "running"]]
<1>1. /\ builds[b] \in Build /\ Len(builds) \in Nat /\ clock \in Nat /\ Month \in 0..clock
      /\ DOMAIN builds = 1..Len(builds)
  BY BuildsTable DEF SInv
<1>2. /\ builds[b].step = "brand" /\ Affordable
      /\ month' = Month /\ used' = UsedThisMonth + Charge
      /\ builds' = [builds EXCEPT ![b] = new]
      /\ UNCHANGED <<clock, cache, inflight, visitorHits, domainHits, ask, asked>>
  BY DEF BrandFound
<1>3. /\ new.step = "calls" /\ new.paid = Month /\ new.domain = builds[b].domain
      /\ new.ended = builds[b].ended /\ new.calls = [c \in Calls |-> "running"]
  BY <1>1 DEF Build
<1>4. new \in Build
  <2>1. Month \in -1..clock
    BY <1>1
  <2>2. [c \in Calls |-> "running"] \in [Calls -> {"planned", "running", "ok", "failed"}]
    OBVIOUS
  <2> QED
    BY <1>1, <2>1, <2>2 DEF Build
<1> HIDE DEF new
<1>5. /\ builds' \in Seq(Build) /\ Len(builds') = Len(builds)
      /\ DOMAIN builds' = DOMAIN builds
      /\ builds'[b] = new /\ \A o \in DOMAIN builds \ {b} : builds'[o] = builds[o]
  BY <1>2, <1>4, BuildChanges
<1>6. MoneyCounted' /\ month' \in 0..clock /\ used' \in 0..Budget
  BY <1>2, <1>3, <1>5, Charged
<1>7. SnapshotTypeOK'
  <2>1. Build' = Build
    BY <1>2 DEF Build
  <2> QED
    BY <1>2, <1>5, <1>6, <2>1 DEF SInv, SnapshotTypeOK, Build
<1>8. \A o \in DOMAIN builds :
        /\ builds'[o].domain = builds[o].domain /\ builds'[o].ended = builds[o].ended
        /\ builds'[o].step \in {"brand", "calls"} <=> builds[o].step \in {"brand", "calls"}
        /\ builds'[o].step = "answered" <=> builds[o].step = "answered"
        /\ builds[o].step = "answered" => builds'[o].calls = builds[o].calls
  BY <1>2, <1>3, <1>5
<1>9. TableAgrees'
  BY <1>2, <1>5, <1>8 DEF SInv, TableAgrees, InProgress
<1>10. AnswersFresh'
  <2>1. \A d \in Domains : cache[d] # 0 => cache[d] \in DOMAIN builds
    BY <1>1 DEF SInv, SnapshotTypeOK
  <2> QED
    BY <1>2, <1>5, <1>8, <2>1 DEF SInv, AnswersFresh
<1> QED
  BY <1>6, <1>7, <1>9, <1>10 DEF SInv

\* One more outcome while other calls of the build are still running
LEMMA CallKeeps ==
  ASSUME SInv, NEW b \in DOMAIN builds, NEW c \in Calls, NEW outcome \in {"ok", "failed"},
         builds[b].step = "calls",
         builds' = [builds EXCEPT ![b].calls = [builds[b].calls EXCEPT ![c] = outcome]],
         UNCHANGED <<clock, cache, inflight, visitorHits, domainHits, month, used, ask, asked>>
  PROVE  SInv'
<1> DEFINE new == [builds[b] EXCEPT !.calls = [builds[b].calls EXCEPT ![c] = outcome]]
<1>1. /\ builds[b] \in Build /\ Len(builds) \in Nat /\ clock \in Nat
      /\ DOMAIN builds = 1..Len(builds)
  BY BuildsTable DEF SInv
<1>2. builds' = [builds EXCEPT ![b] = new]
  OBVIOUS
<1>3. /\ new.step = "calls" /\ new.paid = builds[b].paid /\ new.domain = builds[b].domain
      /\ new.ended = builds[b].ended
  BY <1>1 DEF Build
<1>4. new \in Build
  <2>1. [builds[b].calls EXCEPT ![c] = outcome]
          \in [Calls -> {"planned", "running", "ok", "failed"}]
    BY <1>1 DEF Build
  <2> QED
    BY <1>1, <2>1 DEF Build
<1> HIDE DEF new
<1>5. /\ builds' \in Seq(Build) /\ Len(builds') = Len(builds)
      /\ DOMAIN builds' = DOMAIN builds
      /\ builds'[b] = new /\ \A o \in DOMAIN builds \ {b} : builds'[o] = builds[o]
  BY <1>2, <1>4, BuildChanges
<1>6. \A o \in DOMAIN builds :
        /\ builds'[o].domain = builds[o].domain /\ builds'[o].ended = builds[o].ended
        /\ builds'[o].step = builds[o].step /\ builds'[o].paid = builds[o].paid
        /\ builds[o].step = "answered" => builds'[o].calls = builds[o].calls
  BY <1>3, <1>5
<1>7. SnapshotTypeOK'
  <2>1. Build' = Build
    BY DEF Build
  <2> QED
    BY <1>5, <2>1 DEF SInv, SnapshotTypeOK, Build
<1>8. TableAgrees'
  BY <1>5, <1>6 DEF SInv, TableAgrees, InProgress
<1>9. AnswersFresh'
  <2>1. \A d \in Domains : cache[d] # 0 => cache[d] \in DOMAIN builds
    BY <1>1 DEF SInv, SnapshotTypeOK
  <2> QED
    BY <1>5, <1>6, <2>1 DEF SInv, AnswersFresh
<1>10. MoneyCounted'
  <2>1. \A m : PaidIn(m)' = PaidIn(m)
    BY <1>5, <1>6 DEF PaidIn
  <2>2. Month' = Month
    BY DEF Month
  <2> QED
    BY <1>5, <1>6, <2>1, <2>2 DEF SInv, MoneyCounted
<1> QED
  BY <1>7, <1>8, <1>9, <1>10 DEF SInv

\* A build in progress ends: the table forgets it, all who wait are told, and the
\* cache gets it only when it has an answer.
LEMMA EndKeeps ==
  ASSUME SInv, NEW b \in DOMAIN builds, NEW status \in {"answered", "failed"},
         NEW calls \in [Calls -> {"planned", "running", "ok", "failed"}],
         builds[b].step \in {"brand", "calls"},
         status = "answered" => \E c \in Calls : calls[c] = "ok",
         EndBuild(b, status, calls),
         \/ cache' = cache
         \/ status = "answered" /\ cache' = [cache EXCEPT ![builds[b].domain] = b],
         \/ month' = Month /\ used' = UsedThisMonth
         \/ UNCHANGED <<month, used>>,
         UNCHANGED <<clock, visitorHits, domainHits, asked>>
  PROVE  SInv'
<1> DEFINE new == [builds[b] EXCEPT !.step = status, !.ended = clock, !.calls = calls]
           home == builds[b].domain
<1>1. /\ builds[b] \in Build /\ Len(builds) \in Nat /\ clock \in Nat
      /\ DOMAIN builds = 1..Len(builds) /\ TTL \in Nat \ {0} /\ home \in Domains
      /\ cache \in [Domains -> 0..Len(builds)] /\ inflight \in [Domains -> 0..Len(builds)]
      /\ ask \in [Visitors -> AskType]
  <2>1. SnapshotTypeOK
    BY DEF SInv
  <2>2. /\ builds[b] \in Build /\ Len(builds) \in Nat /\ clock \in Nat
        /\ DOMAIN builds = 1..Len(builds) /\ TTL \in Nat \ {0}
    BY <2>1, BuildsTable
  <2>3. home \in Domains
    BY <2>2 DEF Build
  <2> QED
    BY <2>1, <2>2, <2>3 DEF SnapshotTypeOK, AskType
<1>2. /\ builds' = [builds EXCEPT ![b] = new]
      /\ inflight' = [inflight EXCEPT ![home] = 0]
      /\ ask' = [v \in Visitors |->
           IF ask[v].status = "waiting" /\ ask[v].build = b
           THEN Reply(status, b) ELSE ask[v]]
  BY DEF EndBuild
<1>3. /\ new.step = status /\ new.paid = builds[b].paid /\ new.domain = home
      /\ new.ended = clock /\ new.calls = calls
  BY <1>1 DEF Build
<1>4. new \in Build
  <2>1. clock \in 0..clock
    BY <1>1
  <2> QED
    BY <1>1, <2>1 DEF Build
<1> HIDE DEF new, home
<1>5. /\ builds' \in Seq(Build) /\ Len(builds') = Len(builds)
      /\ DOMAIN builds' = DOMAIN builds
      /\ builds'[b] = new /\ \A o \in DOMAIN builds \ {b} : builds'[o] = builds[o]
  BY <1>2, <1>4, BuildChanges
<1>6. /\ Reply(status, b) \in AskType /\ Reply(status, b).status = status
      /\ Reply(status, b).build = b
      /\ status = "answered" => Reply(status, b).at = clock
  BY <1>1 DEF Reply, AskType
<1>7. ask' \in [Visitors -> AskType]
  BY <1>1, <1>2, <1>6
<1>8. cache' \in [Domains -> 0..Len(builds)]
  BY <1>1 DEF home
<1>9. MoneyCounted' /\ month' \in 0..clock /\ used' \in 0..Budget
  <2>1. CASE month' = Month /\ used' = UsedThisMonth
    BY <1>3, <1>5, <2>1, Charged
  <2>2. CASE UNCHANGED <<month, used>>
    <3>1. \A o \in DOMAIN builds : builds'[o].paid = builds[o].paid
      BY <1>3, <1>5
    <3>2. \A m : PaidIn(m)' = PaidIn(m)
      BY <1>5, <3>1 DEF PaidIn
    <3>3. Month' = Month
      BY DEF Month
    <3> QED
      BY <1>5, <2>2, <3>1, <3>2, <3>3 DEF SInv, MoneyCounted, SnapshotTypeOK
  <2> QED
    BY <2>1, <2>2
<1>10. SnapshotTypeOK'
  <2>1. Build' = Build /\ AskType' = AskType
    BY <1>5 DEF Build, AskType
  <2>2. inflight' \in [Domains -> 0..Len(builds)]
    BY <1>1, <1>2
  <2> QED
    BY <1>5, <1>7, <1>8, <1>9, <2>1, <2>2 DEF SInv, SnapshotTypeOK, Build, AskType
<1>11. TableAgrees'
  <2>1. ASSUME NEW e \in Domains
        PROVE  InProgress(e)' = IF inflight'[e] = 0 THEN {} ELSE {inflight'[e]}
    <3>1. InProgress(e) = IF inflight[e] = 0 THEN {} ELSE {inflight[e]}
      BY DEF SInv, TableAgrees
    <3>2. InProgress(e)' = InProgress(e) \ {b}
      BY <1>3, <1>5 DEF InProgress
    <3>3. CASE e = home
      <4>1. b \in InProgress(e)
        BY <3>3 DEF InProgress, home
      <4> QED
        BY <1>1, <1>2, <3>1, <3>2, <3>3, <4>1
    <3>4. CASE e # home
      <4>1. b \notin InProgress(e)
        BY <3>4 DEF InProgress, home
      <4> QED
        BY <1>1, <1>2, <3>1, <3>2, <3>4, <4>1
    <3> QED
      BY <3>3, <3>4
  <2>2. ASSUME NEW v \in Visitors, ask'[v].status = "waiting"
        PROVE  /\ ask'[v].build \in DOMAIN builds'
               /\ builds'[ask'[v].build].step \in {"brand", "calls"}
    <3>1. ask'[v] = ask[v] /\ ask[v].build # b
      BY <1>2, <1>6, <2>2
    <3> QED
      BY <1>5, <2>2, <3>1 DEF SInv, TableAgrees
  <2> QED
    BY <2>1, <2>2 DEF TableAgrees
<1>12. AnswersFresh'
  <2>1. \A o \in DOMAIN builds' : builds'[o].step = "answered" =>
          \E c \in Calls : builds'[o].calls[c] = "ok"
    BY <1>3, <1>5 DEF SInv, AnswersFresh
  <2>2. ASSUME NEW d \in Domains, cache'[d] # 0
        PROVE  builds'[cache'[d]].step = "answered"
    <3>1. CASE cache'[d] = cache[d]
      <4>1. cache[d] \in DOMAIN builds /\ builds[cache[d]].step = "answered"
        BY <1>1, <2>2, <3>1 DEF SInv, AnswersFresh
      <4> QED
        BY <1>5, <3>1, <4>1
    <3>2. CASE cache'[d] # cache[d]
      <4>1. cache'[d] = b /\ status = "answered"
        BY <1>1, <3>2
      <4> QED
        BY <1>3, <1>5, <4>1
    <3> QED
      BY <3>1, <3>2
  <2>3. ASSUME NEW v \in Visitors, ask'[v].status = "answered"
        PROVE  /\ ask'[v].build \in DOMAIN builds'
               /\ builds'[ask'[v].build].step = "answered"
               /\ ask'[v].at < builds'[ask'[v].build].ended + TTL
    <3>1. CASE ask[v].status = "waiting" /\ ask[v].build = b
      <4>1. ask'[v] = Reply(status, b)
        BY <1>2, <3>1
      <4>2. ask'[v].build = b /\ ask'[v].at = clock /\ status = "answered"
        BY <1>6, <2>3, <4>1
      <4>3. clock < clock + TTL
        BY <1>1
      <4> QED
        BY <1>3, <1>5, <4>2, <4>3
    <3>2. CASE ~(ask[v].status = "waiting" /\ ask[v].build = b)
      <4>1. ask'[v] = ask[v]
        BY <1>2, <3>2
      <4>2. /\ ask[v].build \in DOMAIN builds /\ builds[ask[v].build].step = "answered"
            /\ ask[v].at < builds[ask[v].build].ended + TTL
        BY <2>3, <4>1 DEF SInv, AnswersFresh
      <4> QED
        BY <1>5, <4>1, <4>2
    <3> QED
      BY <3>1, <3>2
  <2> QED
    BY <2>1, <2>2, <2>3 DEF AnswersFresh
<1> QED
  BY <1>9, <1>10, <1>11, <1>12 DEF SInv

LEMMA OutcomeKeeps ==
  ASSUME SInv, NEW b \in DOMAIN builds, NEW c \in Calls, NEW outcome \in {"ok", "failed"},
         Outcome(b, c, outcome)
  PROVE  SInv'
<1> DEFINE calls == [builds[b].calls EXCEPT ![c] = outcome]
<1>1. builds[b] \in Build
  BY BuildsTable DEF SInv
<1>2. calls \in [Calls -> {"planned", "running", "ok", "failed"}]
  BY <1>1 DEF Build
<1>3. /\ builds[b].step = "calls"
      /\ UNCHANGED <<clock, visitorHits, domainHits, month, used, asked>>
      /\ \/ builds' = [builds EXCEPT ![b].calls = calls] /\ UNCHANGED <<cache, inflight, ask>>
         \/ /\ \E o \in Calls : calls[o] = "ok"
            /\ EndBuild(b, "answered", calls)
            /\ cache' = [cache EXCEPT ![builds[b].domain] = b]
         \/ EndBuild(b, "failed", calls) /\ UNCHANGED cache
  BY DEF Outcome
<1>4. CASE builds' = [builds EXCEPT ![b].calls = calls] /\ UNCHANGED <<cache, inflight, ask>>
  BY <1>3, <1>4, CallKeeps
<1> HIDE DEF calls
<1>5. CASE /\ \E o \in Calls : calls[o] = "ok"
           /\ EndBuild(b, "answered", calls)
           /\ cache' = [cache EXCEPT ![builds[b].domain] = b]
  BY <1>2, <1>3, <1>5, EndKeeps
<1>6. CASE EndBuild(b, "failed", calls) /\ UNCHANGED cache
  BY <1>2, <1>3, <1>6, EndKeeps
<1> QED
  BY <1>3, <1>4, <1>5, <1>6

LEMMA ExhaustedKeeps ==
  ASSUME SInv, NEW b \in DOMAIN builds, BudgetExhausted(b)
  PROVE  SInv'
<1>1. builds[b].calls \in [Calls -> {"planned", "running", "ok", "failed"}]
  BY BuildsTable DEF SInv, Build
<1>2. /\ builds[b].step \in {"brand", "calls"} /\ EndBuild(b, "failed", builds[b].calls)
      /\ month' = Month /\ used' = UsedThisMonth
      /\ UNCHANGED <<clock, cache, visitorHits, domainHits, asked>>
  BY DEF BudgetExhausted
<1> QED
  BY <1>1, <1>2, EndKeeps

LEMMA StepKeeps == SInv /\ [NextSnapshot]_snapVars => SInv'
<1> SUFFICES ASSUME SInv, [NextSnapshot]_snapVars PROVE SInv'
  OBVIOUS
<1>1. CASE Tick \/ EvictHits \/ (\E d \in Domains : EvictEntry(d))
  BY <1>1, QuietOthers, QuietKeeps
<1>2. ASSUME NEW v \in Visitors, NEW d \in Domains,
             ServeCached(v, d) \/ DomainLimited(v, d)
               \/ JoinBuild(v, d) \/ ReadCached(v, d)
      PROVE  SInv'
  BY <1>2, QuietRequests, QuietKeeps
<1>3. ASSUME NEW v \in Visitors, VisitorLimited(v) PROVE SInv'
  <2>1. Quiet
    BY <1>3, LimitedQuiet
  <2> QED
    BY <2>1, QuietKeeps
<1>4. ASSUME NEW v \in Visitors, NEW d \in Domains, StartBuild(v, d) PROVE SInv'
  BY <1>4, StartKeeps
<1>5. ASSUME NEW b \in DOMAIN builds, BrandFound(b) PROVE SInv'
  BY <1>5, BrandKeeps
<1>6. ASSUME NEW b \in DOMAIN builds, BudgetExhausted(b) PROVE SInv'
  BY <1>6, ExhaustedKeeps
<1>7. ASSUME NEW b \in DOMAIN builds, NEW c \in Calls,
             CallAnswers(b, c) \/ CallFails(b, c) \/ CallTimesOut(b, c)
      PROVE  SInv'
  BY <1>7, OutcomeKeeps DEF CallAnswers, CallFails, CallTimesOut
<1>8. CASE UNCHANGED snapVars
  <2>1. /\ clock' = clock /\ builds' = builds /\ month' = month /\ used' = used /\ ask' = ask
        /\ cache' = cache /\ inflight' = inflight /\ visitorHits' = visitorHits
        /\ domainHits' = domainHits /\ asked' = asked
    BY <1>8 DEF snapVars
  <2>2. SnapshotTypeOK' /\ TableAgrees' /\ AnswersFresh'
    BY <2>1 DEF SInv, SnapshotTypeOK, TableAgrees, InProgress, AnswersFresh
  <2>3. MoneyCounted'
    BY <2>1 DEF SInv, MoneyCounted, PaidIn, Month
  <2> QED
    BY <2>2, <2>3 DEF SInv
<1> QED
  BY <1>1, <1>2, <1>3, <1>4, <1>5, <1>6, <1>7, <1>8 DEF NextSnapshot

\* The inductive invariant of the snapshot service holds throughout.
THEOREM SnapshotInv == SpecSnapshot => []SInv
<1>1. SpecSnapshot => InitSnapshot /\ [][NextSnapshot]_snapVars
  BY DEF SpecSnapshot
<1> QED
  BY <1>1, InitSInv, StepKeeps, PTL

-----------------------------------------------------------------------------
(* The theorems                                                             *)

\* The memory of the snapshot service keeps its types: every entry of the cache
\* and of the table names a build, and the counter of the month is a number of
\* calls within the budget.
THEOREM SnapshotTyped == SpecSnapshot => []SnapshotTypeOK
<1>1. SInv => SnapshotTypeOK
  BY DEF SInv
<1> QED
  BY <1>1, SnapshotInv, PTL

\* dedupe: a domain has one build in progress, and who waits for a build waits for
\* one that is still going on, whatever the limiters, the cache and the clock do.
THEOREM SharedBuild == SpecSnapshot => []OneBuildPerDomain
<1>1. SInv => OneBuildPerDomain
  <2> SUFFICES ASSUME SInv PROVE OneBuildPerDomain
    OBVIOUS
  <2>1. ASSUME NEW d \in Domains PROVE Cardinality(InProgress(d)) <= 1
    <3>1. InProgress(d) = {} \/ \E b : InProgress(d) = {b}
      BY DEF SInv, TableAgrees
    <3>2. InProgress(d) = {} => Cardinality(InProgress(d)) = 0
      BY FS_EmptySet
    <3>3. \A b : InProgress(d) = {b} => Cardinality(InProgress(d)) = 1
      BY FS_Singleton
    <3>4. Cardinality(InProgress(d)) \in {0, 1}
      BY <3>1, <3>2, <3>3, Zenon
    <3> QED
      BY <3>4
  <2>2. ASSUME NEW v \in Visitors, ask[v].status = "waiting"
        PROVE  \E d \in Domains : ask[v].build \in InProgress(d)
    <3>1. /\ ask[v].build \in DOMAIN builds
          /\ builds[ask[v].build].step \in {"brand", "calls"}
      BY <2>2 DEF SInv, TableAgrees
    <3>2. builds[ask[v].build].domain \in Domains
      BY <3>1, BuildsTable DEF SInv, Build
    <3> QED
      BY <3>1, <3>2 DEF InProgress
  <2> QED
    BY <2>1, <2>2 DEF OneBuildPerDomain
<1> QED
  BY <1>1, SnapshotInv, PTL

\* MonthlyBudget: the calls started in a calendar month never pass the budget, for
\* any budget, any number of calls per build and any interleaving of builds,
\* also those that began in one month and are charged in the next.
THEOREM BudgetHolds == SpecSnapshot => []BudgetKept
<1>1. SInv => BudgetKept
  <2> SUFFICES ASSUME SInv, NEW m \in 0..Month
               PROVE  Cardinality(PaidIn(m)) * Cardinality(Calls) <= Budget
    BY DEF BudgetKept, PaidIn
  <2>1. /\ month \in Nat /\ Month \in Nat /\ Budget \in Nat /\ used \in 0..Budget
        /\ Cardinality(Calls) \in Nat
    BY BuildsTable, CallsCounted DEF SInv, SnapshotTypeOK
  <2>2. Cardinality(PaidIn(m)) \in Nat
    BY PaidFinite DEF SInv
  <2>3. CASE m <= month
    <3>1. Cardinality(PaidIn(m)) * Cardinality(Calls) <= IF m = month THEN used ELSE Budget
      BY <2>1, <2>3 DEF SInv, MoneyCounted
    <3>2. Cardinality(PaidIn(m)) * Cardinality(Calls) \in Nat
      BY <2>1, <2>2, ProductFacts
    <3> QED
      BY <2>1, <3>1, <3>2
  <2>4. CASE m > month
    <3>1. \A b \in DOMAIN builds : builds[b].paid \in Int /\ builds[b].paid <= month
      BY BuildsTable DEF SInv, Build, MoneyCounted
    <3>2. PaidIn(m) = {}
      BY <2>1, <2>4, <3>1 DEF PaidIn
    <3>3. Cardinality(PaidIn(m)) = 0
      BY <3>2, FS_EmptySet
    <3> QED
      BY <2>1, <3>3
  <2> QED
    BY <2>1, <2>3, <2>4
<1> QED
  BY <1>1, SnapshotInv, PTL

\* resultCache: nobody is answered from a build in which no provider answered, or
\* from one that ended a lifetime of an entry ago or more.
THEOREM FreshAnswers == SpecSnapshot => []ServedIsFresh
<1>1. SInv => ServedIsFresh
  BY DEF SInv, AnswersFresh, ServedIsFresh
<1> QED
  BY <1>1, SnapshotInv, PTL

-----------------------------------------------------------------------------
(* The front door                                                           *)

\* A behaviour of the front door is one of each of its parts: what is proved of a part
\* holds here.
THEOREM FrontDoorImplementsParts == MCSpec => SpecTokens /\ SpecSnapshot
<1>1. MCInit => InitTokens /\ InitSnapshot
  BY DEF MCInit
<1>2. [MCNext]_vars => [NextTokens]_tokenVars /\ [NextSnapshot]_snapVars
  BY DEF MCNext, vars
<1> QED
  BY <1>1, <1>2, PTL DEF MCSpec, SpecTokens, SpecSnapshot

\* Types of both parts, for any accounts, links, visitors, domains and limits.
THEOREM FrontDoorTyped == MCSpec => []FrontDoorTypeOK
<1>1. TokensTypeOK /\ SnapshotTypeOK => FrontDoorTypeOK
  BY DEF FrontDoorTypeOK
<1> QED
  BY <1>1, FrontDoorImplementsParts, TypeCorrectTokens, SnapshotTyped, PTL
=============================================================================
