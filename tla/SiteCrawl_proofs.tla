-------------------------- MODULE SiteCrawl_proofs --------------------------
(***************************************************************************)
(* Machine-checked theorems about SiteCrawl, for any site, any number of    *)
(* workers and any cap that satisfy CrawlAssumption.                        *)
(***************************************************************************)
EXTENDS SiteCrawl, FiniteSetTheorems, TLAPS

-----------------------------------------------------------------------------
(* The inductive invariant.                                                 *)

\* The workers between the dispatch of a page and its end, and their pages
Busy == {w \in Workers : pc[w] \in InFlight}
Held == {url[w] : w \in Busy}

\* Dispatched pages that nobody holds and that have no row
Lost == processed \ (pages \cup Held)

PlainTypes ==
  /\ main \in {"start", "launched", "prepared", "crawling", "complete",
               "summary", "failing", "closing", "done"}
  /\ status \in {"RUNNING", "COMPLETED", "FAILED"}
  /\ browser \in {"none", "up", "died", "closed"}
  /\ late \in BOOLEAN /\ crawlFailed \in BOOLEAN /\ dbFault \in BOOLEAN
  /\ queue \subseteq Urls /\ discovered \subseteq Urls
  /\ processed \subseteq Urls /\ saved \subseteq Urls
  /\ pages \subseteq Urls /\ failures \subseteq Urls
  /\ pagesCrawled \in Nat /\ pagesFailed \in Nat /\ hangs \in Nat
  /\ pc \in [Workers -> {"idle", "loop"} \union InFlight \union Ended]
  /\ url \in [Workers -> Urls]

\* activeWorkers counts the busy workers.
ActiveCounted == activeWorkers = Cardinality(Busy)

\* The queue holds the discovered pages that were not dispatched, all of them
\* unless the pool was stopped; rows and busy workers are of dispatched pages.
QueueHoldsRest ==
  /\ queue \subseteq discovered \ processed
  /\ processed \subseteq discovered
  /\ ~crawlFailed => queue = discovered \ processed
  /\ pages \subseteq processed
  /\ \A w \in Workers : /\ pc[w] \in InFlight => url[w] \in processed
                        /\ pc[w] = "audit" => url[w] \in pages

Capped == Cardinality(discovered) <= MaxPages

\* Every dispatched page is crawled, failed or held, at most once.
Tallied ==
  /\ pagesCrawled + pagesFailed + activeWorkers <= Cardinality(processed)
  /\ ~crawlFailed => Cardinality(Lost) <= pagesFailed

\* Before the pool starts nobody moves; a stopped pool has a worker that threw; a
\* worker returned only from a pool that is stopped or has nothing left; the
\* crawl is complete when all have returned.
EndsAgree ==
  /\ main \in {"start", "launched", "prepared"} => \A w \in Workers : pc[w] = "idle"
  /\ crawlFailed => \E w \in Workers : pc[w] = "thrown"
  /\ (\E w \in Workers : pc[w] = "returned") =>
       crawlFailed \/ (queue = {} /\ activeWorkers = 0)
  /\ main \in {"complete", "summary"} \/ status = "COMPLETED" =>
       \A w \in Workers : pc[w] = "returned"

Causes ==
  /\ main \in {"launched", "prepared", "crawling"} => browser \in {"up", "died"}
  /\ main \in {"start", "launched", "prepared", "crawling", "complete"} =>
       status = "RUNNING"
  /\ main = "crawling" /\ (\E w \in Workers : pc[w] = "thrown") =>
       browser = "died" \/ late
  /\ main = "failing" \/ status = "FAILED" =>
       browser = "died" \/ late \/ dbFault \/ \A w \in Workers : pc[w] = "idle"

IInv ==
  /\ PlainTypes /\ ActiveCounted
  /\ QueueHoldsRest /\ Capped /\ Tallied
  /\ EndsAgree /\ Causes

\* A step that leaves the pool and its workers alone
PoolStill == UNCHANGED <<poolVars, pc, url, rowVars>>

-----------------------------------------------------------------------------
(* Facts about the sets of the pool.                                        *)

LEMMA BusyFinite ==
  ASSUME PlainTypes
  PROVE  /\ IsFiniteSet(Busy) /\ Cardinality(Busy) \in 0..Cardinality(Workers)
         /\ IsFiniteSet(discovered) /\ IsFiniteSet(processed)
         /\ Cardinality(discovered) \in Nat /\ Cardinality(processed) \in Nat
         /\ IsFiniteSet(Lost) /\ Cardinality(Lost) \in Nat
<1>1. IsFiniteSet(Workers) /\ IsFiniteSet(Urls)
  BY CrawlAssumption
<1>2. /\ Busy \in SUBSET Workers /\ discovered \in SUBSET Urls
      /\ processed \in SUBSET Urls /\ Lost \in SUBSET Urls
  BY DEF Busy, PlainTypes, Lost
<1>3. /\ IsFiniteSet(Busy) /\ Cardinality(Busy) <= Cardinality(Workers)
      /\ IsFiniteSet(discovered) /\ IsFiniteSet(processed) /\ IsFiniteSet(Lost)
  BY <1>1, <1>2, FS_Subset
<1> QED
  BY <1>1, <1>3, FS_CardinalityType

\* The cap holds for whatever Admit lets in.
LEMMA AdmitWithinCap ==
  ASSUME PlainTypes, Capped, NEW links \in SUBSET Urls, Admit(links)
  PROVE  \E new \in SUBSET (Urls \ (discovered \cup processed)) :
           /\ discovered' = discovered \cup new /\ queue' = queue \cup new
           /\ Cardinality(discovered') <= MaxPages
<1> DEFINE fresh == links \ (discovered \cup processed)
           room == MaxPages - Cardinality(discovered)
<1>1. PICK new \in SUBSET fresh :
        /\ \/ new = fresh /\ Cardinality(new) <= room
           \/ Cardinality(new) = room /\ room < Cardinality(fresh)
        /\ discovered' = discovered \cup new /\ queue' = queue \cup new
  BY DEF Admit
<1>2. IsFiniteSet(discovered) /\ Cardinality(discovered) \in Nat
  BY BusyFinite
<1>3. new \in SUBSET Urls /\ IsFiniteSet(new) /\ Cardinality(new) \in Nat
  <2>1. new \in SUBSET Urls
    OBVIOUS
  <2> QED
    BY <2>1, CrawlAssumption, FS_Subset, FS_CardinalityType
<1>4. Cardinality(discovered \cup new) = Cardinality(discovered) + Cardinality(new)
  <2>1. discovered \cap new = {}
    OBVIOUS
  <2> QED
    BY <1>2, <1>3, <2>1, FS_EmptySet, FS_Union
<1>5. Cardinality(new) <= room
  BY <1>1, <1>2, <1>3, CrawlAssumption
<1>6. Cardinality(discovered \cup new) <= MaxPages
  BY <1>2, <1>3, <1>4, <1>5, CrawlAssumption
<1> QED
  BY <1>1, <1>3, <1>6

\* A worker that ends its page leaves the count of the busy ones.
LEMMA BusyLeft ==
  ASSUME PlainTypes, ActiveCounted, NEW w \in Workers, pc[w] \in InFlight,
         NEW to \in {"loop"} \cup Ended, pc' = [pc EXCEPT ![w] = to],
         activeWorkers' = activeWorkers - 1
  PROVE  ActiveCounted' /\ Busy' = Busy \ {w} /\ activeWorkers \in Nat \ {0}
<1>1. to \notin InFlight
  BY DEF InFlight, Ended
<1>2. Busy' = Busy \ {w}
  BY <1>1 DEF Busy, PlainTypes
<1>3. w \in Busy
  BY DEF Busy
<1>4. Cardinality(Busy \ {w}) = Cardinality(Busy) - 1
  BY <1>3, BusyFinite, FS_RemoveElement
<1>5. Cardinality(Busy) # 0
  BY <1>3, BusyFinite, FS_EmptySet
<1> QED
  BY <1>2, <1>4, <1>5, BusyFinite DEF ActiveCounted

\* A worker that goes on with its page stays in it.
LEMMA BusyStays ==
  ASSUME PlainTypes, NEW w \in Workers, NEW to, pc' = [pc EXCEPT ![w] = to],
         pc[w] \in InFlight <=> to \in InFlight
  PROVE  Busy' = Busy
BY DEF Busy, PlainTypes

\* Nobody is busy when the count is zero.
LEMMA NobodyBusy ==
  ASSUME PlainTypes, ActiveCounted, NEW w \in Workers, pc[w] \in InFlight
  PROVE  activeWorkers # 0
<1>1. w \in Busy
  BY DEF Busy
<1> QED
  BY <1>1, BusyFinite, FS_EmptySet DEF ActiveCounted

-----------------------------------------------------------------------------
LEMMA InitInv == Init => IInv
<1> SUFFICES ASSUME Init PROVE IInv
  OBVIOUS
<1>1. PlainTypes
  BY CrawlAssumption DEF Init, PlainTypes
<1>2. Busy = {}
  BY DEF Init, Busy, InFlight
<1>3. ActiveCounted
  BY <1>2, FS_EmptySet DEF Init, ActiveCounted
<1>4. QueueHoldsRest
  BY DEF Init, QueueHoldsRest, InFlight
<1>5. Capped
  <2>1. Cardinality({Start}) = 1
    BY FS_Singleton
  <2> QED
    BY <2>1, CrawlAssumption DEF Init, Capped
<1>6. Tallied
  <2>1. Lost = {} /\ processed = {}
    BY DEF Init, Lost
  <2> QED
    BY <2>1, FS_EmptySet DEF Init, Tallied
<1>7. EndsAgree /\ Causes
  BY DEF Init, EndsAgree, Causes
<1> QED
  BY <1>1, <1>3, <1>4, <1>5, <1>6, <1>7 DEF IInv

LEMMA TypesStep == PlainTypes /\ Capped /\ [Next]_vars => PlainTypes'
<1> SUFFICES ASSUME PlainTypes, Capped, [Next]_vars PROVE PlainTypes'
  OBVIOUS
<1>1. CASE MainStep
  <2>1. CASE LoadSitemap
    <3>1. PICK listed \in {{}, Sitemap} : Admit(listed)
      BY <2>1 DEF LoadSitemap
    <3>2. listed \in SUBSET Urls
      BY CrawlAssumption
    <3>3. discovered' \subseteq Urls /\ queue' \subseteq Urls
      BY <3>1, <3>2, AdmitWithinCap DEF PlainTypes
    <3> QED
      BY <2>1, <3>3 DEF LoadSitemap, PlainTypes, rowVars
  <2>2. CASE Launch \/ LaunchFails \/ PrepareContext \/ ContextFails
             \/ PoolResolves \/ PoolRejects \/ WriteCompleted
    BY <2>2 DEF Launch, LaunchFails, PrepareContext, ContextFails, PoolResolves,
                PoolRejects, WriteCompleted, PlainTypes, poolVars, rowVars
  <2>3. CASE Summarise \/ CompletionFails \/ WriteFailed \/ WriteFailedFails \/ CloseBrowser
    BY <2>3 DEF Summarise, CompletionFails, WriteFailed, WriteFailedFails, CloseBrowser,
                PlainTypes, poolVars, rowVars
  <2> QED
    BY <1>1, <2>1, <2>2, <2>3 DEF MainStep
<1>2. CASE BrowserDies \/ DeadlinePasses \/ AllOver \/ UNCHANGED vars
  BY <1>2 DEF BrowserDies, DeadlinePasses, AllOver, vars, mainVars, poolVars, rowVars, PlainTypes
<1>3. ASSUME NEW w \in Workers, WorkerStep(w) PROVE PlainTypes'
  <2>1. CASE PageDone(w)
    <3>1. Links[url[w]] \in SUBSET Urls /\ FinalUrl[url[w]] \in Urls
      BY CrawlAssumption DEF PlainTypes
    <3>2. discovered' \subseteq Urls /\ queue' \subseteq Urls
      BY <2>1, <3>1, AdmitWithinCap DEF PageDone, PlainTypes
    <3>3. saved' \subseteq Urls /\ pagesCrawled' \in Nat
      BY <2>1, <3>1 DEF PageDone, PlainTypes
    <3> QED
      BY <2>1, <3>2, <3>3 DEF PageDone, PlainTypes, mainVars, rowVars
  <2>2. CASE Dispatch(w)
    BY <2>2 DEF Dispatch, PlainTypes, mainVars, rowVars, InFlight
  <2>3. CASE WorkerReturns(w) \/ WorkerTimesOut(w) \/ FetchPage(w) \/ PageHangs(w) \/ PageFails(w)
    BY <2>3 DEF WorkerReturns, WorkerTimesOut, FetchPage, PageHangs, PageFails,
                PlainTypes, mainVars, poolVars, rowVars, InFlight, Ended
  <2>4. CASE SavePage(w)
    BY <2>4 DEF SavePage, PlainTypes, mainVars, poolVars, InFlight
  <2>5. CASE BrowserLost(w)
    BY <2>5 DEF BrowserLost, Abort, PlainTypes, mainVars, rowVars, Ended
  <2>6. CASE FailureRecorded(w)
    BY <2>6 DEF FailureRecorded, PlainTypes, mainVars
  <2> QED
    BY <1>3, <2>1, <2>2, <2>3, <2>4, <2>5, <2>6 DEF WorkerStep
<1> QED
  BY <1>1, <1>2, <1>3 DEF Next

-----------------------------------------------------------------------------
(* The pool: counts, queue, cap and tally.                                  *)

LEMMA StillKeepsPool ==
  IInv /\ PoolStill => ActiveCounted' /\ QueueHoldsRest' /\ Capped' /\ Tallied'
<1> SUFFICES ASSUME IInv, PoolStill
             PROVE  ActiveCounted' /\ QueueHoldsRest' /\ Capped' /\ Tallied'
  OBVIOUS
<1>1. Busy' = Busy /\ Lost' = Lost
  BY DEF PoolStill, Busy, Lost, Held, poolVars, rowVars
<1> QED
  BY <1>1 DEF IInv, PoolStill, poolVars, rowVars, ActiveCounted, QueueHoldsRest, Capped, Tallied

\* The first dispatch of a page: it leaves the queue and is now held.
LEMMA DispatchKeepsPool ==
  ASSUME IInv, NEW w \in Workers, Dispatch(w)
  PROVE  ActiveCounted' /\ QueueHoldsRest' /\ Capped' /\ Tallied'
<1> USE DEF IInv
<1>1. PICK u \in queue : /\ queue' = queue \ {u} /\ processed' = processed \cup {u}
                         /\ url' = [url EXCEPT ![w] = u]
  BY DEF Dispatch
<1>2. /\ u \in Urls /\ u \notin processed /\ pc[w] = "loop"
      /\ pc' = [pc EXCEPT ![w] = "fetch"] /\ activeWorkers' = activeWorkers + 1
      /\ UNCHANGED <<discovered, pagesCrawled, pagesFailed, crawlFailed, pages>>
  BY <1>1 DEF Dispatch, QueueHoldsRest, PlainTypes, rowVars
<1>3. Busy' = Busy \cup {w} /\ w \notin Busy
  BY <1>2 DEF Busy, PlainTypes, InFlight
<1>4. ActiveCounted'
  BY <1>2, <1>3, BusyFinite, FS_AddElement DEF ActiveCounted
<1>5. Held' = Held \cup {u}
  BY <1>1, <1>3 DEF Held, PlainTypes, Busy
<1>6. Lost' = Lost
  BY <1>1, <1>2, <1>5 DEF Lost, QueueHoldsRest
<1>7. QueueHoldsRest'
  BY <1>1, <1>2 DEF QueueHoldsRest, PlainTypes
<1>8. Cardinality(processed') = Cardinality(processed) + 1
  BY <1>1, <1>2, BusyFinite, FS_AddElement
<1>9. Tallied'
  BY <1>2, <1>6, <1>8, BusyFinite DEF Tallied, ActiveCounted, PlainTypes
<1> QED
  BY <1>2, <1>4, <1>7, <1>9 DEF Capped

\* The stages of a page between its dispatch and its end
LEMMA StagesKeepPool ==
  ASSUME IInv, NEW w \in Workers,
         FetchPage(w) \/ SavePage(w) \/ PageHangs(w) \/ PageFails(w)
  PROVE  ActiveCounted' /\ QueueHoldsRest' /\ Capped' /\ Tallied'
<1> USE DEF IInv
<1>1. PICK to \in {"save", "audit", "hung", "evidence"} :
        /\ pc' = [pc EXCEPT ![w] = to] /\ pc[w] \in InFlight
        /\ to = "audit" => pages' = pages \cup {url[w]}
        /\ UNCHANGED <<poolVars, url>>
        /\ pages' \in {pages, pages \cup {url[w]}}
  BY DEF FetchPage, SavePage, PageHangs, PageFails, InFlight, rowVars
<1>2. Busy' = Busy /\ Held' = Held
  <2>1. Busy' = Busy
    BY <1>1, BusyStays DEF InFlight
  <2> QED
    BY <1>1, <2>1 DEF Held
<1>3. ActiveCounted'
  BY <1>1, <1>2 DEF ActiveCounted, poolVars
<1>4. QueueHoldsRest'
  BY <1>1 DEF QueueHoldsRest, PlainTypes, poolVars, InFlight
<1>5. Lost' = Lost
  <2>1. url[w] \in Held
    BY <1>1 DEF Held, Busy
  <2> QED
    BY <1>1, <1>2, <2>1 DEF Lost, poolVars
<1> QED
  BY <1>1, <1>3, <1>4, <1>5 DEF Capped, Tallied, poolVars

\* The end of a page: its links are admitted.
LEMMA PageDoneKeepsPool ==
  ASSUME IInv, NEW w \in Workers, PageDone(w)
  PROVE  ActiveCounted' /\ QueueHoldsRest' /\ Capped' /\ Tallied'
<1> USE DEF IInv
<1>1. /\ pc[w] = "audit" /\ pc' = [pc EXCEPT ![w] = "loop"]
      /\ activeWorkers' = activeWorkers - 1
      /\ UNCHANGED <<processed, pagesFailed, crawlFailed, url, pages>>
      /\ pagesCrawled' \in {pagesCrawled, pagesCrawled + 1}
      /\ pc[w] \in InFlight
  BY DEF PageDone, rowVars, InFlight
<1>2. ActiveCounted' /\ Busy' = Busy \ {w} /\ activeWorkers \in Nat \ {0}
  BY <1>1, BusyLeft
<1>3. Links[url[w]] \in SUBSET Urls
  BY CrawlAssumption DEF PlainTypes
<1>4. PICK new \in SUBSET (Urls \ (discovered \cup processed)) :
        /\ discovered' = discovered \cup new /\ queue' = queue \cup new
        /\ Cardinality(discovered') <= MaxPages
  BY <1>3, AdmitWithinCap DEF PageDone
<1>5. QueueHoldsRest'
  BY <1>1, <1>4 DEF QueueHoldsRest, PlainTypes, InFlight
<1>6. Lost' \in SUBSET Lost
  <2>1. Held \ {url[w]} \subseteq Held'
    BY <1>1, <1>2 DEF Held, Busy
  <2>2. url[w] \in pages
    BY <1>1 DEF QueueHoldsRest
  <2> QED
    BY <1>1, <2>1, <2>2 DEF Lost
<1>7. Cardinality(Lost') <= Cardinality(Lost) /\ Cardinality(Lost') \in Nat
  BY <1>6, BusyFinite, FS_Subset, FS_CardinalityType
<1>8. Tallied'
  BY <1>1, <1>2, <1>7, BusyFinite DEF Tallied, PlainTypes
<1> QED
  BY <1>2, <1>4, <1>5, <1>8 DEF Capped

\* A recorded failure: the page may be without a row, and is counted.
LEMMA FailureKeepsPool ==
  ASSUME IInv, NEW w \in Workers, FailureRecorded(w)
  PROVE  ActiveCounted' /\ QueueHoldsRest' /\ Capped' /\ Tallied'
<1> USE DEF IInv
<1>1. /\ pc[w] \in InFlight /\ pc' = [pc EXCEPT ![w] = "loop"]
      /\ activeWorkers' = activeWorkers - 1 /\ pagesFailed' = pagesFailed + 1
      /\ UNCHANGED <<queue, discovered, processed, pagesCrawled, crawlFailed, url, pages>>
  BY DEF FailureRecorded, InFlight
<1>2. ActiveCounted' /\ Busy' = Busy \ {w} /\ activeWorkers \in Nat \ {0}
  BY <1>1, BusyLeft
<1>3. QueueHoldsRest'
  BY <1>1 DEF QueueHoldsRest, PlainTypes, InFlight
<1>4. Lost' \in SUBSET (Lost \cup {url[w]})
  <2>1. Held \ {url[w]} \subseteq Held'
    BY <1>1, <1>2 DEF Held, Busy
  <2> QED
    BY <1>1, <2>1 DEF Lost
<1>5. Cardinality(Lost') <= Cardinality(Lost) + 1 /\ Cardinality(Lost') \in Nat
  <2> DEFINE x == url[w]
  <2>0. IsFiniteSet(Lost) /\ Cardinality(Lost) \in Nat
    BY BusyFinite
  <2> HIDE DEF x
  <2>1. /\ IsFiniteSet(Lost \cup {x})
        /\ Cardinality(Lost \cup {x}) <= Cardinality(Lost) + 1
    <3>1. /\ IsFiniteSet(Lost \cup {x})
          /\ Cardinality(Lost \cup {x}) =
               IF x \in Lost THEN Cardinality(Lost) ELSE Cardinality(Lost) + 1
      BY <2>0, FS_AddElement
    <3> QED
      BY <2>0, <3>1
  <2>2. /\ IsFiniteSet(Lost')
        /\ Cardinality(Lost') <= Cardinality(Lost \cup {x})
    BY <1>4, <2>1, FS_Subset DEF x
  <2>3. Cardinality(Lost') \in Nat /\ Cardinality(Lost \cup {x}) \in Nat
    BY <2>1, <2>2, FS_CardinalityType
  <2> QED
    BY <2>0, <2>1, <2>2, <2>3
<1>6. Tallied'
  BY <1>1, <1>2, <1>5, BusyFinite DEF Tallied, PlainTypes
<1> QED
  BY <1>1, <1>2, <1>3, <1>6 DEF Capped

\* A dead browser stops the pool.
LEMMA AbortKeepsPool ==
  ASSUME IInv, NEW w \in Workers, BrowserLost(w)
  PROVE  ActiveCounted' /\ QueueHoldsRest' /\ Capped' /\ Tallied'
<1> USE DEF IInv
<1>1. /\ pc[w] \in InFlight /\ pc' = [pc EXCEPT ![w] = "thrown"]
      /\ activeWorkers' = activeWorkers - 1
      /\ queue' = {} /\ crawlFailed'
      /\ UNCHANGED <<discovered, processed, pagesCrawled, pagesFailed, url, pages>>
  BY DEF BrowserLost, Abort, InFlight, rowVars
<1>2. ActiveCounted' /\ activeWorkers \in Nat \ {0}
  BY <1>1, BusyLeft DEF Ended
<1>3. QueueHoldsRest'
  BY <1>1 DEF QueueHoldsRest, PlainTypes, InFlight
<1>4. Tallied'
  BY <1>1, <1>2, BusyFinite DEF Tallied, PlainTypes
<1> QED
  BY <1>1, <1>2, <1>3, <1>4 DEF Capped

\* A worker that leaves the loop holds nothing.
LEMMA LeavingKeepsPool ==
  ASSUME IInv, NEW w \in Workers, WorkerReturns(w) \/ WorkerTimesOut(w)
  PROVE  ActiveCounted' /\ QueueHoldsRest' /\ Capped' /\ Tallied'
<1> USE DEF IInv
<1>1. PICK to \in Ended :
        /\ pc[w] = "loop" /\ pc' = [pc EXCEPT ![w] = to]
        /\ UNCHANGED <<poolVars, url, rowVars>>
  BY DEF WorkerReturns, WorkerTimesOut, Ended
<1>2. Busy' = Busy
  BY <1>1, BusyStays DEF InFlight, Ended
<1>3. Lost' = Lost /\ ActiveCounted'
  BY <1>1, <1>2 DEF Lost, Held, ActiveCounted, poolVars, rowVars
<1>4. QueueHoldsRest'
  BY <1>1 DEF QueueHoldsRest, PlainTypes, poolVars, rowVars, InFlight, Ended
<1> QED
  BY <1>1, <1>3, <1>4 DEF Capped, Tallied, poolVars

LEMMA SitemapKeepsPool ==
  ASSUME IInv, LoadSitemap
  PROVE  ActiveCounted' /\ QueueHoldsRest' /\ Capped' /\ Tallied'
<1> USE DEF IInv
<1>1. PICK listed \in {{}, Sitemap} : Admit(listed)
  BY DEF LoadSitemap
<1>2. listed \in SUBSET Urls
  BY CrawlAssumption
<1>3. PICK new \in SUBSET (Urls \ (discovered \cup processed)) :
        /\ discovered' = discovered \cup new /\ queue' = queue \cup new
        /\ Cardinality(discovered') <= MaxPages
  BY <1>1, <1>2, AdmitWithinCap
<1>4. /\ UNCHANGED <<processed, pagesCrawled, pagesFailed, activeWorkers, crawlFailed,
                     url, pages>>
      /\ \A w \in Workers : pc[w] = "idle" /\ pc'[w] = "loop"
  BY DEF LoadSitemap, rowVars, EndsAgree
<1>5. Busy' = Busy /\ Lost' = Lost
  <2>1. Busy = {} /\ Busy' = {}
    BY <1>4 DEF Busy, InFlight
  <2> QED
    BY <1>4, <2>1 DEF Lost, Held
<1>6. QueueHoldsRest'
  BY <1>3, <1>4 DEF QueueHoldsRest, PlainTypes, InFlight
<1> QED
  BY <1>3, <1>4, <1>5, <1>6 DEF ActiveCounted, Capped, Tallied

LEMMA PoolStep ==
  IInv /\ [Next]_vars => ActiveCounted' /\ QueueHoldsRest' /\ Capped' /\ Tallied'
<1> SUFFICES ASSUME IInv, [Next]_vars
             PROVE  ActiveCounted' /\ QueueHoldsRest' /\ Capped' /\ Tallied'
  OBVIOUS
<1>1. CASE MainStep
  <2>1. CASE LoadSitemap
    BY <2>1, SitemapKeepsPool
  <2>2. CASE ~LoadSitemap
    <3>1. PoolStill
      BY <1>1, <2>2 DEF MainStep, PoolStill, Launch, LaunchFails, PrepareContext,
           ContextFails, PoolResolves, PoolRejects, WriteCompleted, Summarise,
           CompletionFails, WriteFailed, WriteFailedFails, CloseBrowser
    <3> QED
      BY <3>1, StillKeepsPool
  <2> QED
    BY <2>1, <2>2
<1>2. CASE BrowserDies \/ DeadlinePasses \/ AllOver \/ UNCHANGED vars
  <2>1. PoolStill
    BY <1>2 DEF BrowserDies, DeadlinePasses, AllOver, vars, PoolStill
  <2> QED
    BY <2>1, StillKeepsPool
<1>3. ASSUME NEW w \in Workers, WorkerStep(w)
      PROVE  ActiveCounted' /\ QueueHoldsRest' /\ Capped' /\ Tallied'
  BY <1>3, DispatchKeepsPool, StagesKeepPool, PageDoneKeepsPool, FailureKeepsPool,
     AbortKeepsPool, LeavingKeepsPool DEF WorkerStep
<1> QED
  BY <1>1, <1>2, <1>3 DEF Next

-----------------------------------------------------------------------------
(* How the pool and the crawl end.                                          *)

\* When as many pages are crawled as the cap allows, nothing is left to do.
LEMMA CapExhausts ==
  ASSUME IInv, ~crawlFailed, pagesCrawled >= MaxPages
  PROVE  queue = {} /\ activeWorkers = 0
<1> USE DEF IInv
<1>1. /\ Cardinality(processed) <= Cardinality(discovered)
      /\ Cardinality(discovered) = Cardinality(processed) => discovered = processed
  BY BusyFinite, FS_Subset DEF QueueHoldsRest
<1>2. /\ Cardinality(processed) \in Nat /\ Cardinality(discovered) \in Nat
      /\ activeWorkers \in Nat /\ pagesCrawled \in Nat /\ pagesFailed \in Nat
      /\ MaxPages \in Nat
  BY BusyFinite, CrawlAssumption DEF ActiveCounted, PlainTypes
<1>3. activeWorkers = 0 /\ Cardinality(discovered) = Cardinality(processed)
  BY <1>1, <1>2 DEF Tallied, Capped
<1> QED
  BY <1>1, <1>3 DEF QueueHoldsRest

\* A worker with a page in hand: nobody has returned from a pool at work.
LEMMA BusyMeansOpen ==
  ASSUME IInv, NEW w \in Workers, pc[w] \in InFlight
  PROVE  /\ main \notin {"start", "launched", "prepared", "complete", "summary"}
         /\ status # "COMPLETED"
         /\ (\E v \in Workers : pc[v] = "returned") => crawlFailed
BY NobodyBusy DEF IInv, EndsAgree, InFlight

LEMMA WorkerKeepsEnds ==
  ASSUME IInv, NEW w \in Workers, WorkerStep(w)
  PROVE  EndsAgree'
<1> USE DEF IInv
<1>1. CASE WorkerReturns(w)
  <2>1. /\ pc[w] = "loop"
        /\ pc' = [pc EXCEPT ![w] = "returned"]
        /\ crawlFailed \/ pagesCrawled >= MaxPages \/ (queue = {} /\ activeWorkers = 0)
        /\ UNCHANGED <<main, status, crawlFailed, queue, activeWorkers>>
    BY <1>1 DEF WorkerReturns, Stopping, mainVars, poolVars
  <2>2. crawlFailed \/ (queue = {} /\ activeWorkers = 0)
    BY <2>1, CapExhausts
  <2> QED
    BY <2>1, <2>2 DEF EndsAgree, PlainTypes
<1>2. CASE WorkerTimesOut(w)
  <2>1. /\ pc[w] = "loop"
        /\ pc' = [pc EXCEPT ![w] = "thrown"]
        /\ UNCHANGED <<main, status, crawlFailed, queue, activeWorkers>>
    BY <1>2 DEF WorkerTimesOut, mainVars, poolVars
  <2> QED
    BY <2>1 DEF EndsAgree, PlainTypes
<1>3. CASE Dispatch(w)
  <2>1. /\ pc[w] = "loop"
        /\ pc' = [pc EXCEPT ![w] = "fetch"] /\ ~crawlFailed /\ queue # {}
        /\ UNCHANGED <<main, status, crawlFailed>>
    BY <1>3 DEF Dispatch, Stopping, mainVars
  <2> QED
    BY <2>1 DEF EndsAgree, PlainTypes
<1>4. CASE FetchPage(w) \/ SavePage(w) \/ PageHangs(w) \/ PageFails(w)
             \/ PageDone(w) \/ FailureRecorded(w)
  <2>1. PICK to \in {"save", "audit", "hung", "evidence", "loop"} :
          /\ pc[w] \in InFlight /\ pc' = [pc EXCEPT ![w] = to]
          /\ UNCHANGED <<main, status, crawlFailed>>
    BY <1>4 DEF FetchPage, SavePage, PageHangs, PageFails, PageDone, FailureRecorded,
                InFlight, mainVars, poolVars
  <2> QED
    BY <2>1, BusyMeansOpen DEF EndsAgree, PlainTypes, InFlight
<1>5. CASE BrowserLost(w)
  <2>1. /\ pc[w] \in InFlight /\ pc' = [pc EXCEPT ![w] = "thrown"]
        /\ crawlFailed' /\ UNCHANGED <<main, status>>
    BY <1>5 DEF BrowserLost, Abort, InFlight, mainVars
  <2> QED
    BY <2>1, BusyMeansOpen DEF EndsAgree, PlainTypes
<1> QED
  BY <1>1, <1>2, <1>3, <1>4, <1>5 DEF WorkerStep

LEMMA EndsStep == IInv /\ [Next]_vars => EndsAgree'
<1> SUFFICES ASSUME IInv, [Next]_vars PROVE EndsAgree'
  OBVIOUS
<1> USE DEF IInv
<1>1. CASE MainStep
  <2>1. CASE LoadSitemap
    BY <2>1 DEF LoadSitemap, EndsAgree, Causes
  <2>2. CASE ~LoadSitemap
    <3>1. UNCHANGED <<pc, queue, crawlFailed, activeWorkers>>
      BY <1>1, <2>2 DEF MainStep, poolVars, Launch, LaunchFails, PrepareContext,
           ContextFails, PoolResolves, PoolRejects, WriteCompleted, Summarise,
           CompletionFails, WriteFailed, WriteFailedFails, CloseBrowser
    <3>2. CASE Launch \/ LaunchFails \/ PrepareContext \/ ContextFails
               \/ PoolResolves \/ PoolRejects \/ WriteCompleted
      BY <3>1, <3>2 DEF EndsAgree, Causes, Launch, LaunchFails, PrepareContext,
           ContextFails, PoolResolves, PoolRejects, WriteCompleted
    <3>3. CASE Summarise \/ CompletionFails \/ WriteFailed \/ WriteFailedFails \/ CloseBrowser
      BY <3>1, <3>3 DEF EndsAgree, Summarise, CompletionFails, WriteFailed,
           WriteFailedFails, CloseBrowser
    <3> QED
      BY <1>1, <2>2, <3>2, <3>3 DEF MainStep
  <2> QED
    BY <2>1, <2>2
<1>2. CASE BrowserDies \/ DeadlinePasses \/ AllOver \/ UNCHANGED vars
  BY <1>2 DEF BrowserDies, DeadlinePasses, AllOver, vars, mainVars, poolVars, EndsAgree
<1>3. ASSUME NEW w \in Workers, WorkerStep(w) PROVE EndsAgree'
  BY <1>3, WorkerKeepsEnds
<1> QED
  BY <1>1, <1>2, <1>3 DEF Next

LEMMA CausesStep == IInv /\ [Next]_vars => Causes'
<1> SUFFICES ASSUME IInv, [Next]_vars PROVE Causes'
  OBVIOUS
<1> USE DEF IInv
<1>1. CASE MainStep
  <2>1. late' = late /\ (pc' = pc \/ LoadSitemap)
    BY <1>1 DEF MainStep, Launch, LaunchFails, PrepareContext, ContextFails, LoadSitemap,
         PoolResolves, PoolRejects, WriteCompleted, Summarise, CompletionFails, WriteFailed,
         WriteFailedFails, CloseBrowser
  <2>2. CASE Launch \/ LaunchFails \/ PrepareContext \/ ContextFails
    BY <2>1, <2>2 DEF Launch, LaunchFails, PrepareContext, ContextFails, LoadSitemap,
         Causes, EndsAgree
  <2>3. CASE LoadSitemap
    BY <2>1, <2>3 DEF LoadSitemap, Causes, EndsAgree
  <2>4. CASE PoolResolves \/ PoolRejects
    BY <2>1, <2>4 DEF LoadSitemap, PoolResolves, PoolRejects, Causes
  <2>5. CASE WriteCompleted \/ Summarise \/ CompletionFails
    BY <2>1, <2>5 DEF LoadSitemap, WriteCompleted, Summarise, CompletionFails, Causes
  <2>6. CASE WriteFailed \/ WriteFailedFails
    BY <2>1, <2>6 DEF LoadSitemap, WriteFailed, WriteFailedFails, Causes
  <2>7. CASE CloseBrowser
    BY <2>1, <2>7 DEF LoadSitemap, CloseBrowser, Causes, PlainTypes
  <2> QED
    BY <1>1, <2>2, <2>3, <2>4, <2>5, <2>6, <2>7 DEF MainStep
<1>2. CASE BrowserDies \/ DeadlinePasses \/ AllOver \/ UNCHANGED vars
  BY <1>2 DEF BrowserDies, DeadlinePasses, AllOver, vars, mainVars, Causes
<1>3. ASSUME NEW w \in Workers, WorkerStep(w) PROVE Causes'
  <2>1. UNCHANGED <<main, status, dbFault, browser, late>>
    BY <1>3 DEF WorkerStep, WorkerReturns, WorkerTimesOut, Dispatch, FetchPage, PageHangs,
         SavePage, PageFails, BrowserLost, PageDone, FailureRecorded, mainVars
  <2>2. pc[w] # "idle"
    BY <1>3 DEF WorkerStep, WorkerReturns, WorkerTimesOut, Dispatch, FetchPage, PageHangs,
         SavePage, PageFails, BrowserLost, PageDone, FailureRecorded
  <2>3. CASE WorkerTimesOut(w)
    BY <2>1, <2>2, <2>3 DEF WorkerTimesOut, Causes
  <2>4. CASE BrowserLost(w)
    BY <2>1, <2>2, <2>4 DEF BrowserLost, Causes
  <2>5. CASE ~WorkerTimesOut(w) /\ ~BrowserLost(w)
    <3>1. PICK to \in {"loop", "returned"} \cup InFlight : pc' = [pc EXCEPT ![w] = to]
      BY <1>3, <2>5 DEF WorkerStep, WorkerReturns, Dispatch, FetchPage, PageHangs,
           SavePage, PageFails, PageDone, FailureRecorded, InFlight
    <3>2. (\E v \in Workers : pc'[v] = "thrown") => \E v \in Workers : pc[v] = "thrown"
      BY <3>1 DEF PlainTypes, InFlight
    <3> QED
      BY <2>1, <2>2, <3>2 DEF Causes
  <2> QED
    BY <2>3, <2>4, <2>5
<1> QED
  BY <1>1, <1>2, <1>3 DEF Next

-----------------------------------------------------------------------------
(* The theorems.                                                            *)

LEMMA StepInv == IInv /\ [Next]_vars => IInv'
BY TypesStep, PoolStep, EndsStep, CausesStep DEF IInv

LEMMA CrawlInv == Spec => []IInv
BY InitInv, StepInv, PTL DEF Spec

LEMMA InvTypes == IInv => TypeOK
<1> SUFFICES ASSUME IInv PROVE TypeOK
  OBVIOUS
<1>1. activeWorkers \in 0..Cardinality(Workers)
  BY BusyFinite DEF IInv, ActiveCounted
<1> QED
  BY <1>1 DEF IInv, PlainTypes, TypeOK

LEMMA InvCap == IInv => CapRespected
<1> SUFFICES ASSUME IInv PROVE CapRespected
  OBVIOUS
<1>1. pages \in SUBSET discovered
  BY DEF IInv, QueueHoldsRest
<1>2. IsFiniteSet(discovered) /\ Cardinality(discovered) \in Nat
  BY BusyFinite DEF IInv
<1>3. Cardinality(pages) <= Cardinality(discovered) /\ Cardinality(pages) \in Nat
  BY <1>1, <1>2, FS_Subset, FS_CardinalityType
<1> QED
  BY <1>2, <1>3, CrawlAssumption DEF IInv, Capped, CapRespected

\* All have returned, so nobody threw, and nothing is left.
LEMMA AllReturnedMeansDone ==
  ASSUME IInv, \A w \in Workers : pc[w] = "returned"
  PROVE  ~crawlFailed /\ queue = {} /\ processed = discovered /\ Busy = {}
<1>1. ~crawlFailed
  BY DEF IInv, EndsAgree
<1>2. queue = {}
  BY <1>1, CrawlAssumption DEF IInv, EndsAgree
<1> QED
  BY <1>1, <1>2 DEF IInv, QueueHoldsRest, Busy, InFlight

LEMMA InvExhausted == IInv => CompletedIsExhausted
<1> SUFFICES ASSUME IInv, status = "COMPLETED"
             PROVE  /\ queue = {} /\ processed = discovered
                    /\ \A w \in Workers : pc[w] = "returned"
  BY DEF CompletedIsExhausted
<1>1. \A w \in Workers : pc[w] = "returned"
  BY DEF IInv, EndsAgree
<1> QED
  BY <1>1, AllReturnedMeansDone

LEMMA InvAddsUp == IInv => AnswerAddsUp
<1> SUFFICES ASSUME IInv, status = "COMPLETED"
             PROVE  /\ Cardinality(discovered \ pages) <= pagesFailed
                    /\ pagesCrawled + pagesFailed <= Cardinality(discovered)
  BY DEF AnswerAddsUp
<1>1. ~crawlFailed /\ processed = discovered /\ Busy = {}
  BY AllReturnedMeansDone DEF IInv, EndsAgree
<1>2. Lost = discovered \ pages
  BY <1>1 DEF Lost, Held
<1>3. activeWorkers = 0
  BY <1>1, FS_EmptySet DEF IInv, ActiveCounted
<1> QED
  BY <1>1, <1>2, <1>3 DEF IInv, Tallied, PlainTypes

\* Rows are written by busy workers only, and a completed crawl has none.
LEMMA StepFrozen ==
  IInv /\ [Next]_vars => (status = "COMPLETED" => UNCHANGED rowVars)
<1> SUFFICES ASSUME IInv, [Next]_vars, status = "COMPLETED" PROVE UNCHANGED rowVars
  OBVIOUS
<1>1. \A w \in Workers : pc[w] = "returned"
  BY DEF IInv, EndsAgree
<1>2. CASE \E w \in Workers : SavePage(w) \/ FailureRecorded(w)
  BY <1>1, <1>2 DEF SavePage, FailureRecorded
<1>3. CASE ~\E w \in Workers : SavePage(w) \/ FailureRecorded(w)
  BY <1>3 DEF Next, MainStep, WorkerStep, Launch, LaunchFails, PrepareContext, ContextFails,
       LoadSitemap, PoolResolves, PoolRejects, WriteCompleted, Summarise,
       CompletionFails, WriteFailed, WriteFailedFails, CloseBrowser, BrowserDies, DeadlinePasses, AllOver,
       WorkerReturns, WorkerTimesOut, Dispatch, FetchPage, PageHangs, PageFails,
       BrowserLost, PageDone, vars
<1> QED
  BY <1>2, <1>3

\* The types hold; in particular the code's count of active workers never leaves
\* 0..PAGE_CONCURRENCY, whichever way a page ends.
THEOREM TypeCorrectCrawl == Spec => []TypeOK
BY CrawlInv, InvTypes, PTL

\* No interleaving of the workers fetches or saves more than MaxPages pages.
THEOREM CapIsRespected == Spec => []CapRespected
BY CrawlInv, InvCap, PTL

\* A crawl that says COMPLETED has dispatched all it discovered.
THEOREM CompletedMeansExhausted == Spec => []CompletedIsExhausted
BY CrawlInv, InvExhausted, PTL

\* Only the browser, the deadline or the crawl's own row make a crawl FAILED.
THEOREM FailureNeedsCause == Spec => []FailureHasCause
<1>1. IInv => FailureHasCause
  BY DEF IInv, Causes, FailureHasCause
<1> QED
  BY <1>1, CrawlInv, PTL

\* The numbers of the answer cover the discovered pages, and none twice.
THEOREM NumbersAddUp == Spec => []AnswerAddsUp
BY CrawlInv, InvAddsUp, PTL

\* The pages of a completed crawl do not change any more.
THEOREM CompletedStaysFrozen == Spec => CompletedIsFrozen
BY CrawlInv, StepFrozen, PTL DEF Spec, CompletedIsFrozen
=============================================================================
