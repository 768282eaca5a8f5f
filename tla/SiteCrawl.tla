------------------------------ MODULE SiteCrawl ------------------------------
(***************************************************************************)
(* crawlWebsite of backend/src/crawl/crawl.service.ts: one crawl of one      *)
(* website by a pool of workers over a shared queue, in one browser.         *)
(*                                                                          *)
(* One action is the code between two awaits of the main promise or of one   *)
(* worker.  The queue is a set: the properties do not depend on the order of *)
(* dispatch, and every order includes the code's FIFO.  URLs are normalised, *)
(* of the website's host and not of a binary file: the others never get into *)
(* the queue.                                                               *)
(***************************************************************************)
EXTENDS Integers, FiniteSets

CONSTANTS
  Workers,   \* the PAGE_CONCURRENCY workers
  Urls,      \* normalised page URLs of the site
  Start,     \* the website's own URL
  Sitemap,   \* URLs listed by robots.txt and sitemap.xml
  Links,     \* the internal links of the page behind each URL
  FinalUrl,  \* where each URL ends after its redirects
  MaxPages,  \* CRAWL_MAX_PAGES, 1..200
  MaxHangs   \* pages whose script never lets page.content() return

ASSUME CrawlAssumption ==
  /\ IsFiniteSet(Workers) /\ Workers # {}
  /\ IsFiniteSet(Urls)
  /\ Start \in Urls /\ Sitemap \subseteq Urls
  /\ Links \in [Urls -> SUBSET Urls]
  /\ FinalUrl \in [Urls -> Urls]
  /\ MaxPages \in Nat \ {0} /\ MaxHangs \in Nat

VARIABLES
  main,       \* where crawlWebsite itself is
  status,     \* Crawl.status
  browser,    \* none (not launched), up, died, closed
  late,       \* Date.now() - crawlStartedAt > MAX_CRAWL_TIME_MS
  queue, discovered, processed, saved, \* URLs; saved holds final URLs
  pagesCrawled, pagesFailed,
  activeWorkers, crawlFailed,
  pc, url,    \* each worker, idle until the pool starts, and the URL it is at
  pages,      \* URLs whose CrawlPage row was written
  failures,   \* URLs with a PAGE_FETCH_FAILED row
  hangs, dbFault

mainVars == <<main, status, dbFault>>
poolVars == <<queue, discovered, processed, saved, pagesCrawled, pagesFailed,
              activeWorkers, crawlFailed>>
rowVars == <<pages, failures>>
vars == <<mainVars, browser, late, poolVars, pc, url, rowVars, hangs>>

InFlight == {"fetch", "hung", "save", "audit", "evidence"}
Ended == {"returned", "thrown"}

Init ==
  /\ main = "start" /\ status = "RUNNING"
  /\ browser = "none" /\ late = FALSE
  /\ queue = {Start} /\ discovered = {Start}
  /\ processed = {} /\ saved = {}
  /\ pagesCrawled = 0 /\ pagesFailed = 0
  /\ activeWorkers = 0 /\ crawlFailed = FALSE
  /\ pc = [w \in Workers |-> "idle"]
  /\ url = [w \in Workers |-> Start]
  /\ pages = {} /\ failures = {}
  /\ hangs = 0 /\ dbFault = FALSE

-----------------------------------------------------------------------------
(* Discovery.                                                               *)

\* Fault: the cap is checked once per page, not before every link.
AdmitUncapped(links) ==
  LET fresh == links \ (discovered \union processed) IN
  IF Cardinality(discovered) >= MaxPages
  THEN UNCHANGED <<discovered, queue>>
  ELSE discovered' = discovered \union fresh /\ queue' = queue \union fresh

\* As many of the new links as the cap on discovered still allows.
Admit(links) ==
  LET fresh == links \ (discovered \union processed)
      room == MaxPages - Cardinality(discovered)
  IN \E new \in SUBSET fresh :
       /\ \/ new = fresh /\ Cardinality(new) <= room
          \/ Cardinality(new) = room /\ room < Cardinality(fresh)
       /\ discovered' = discovered \union new
       /\ queue' = queue \union new

Launch ==
  /\ main = "start"
  /\ main' = "launched" /\ browser' = "up"
  /\ UNCHANGED <<status, dbFault, late, poolVars, pc, url, rowVars, hangs>>

LaunchFails ==
  /\ main = "start"
  /\ main' = "failing"
  /\ UNCHANGED <<status, dbFault, browser, late, poolVars, pc, url, rowVars, hangs>>

\* The browser's context and its resource blocking
PrepareContext ==
  /\ main = "launched" /\ browser = "up"
  /\ main' = "prepared"
  /\ UNCHANGED <<status, dbFault, browser, late, poolVars, pc, url, rowVars, hangs>>

\* newContext or route throws, in a live browser or in one that has died.
ContextFails ==
  /\ main = "launched"
  /\ main' = "failing"
  /\ UNCHANGED <<status, dbFault, browser, late, poolVars, pc, url, rowVars, hangs>>

\* A robots.txt or a sitemap that cannot be read lists nothing.  The workers start.
LoadSitemap ==
  /\ main = "prepared"
  /\ main' = "crawling"
  /\ \E listed \in {{}, Sitemap} : Admit(listed)
  /\ pc' = [w \in Workers |-> "loop"]
  /\ UNCHANGED <<status, dbFault, browser, late, processed, saved, pagesCrawled,
                 pagesFailed, activeWorkers, crawlFailed, url, rowVars, hangs>>

-----------------------------------------------------------------------------
(* The worker loop.  A worker that finds the queue empty while a sibling is *)
(* active waits 25 ms and looks again: a stuttering step.                   *)

Stopping == crawlFailed \/ pagesCrawled >= MaxPages

WorkerReturns(w) ==
  /\ pc[w] = "loop"
  /\ \/ Stopping
     \/ ~late /\ queue = {} /\ activeWorkers = 0
  /\ pc' = [pc EXCEPT ![w] = "returned"]
  /\ UNCHANGED <<mainVars, browser, late, poolVars, url, rowVars, hangs>>

\* Fault: the deadline is looked at only with a URL in hand.
WorkerTimesOutBusy(w) ==
  /\ pc[w] = "loop" /\ ~Stopping /\ late /\ queue # {}
  /\ pc' = [pc EXCEPT ![w] = "thrown"]
  /\ UNCHANGED <<mainVars, browser, late, poolVars, url, rowVars, hangs>>

\* The deadline's throw is outside the try block: crawlFailed stays as it is.
WorkerTimesOut(w) ==
  /\ pc[w] = "loop" /\ ~Stopping /\ late
  /\ pc' = [pc EXCEPT ![w] = "thrown"]
  /\ UNCHANGED <<mainVars, browser, late, poolVars, url, rowVars, hangs>>

Dispatch(w) ==
  /\ pc[w] = "loop" /\ ~Stopping /\ ~late
  /\ \E u \in queue :
       /\ queue' = queue \ {u}
       /\ processed' = processed \union {u}
       /\ url' = [url EXCEPT ![w] = u]
  /\ activeWorkers' = activeWorkers + 1
  /\ pc' = [pc EXCEPT ![w] = "fetch"]
  /\ UNCHANGED <<mainVars, browser, late, discovered, saved, pagesCrawled,
                 pagesFailed, crawlFailed, rowVars, hangs>>

\* newPage, goto and content(): the rest of the page's work needs no browser.
FetchPage(w) ==
  /\ pc[w] = "fetch" /\ browser = "up"
  /\ pc' = [pc EXCEPT ![w] = "save"]
  /\ UNCHANGED <<mainVars, browser, late, poolVars, url, rowVars, hangs>>

\* The CrawlPage row; its audit and its link edges are under way.
SavePage(w) ==
  /\ pc[w] = "save"
  /\ pages' = pages \union {url[w]}
  /\ pc' = [pc EXCEPT ![w] = "audit"]
  /\ UNCHANGED <<mainVars, browser, late, poolVars, url, failures, hangs>>

\* page.content() has no timeout of its own: it waits for the page's script,
\* or for the browser to go away.
PageHangs(w) ==
  /\ hangs < MaxHangs
  /\ pc[w] = "fetch" /\ browser = "up"
  /\ hangs' = hangs + 1
  /\ pc' = [pc EXCEPT ![w] = "hung"]
  /\ UNCHANGED <<mainVars, browser, late, poolVars, url, rowVars>>

\* A dead browser stops the pool.
Abort(w) ==
  /\ crawlFailed' = TRUE
  /\ queue' = {}
  /\ activeWorkers' = activeWorkers - 1
  /\ pc' = [pc EXCEPT ![w] = "thrown"]
  /\ UNCHANGED <<discovered, processed, saved, pagesCrawled, pagesFailed>>

\* Fault: every error is taken for a dead browser.
PageFailsAlways(w) ==
  /\ pc[w] \in {"fetch", "save", "audit"}
  /\ Abort(w)
  /\ UNCHANGED <<mainVars, browser, late, url, rowVars, hangs>>

\* An error of the page, of its row or of its audit, with the browser alive.
PageFails(w) ==
  /\ pc[w] \in {"fetch", "save", "audit"} /\ browser = "up"
  /\ pc' = [pc EXCEPT ![w] = "evidence"]
  /\ UNCHANGED <<mainVars, browser, late, poolVars, url, rowVars, hangs>>

\* The same with the browser gone; a hung page is released by it.
BrowserLost(w) ==
  /\ pc[w] \in {"fetch", "hung", "save", "audit"} /\ browser # "up"
  /\ Abort(w)
  /\ UNCHANGED <<mainVars, browser, late, url, rowVars, hangs>>

PageDone(w) ==
  /\ pc[w] = "audit"
  /\ saved' = saved \union {FinalUrl[url[w]]}
  /\ pagesCrawled' = IF FinalUrl[url[w]] \in saved THEN pagesCrawled
                                                  ELSE pagesCrawled + 1
  /\ Admit(Links[url[w]])
  /\ activeWorkers' = activeWorkers - 1
  /\ pc' = [pc EXCEPT ![w] = "loop"]
  /\ UNCHANGED <<mainVars, browser, late, processed, pagesFailed, crawlFailed,
                 url, rowVars, hangs>>

\* Faults: a worker gives up after a failed page; it leaves the count of active
\* workers twice, or not at all; it forgets to count the failure.
FailureRecordedReturning(w) ==
  /\ pc[w] = "evidence"
  /\ failures' = failures \union {url[w]}
  /\ pagesFailed' = pagesFailed + 1
  /\ activeWorkers' = activeWorkers - 1
  /\ pc' = [pc EXCEPT ![w] = "returned"]
  /\ UNCHANGED <<mainVars, browser, late, queue, discovered, processed, saved,
                 pagesCrawled, crawlFailed, url, pages, hangs>>

FailureRecordedLeavingTwice(w) ==
  /\ pc[w] = "evidence"
  /\ failures' = failures \union {url[w]}
  /\ pagesFailed' = pagesFailed + 1
  /\ activeWorkers' = activeWorkers - 2
  /\ pc' = [pc EXCEPT ![w] = "loop"]
  /\ UNCHANGED <<mainVars, browser, late, queue, discovered, processed, saved,
                 pagesCrawled, crawlFailed, url, pages, hangs>>

FailureRecordedLeaking(w) ==
  /\ pc[w] = "evidence"
  /\ failures' = failures \union {url[w]}
  /\ pagesFailed' = pagesFailed + 1
  /\ pc' = [pc EXCEPT ![w] = "loop"]
  /\ UNCHANGED <<mainVars, browser, late, queue, discovered, processed, saved,
                 pagesCrawled, activeWorkers, crawlFailed, url, pages, hangs>>

FailureRecordedUncounted(w) ==
  /\ pc[w] = "evidence"
  /\ failures' = failures \union {url[w]}
  /\ activeWorkers' = activeWorkers - 1
  /\ pc' = [pc EXCEPT ![w] = "loop"]
  /\ UNCHANGED <<mainVars, browser, late, queue, discovered, processed, saved,
                 pagesCrawled, pagesFailed, crawlFailed, url, pages, hangs>>

\* The evidence of a failed page, whose own errors are swallowed.
FailureRecorded(w) ==
  /\ pc[w] = "evidence"
  /\ failures' \in {failures, failures \union {url[w]}}
  /\ pagesFailed' = pagesFailed + 1
  /\ activeWorkers' = activeWorkers - 1
  /\ pc' = [pc EXCEPT ![w] = "loop"]
  /\ UNCHANGED <<mainVars, browser, late, queue, discovered, processed, saved,
                 pagesCrawled, crawlFailed, url, pages, hangs>>

-----------------------------------------------------------------------------
(* The rest of crawlWebsite.                                                *)

\* Fault: the pool is not awaited, only the queue is seen to be empty.
PoolNotAwaited ==
  /\ main = "crawling"
  /\ queue = {}
  /\ main' = "complete"
  /\ UNCHANGED <<status, dbFault, browser, late, poolVars, pc, url, rowVars, hangs>>

PoolResolves ==
  /\ main = "crawling"
  /\ \A w \in Workers : pc[w] = "returned"
  /\ main' = "complete"
  /\ UNCHANGED <<status, dbFault, browser, late, poolVars, pc, url, rowVars, hangs>>

\* Promise.all rejects with the first worker; the others go on by themselves.
PoolRejects ==
  /\ main = "crawling"
  /\ \E w \in Workers : pc[w] = "thrown"
  /\ main' = "failing"
  /\ UNCHANGED <<status, dbFault, browser, late, poolVars, pc, url, rowVars, hangs>>

WriteCompleted ==
  /\ main = "complete"
  /\ main' = "summary" /\ status' = "COMPLETED"
  /\ UNCHANGED <<dbFault, browser, late, poolVars, pc, url, rowVars, hangs>>

Summarise ==
  /\ main = "summary"
  /\ main' = "closing"
  /\ UNCHANGED <<status, dbFault, browser, late, poolVars, pc, url, rowVars, hangs>>

\* The COMPLETED update or the summary throws: the catch block follows.
CompletionFails ==
  /\ main \in {"complete", "summary"}
  /\ main' = "failing" /\ dbFault' = TRUE
  /\ UNCHANGED <<status, browser, late, poolVars, pc, url, rowVars, hangs>>

WriteFailed ==
  /\ main = "failing"
  /\ main' = "closing" /\ status' = "FAILED"
  /\ UNCHANGED <<dbFault, browser, late, poolVars, pc, url, rowVars, hangs>>

\* The FAILED update throws: only the finally block is left.
WriteFailedFails ==
  /\ main = "failing"
  /\ main' = "closing" /\ dbFault' = TRUE
  /\ UNCHANGED <<status, browser, late, poolVars, pc, url, rowVars, hangs>>

CloseBrowser ==
  /\ main = "closing"
  /\ main' = "done"
  /\ browser' = IF browser = "up" THEN "closed" ELSE browser
  /\ UNCHANGED <<status, dbFault, late, poolVars, pc, url, rowVars, hangs>>

BrowserDies ==
  /\ browser = "up"
  /\ browser' = "died"
  /\ UNCHANGED <<mainVars, late, poolVars, pc, url, rowVars, hangs>>

DeadlinePasses ==
  /\ main = "crawling" /\ ~late
  /\ late' = TRUE
  /\ UNCHANGED <<mainVars, browser, poolVars, pc, url, rowVars, hangs>>

AllOver ==
  /\ main = "done" /\ \A w \in Workers : pc[w] \in Ended \cup {"idle"}
  /\ UNCHANGED vars

-----------------------------------------------------------------------------
WorkerStep(w) ==
  \/ WorkerReturns(w) \/ WorkerTimesOut(w) \/ Dispatch(w)
  \/ FetchPage(w) \/ PageHangs(w) \/ SavePage(w) \/ PageFails(w)
  \/ BrowserLost(w) \/ PageDone(w) \/ FailureRecorded(w)

MainStep ==
  \/ Launch \/ LaunchFails \/ PrepareContext \/ ContextFails \/ LoadSitemap
  \/ PoolResolves \/ PoolRejects
  \/ WriteCompleted \/ Summarise \/ CompletionFails
  \/ WriteFailed \/ WriteFailedFails \/ CloseBrowser

Next ==
  \/ MainStep \/ BrowserDies \/ DeadlinePasses \/ AllOver
  \/ \E w \in Workers : WorkerStep(w)

Spec == Init /\ [][Next]_vars

\* The event loop runs every promise that can go on.  That the deadline passes,
\* or the browser dies, is never assumed.
FairSpec == Spec /\ WF_vars(MainStep) /\ \A w \in Workers : WF_vars(WorkerStep(w))

-----------------------------------------------------------------------------
(* Properties that hold.                                                    *)

TypeOK ==
  /\ main \in {"start", "launched", "prepared", "crawling", "complete",
               "summary", "failing", "closing", "done"}
  /\ status \in {"RUNNING", "COMPLETED", "FAILED"}
  /\ browser \in {"none", "up", "died", "closed"}
  /\ late \in BOOLEAN /\ crawlFailed \in BOOLEAN /\ dbFault \in BOOLEAN
  /\ queue \subseteq Urls /\ discovered \subseteq Urls
  /\ processed \subseteq Urls /\ saved \subseteq Urls
  /\ pages \subseteq Urls /\ failures \subseteq Urls
  /\ pagesCrawled \in Nat /\ pagesFailed \in Nat /\ hangs \in Nat
  /\ activeWorkers \in 0..Cardinality(Workers)
  /\ pc \in [Workers -> {"idle", "loop"} \union InFlight \union Ended]
  /\ url \in [Workers -> Urls]

\* Whatever the workers discover concurrently, no more than MaxPages pages are
\* ever fetched and saved (MAX_PAGES, enqueueInternalLinks).
CapRespected == Cardinality(pages) <= MaxPages

\* A crawl is reported COMPLETED only when every discovered URL was dispatched
\* and no worker still has one: the early exits of the workers, the cap and the
\* failed pages leave nothing behind (the worker loop, Promise.all).
CompletedIsExhausted ==
  status = "COMPLETED" =>
    /\ queue = {} /\ processed = discovered
    /\ \A w \in Workers : pc[w] = "returned"

\* "Only a dead browser or the absolute crawl timeout fails the run": a page
\* that cannot be fetched, saved, audited or even recorded never does.  (A
\* browser that gives no context to start the workers in and a database that
\* refuses the crawl's own row fail it too.)
FailureHasCause ==
  status = "FAILED" =>
    browser = "died" \/ late \/ dbFault \/ \A w \in Workers : pc[w] = "idle"

\* The numbers in the answer add up: every discovered URL has a row or is
\* counted as failed, and none is counted twice.
AnswerAddsUp ==
  main = "done" /\ status = "COMPLETED" =>
    /\ Cardinality(discovered \ pages) <= pagesFailed
    /\ pagesCrawled + pagesFailed <= Cardinality(discovered)

\* Consumers read COMPLETED crawls only: their pages do not change any more.
CompletedIsFrozen ==
  [][status = "COMPLETED" => UNCHANGED rowVars]_vars

\* With no hanging page and before the deadline the pool drains by itself: no
\* worker waits for siblings that are not there.
PoolDrains == <>(status # "RUNNING" \/ late \/ hangs > 0 \/ dbFault)

\* "Prevents a pathological site (or a stalled worker pool) from leaving the
\* crawl row in RUNNING forever": after the deadline the row is closed.
DeadlineEnds == late ~> (status # "RUNNING" \/ dbFault)
=============================================================================
