---------------------------- MODULE WebsiteAlerts ----------------------------
(***************************************************************************)
(* Technical SEO alerts of one website                                       *)
(* (backend/src/monitoring/monitoring.service.ts): createAlert,              *)
(* detectTechnicalSeoAlerts and detectForCrawl, which a finished crawl calls *)
(* without waiting for it, and acknowledgeAlert, resolveAlert and            *)
(* dismissAlert of the users.                                                *)
(*                                                                          *)
(* One action is one round trip to the database.  The table has one unique   *)
(* key, on the deduplication key together with the active flag: at most one  *)
(* active and one inactive row per key.                                      *)
(***************************************************************************)
EXTENDS Integers, Sequences, FiniteSets

CONSTANTS
  Codes,       \* issue codes; a code is its alert's deduplication key
  Sites,       \* what a crawl may find: sequences of pages, a page being its
               \* sequence of OPEN issues
  Detectors,   \* detections that may be under way together
  Users,
  MaxCrawls, MaxAlerts, MaxDetections, MaxClicks, \* bounds
  Nobody       \* no row

Severities == {"CRITICAL", "HIGH", "MEDIUM", "LOW"}
Issues == [code : Codes, severity : Severities]

ASSUME AlertsAssumption ==
  /\ Sites \subseteq Seq(Seq(Issues))
  /\ {MaxCrawls, MaxAlerts, MaxDetections, MaxClicks} \subseteq Nat
  /\ Nobody \notin Nat

VARIABLES
  crawls,     \* the pages of each COMPLETED crawl, in order of completion
  alerts,     \* MonitoringAlert rows by creation
  detection,  \* each detection under way
  click,      \* what each user's request has read
  begun,      \* detections begun so far
  clicks,     \* user requests begun so far
  closed      \* history: codes whose alert a user closed, by detection

alertVars == <<crawls, alerts, detection, click, begun, clicks, closed>>

Resting == [step |-> "rest", crawl |-> 0, codes |-> {}, code |-> Nobody,
            row |-> Nobody, stale |-> {}, alone |-> FALSE]
NoClick == [row |-> Nobody, status |-> "DETECTED"]

InitAlerts ==
  /\ crawls = <<>> /\ alerts = <<>>
  /\ detection = [d \in Detectors |-> Resting]
  /\ click = [u \in Users |-> NoClick]
  /\ begun = 0 /\ clicks = 0
  /\ closed = [d \in Detectors |-> {}]

-----------------------------------------------------------------------------
(* What a crawl says                                                        *)

\* Issues of a code, as pairs of page and place: an issue counts its page again.
Places(pages, code) ==
  UNION {{<<p, i>> : i \in {j \in DOMAIN pages[p] : pages[p][j].code = code}}
         : p \in DOMAIN pages}

\* highImpactGroups: a severe issue, or one that affects half of the pages.
HighImpact(pages) ==
  {code \in Codes :
     /\ Places(pages, code) # {}
     /\ \/ \E at \in Places(pages, code) :
             pages[at[1]][at[2]].severity \in {"CRITICAL", "HIGH"}
        \/ 2 * Cardinality(Places(pages, code)) >= Len(pages)}

-----------------------------------------------------------------------------
(* The table                                                                *)

Rows(code, active) == {a \in DOMAIN alerts : alerts[a].code = code
                                             /\ alerts[a].active = active}
ActiveRows == {a \in DOMAIN alerts : alerts[a].active}

\* Whether the unique key lets the rows become inactive, in one statement.
MayClose(rows) ==
  \A a \in rows : alerts[a].active =>
    /\ Rows(alerts[a].code, FALSE) = {}
    /\ \A b \in rows \ {a} : ~(alerts[b].active /\ alerts[b].code = alerts[a].code)

\* The codes that a user's closing takes out of a detection's hands
NoteClosed(code) ==
  closed' = [d \in Detectors |-> IF detection[d].step = "rest" THEN {}
                                 ELSE closed[d] \cup {code}]

-----------------------------------------------------------------------------
(* Crawls and detections                                                    *)

CompleteCrawl(pages) ==
  /\ Len(crawls) < MaxCrawls
  /\ crawls' = Append(crawls, pages)
  /\ UNCHANGED <<alerts, detection, click, begun, clicks, closed>>

\* The detection reads a completed crawl, the one that called it or the one
\* asked for; a crawl without pages changes nothing.  alone is a history: no
\* other detection has been under way since.
Detect(d, c) ==
  /\ detection[d].step \in {"rest", "done", "failed"} /\ begun < MaxDetections
  /\ c \in DOMAIN crawls /\ crawls[c] # <<>>
  /\ LET quiet == \A e \in Detectors \ {d} :
                    detection[e].step \in {"rest", "done", "failed"}
     IN detection' = [e \in Detectors |->
          IF e = d
          THEN [Resting EXCEPT !.step = "raise", !.crawl = c, !.alone = quiet,
                               !.codes = HighImpact(crawls[c])]
          ELSE IF detection[e].step \in {"done", "failed"} THEN Resting
          ELSE [detection[e] EXCEPT !.alone = FALSE]]
  /\ begun' = begun + 1
  /\ closed' = [e \in Detectors |-> IF e = d THEN {} ELSE closed[e]]
  /\ UNCHANGED <<crawls, alerts, click, clicks>>

Fail(d) == detection' = [detection EXCEPT ![d].step = "failed"]

\* createAlert looks for the active row of the next group.
LookForAlert(d, code) ==
  /\ detection[d].step = "raise" /\ code \in detection[d].codes
  /\ detection' = [detection EXCEPT ![d] =
       [@ EXCEPT !.step = "write", !.code = code,
                 !.codes = detection[d].codes \ {code},
                 !.row = IF Rows(code, TRUE) = {} THEN Nobody
                         ELSE CHOOSE a \in Rows(code, TRUE) : TRUE]]
  /\ UNCHANGED <<crawls, alerts, click, begun, clicks, closed>>

\* Fault: an alert that was closed in between is opened again.
RefreshedAndOpen(a, c) ==
  [alerts EXCEPT ![a] = [@ EXCEPT !.crawl = c, !.active = TRUE]]
\* The update of an existing alert: its texts and evidence, not its status.
Refreshed(a, c) == [alerts EXCEPT ![a].crawl = c]

UpdateAlert(d) ==
  /\ detection[d].step = "write" /\ detection[d].row # Nobody
  /\ alerts' = Refreshed(detection[d].row, detection[d].crawl)
  /\ detection' = [detection EXCEPT ![d].step = "raise"]
  /\ UNCHANGED <<crawls, click, begun, clicks, closed>>

InsertAlert(d) ==
  /\ detection[d].step = "write" /\ detection[d].row = Nobody
  /\ Rows(detection[d].code, TRUE) = {} /\ Len(alerts) < MaxAlerts
  /\ alerts' = Append(alerts, [code |-> detection[d].code, status |-> "DETECTED",
                               active |-> TRUE, crawl |-> detection[d].crawl])
  /\ detection' = [detection EXCEPT ![d].step = "raise"]
  /\ UNCHANGED <<crawls, click, begun, clicks, closed>>

\* The unique key refuses the insert: the handler looks again and updates.
InsertRefused(d) ==
  /\ detection[d].step = "write" /\ detection[d].row = Nobody
  /\ Rows(detection[d].code, TRUE) # {}
  /\ detection' = [detection EXCEPT ![d].step = "again"]
  /\ UNCHANGED <<crawls, alerts, click, begun, clicks, closed>>

LookAgain(d) ==
  /\ detection[d].step = "again"
  /\ \/ \E a \in Rows(detection[d].code, TRUE) :
          detection' = [detection EXCEPT ![d] =
                          [@ EXCEPT !.step = "write", !.row = a]]
     \/ Rows(detection[d].code, TRUE) = {} /\ Fail(d)
  /\ UNCHANGED <<crawls, alerts, click, begun, clicks, closed>>

\* Fault: the alerts of the crawl itself are the ones that are listed.
NotSeen(a, c) == alerts[a].code \in HighImpact(crawls[c])
\* An active alert whose key the crawl did not give.
Stale(a, c) == alerts[a].code \notin HighImpact(crawls[c])

ListStale(d) ==
  /\ detection[d].step = "raise" /\ detection[d].codes = {}
  /\ LET stale == {a \in ActiveRows : Stale(a, detection[d].crawl)}
     IN detection' = [detection EXCEPT ![d] =
          [@ EXCEPT !.step = IF stale = {} THEN "done" ELSE "resolve",
                    !.stale = stale]]
  /\ UNCHANGED <<crawls, alerts, click, begun, clicks, closed>>

\* updateMany by the ids that were listed, all of them or none.
ResolveStale(d) ==
  /\ detection[d].step = "resolve"
  /\ IF MayClose(detection[d].stale)
     THEN /\ alerts' = [a \in DOMAIN alerts |->
                          IF a \in detection[d].stale
                          THEN [alerts[a] EXCEPT !.status = "RESOLVED",
                                                 !.active = FALSE]
                          ELSE alerts[a]]
          /\ detection' = [detection EXCEPT ![d].step = "done"]
     ELSE Fail(d) /\ UNCHANGED alerts
  /\ UNCHANGED <<crawls, click, begun, clicks, closed>>

-----------------------------------------------------------------------------
(* Users                                                                    *)

FindScopedAlert(u, a) ==
  /\ click[u] = NoClick /\ a \in DOMAIN alerts /\ clicks < MaxClicks
  /\ click' = [click EXCEPT ![u] = [row |-> a, status |-> alerts[a].status]]
  /\ clicks' = clicks + 1
  /\ UNCHANGED <<crawls, alerts, detection, begun, closed>>

\* A refusal, an answer without a change, or a refused statement
AnswerClick(u) ==
  /\ click[u] # NoClick
  /\ click' = [click EXCEPT ![u] = NoClick]
  /\ UNCHANGED <<crawls, alerts, detection, begun, clicks, closed>>

AcknowledgeAlert(u) ==
  /\ click[u] # NoClick /\ click[u].status \notin {"RESOLVED", "ACKNOWLEDGED"}
  /\ alerts' = [alerts EXCEPT ![click[u].row].status = "ACKNOWLEDGED"]
  /\ click' = [click EXCEPT ![u] = NoClick]
  /\ UNCHANGED <<crawls, detection, begun, clicks, closed>>

\* resolveAlert and dismissAlert
CloseAlert(u, status) ==
  /\ click[u] # NoClick /\ click[u].status # status
  /\ LET a == click[u].row
     IN /\ MayClose({a})
        /\ alerts' = [alerts EXCEPT ![a] =
                        [@ EXCEPT !.status = status, !.active = FALSE]]
        /\ NoteClosed(alerts[a].code)
  /\ click' = [click EXCEPT ![u] = NoClick]
  /\ UNCHANGED <<crawls, detection, begun, clicks>>

NextAlerts ==
  \/ \E pages \in Sites : CompleteCrawl(pages)
  \/ \E d \in Detectors :
       \/ \E c \in 1..MaxCrawls : Detect(d, c)
       \/ \E code \in Codes : LookForAlert(d, code)
       \/ UpdateAlert(d) \/ InsertAlert(d) \/ InsertRefused(d) \/ LookAgain(d)
       \/ ListStale(d) \/ ResolveStale(d)
  \/ \E u \in Users :
       \/ \E a \in 1..MaxAlerts : FindScopedAlert(u, a)
       \/ AnswerClick(u) \/ AcknowledgeAlert(u)
       \/ \E status \in {"RESOLVED", "DISMISSED"} : CloseAlert(u, status)

SpecAlerts == InitAlerts /\ [][NextAlerts]_alertVars

-----------------------------------------------------------------------------
(* Properties                                                               *)

AlertRows == [code : Codes, active : BOOLEAN, crawl : 1..MaxCrawls,
              status : {"DETECTED", "ACKNOWLEDGED", "RESOLVED", "DISMISSED"}]

\* Types of the rows, of the detections and of the requests.
AlertsTypeOK ==
  /\ crawls \in Seq(Sites) /\ Len(crawls) <= MaxCrawls
  /\ alerts \in Seq(AlertRows) /\ Len(alerts) <= MaxAlerts
  /\ detection \in [Detectors ->
       [step : {"rest", "raise", "write", "again", "resolve", "done", "failed"},
        crawl : 0..MaxCrawls, codes : SUBSET Codes, code : Codes \cup {Nobody},
        row : 1..MaxAlerts \cup {Nobody}, stale : SUBSET (1..MaxAlerts),
        alone : BOOLEAN]]
  /\ click \in [Users -> [row : 1..MaxAlerts \cup {Nobody},
                          status : {"DETECTED", "ACKNOWLEDGED", "RESOLVED",
                                    "DISMISSED"}]]
  /\ begun \in 0..MaxDetections /\ clicks \in 0..MaxClicks
  /\ closed \in [Detectors -> SUBSET Codes]

\* Alerts are what the crawl says: when a detection that no other overlapped
\* has ended, the active alerts are those of its crawl, no stale one left and
\* none missing, except where a user closed one in the meantime.
QuietDetectionAgrees ==
  \A d \in Detectors : detection[d].step = "done" /\ detection[d].alone =>
    LET current == {alerts[a].code : a \in ActiveRows}
        said == HighImpact(crawls[detection[d].crawl])
    IN current \subseteq said /\ said \subseteq current \cup closed[d]

\* One alert per key is open, whichever detections raise it together, and the
\* evidence it shows is of a crawl that had the issue at high impact.
OpenAlertIsEvident ==
  \A a \in ActiveRows :
    /\ \A b \in ActiveRows \ {a} : alerts[b].code # alerts[a].code
    /\ alerts[a].code \in HighImpact(crawls[alerts[a].crawl])
    /\ alerts[a].status \in {"DETECTED", "ACKNOWLEDGED"}
=============================================================================
