--------------------------- MODULE Workspace_proofs ---------------------------
(***************************************************************************)
(* Machine-checked theorems about WebsiteAlerts and TeamSeats, for any       *)
(* crawls, detections and people, and about MCWorkspaceWork, which puts      *)
(* them beside ActionProposals and GrowthActions.                            *)
(***************************************************************************)
EXTENDS MCWorkspaceWork, ActionProposals_proofs, GrowthActions_proofs

-----------------------------------------------------------------------------
(* Alerts: the inductive invariant, AlertsTypeOK and three groups.           *)

DetectionType ==
  [step : {"rest", "raise", "write", "again", "resolve", "done", "failed"},
   crawl : 0..MaxCrawls, codes : SUBSET Codes, code : Codes \cup {Nobody},
   row : 1..MaxAlerts \cup {Nobody}, stale : SUBSET (1..MaxAlerts), alone : BOOLEAN]
ClickType == [row : 1..MaxAlerts \cup {Nobody},
              status : {"DETECTED", "ACKNOWLEDGED", "RESOLVED", "DISMISSED"}]

Active(rows) == {a \in DOMAIN rows : rows[a].active = TRUE}
Current(rows) == {rows[a].code : a \in Active(rows)}

\* One active row for a key, each with evidence of the crawl that it names
TableSound(rows, cs) ==
  /\ \A a, b \in Active(rows) : rows[a].code = rows[b].code => a = b
  /\ \A a \in Active(rows) :
       /\ rows[a].crawl \in DOMAIN cs
       /\ rows[a].code \in HighImpact(cs[rows[a].crawl])
       /\ rows[a].status \in {"DETECTED", "ACKNOWLEDGED"}

\* What a detection has in its hands is what its crawl said, in the rows it found.
HandsSound(rows, cs, x) ==
  /\ x.step # "rest" => x.crawl \in DOMAIN cs
  /\ x.step \in {"raise", "write", "again"} => x.codes \subseteq HighImpact(cs[x.crawl])
  /\ x.step \in {"write", "again"} => x.code \in HighImpact(cs[x.crawl])
  /\ x.step = "write" /\ x.row # Nobody => x.row \in DOMAIN rows /\ rows[x.row].code = x.code
  /\ x.step = "resolve" => \A a \in x.stale :
       a \in DOMAIN rows /\ rows[a].code \notin HighImpact(cs[x.crawl])

Working == {"raise", "write", "again", "resolve"}

\* The codes of a detection's crawl that are still to be raised
Ahead(x) ==
  IF x.step = "raise" THEN x.codes
  ELSE IF x.step \in {"write", "again"} THEN x.codes \cup {x.code} ELSE {}

\* A detection that nobody overlapped misses no code of its crawl, but those that
\* it has still to raise and those that a user closed (gone), and nobody but users
\* has taken from it what it found.
AloneSound(rows, cs, gone, x) ==
  x.alone = TRUE /\ x.step \in Working \cup {"done"} =>
    /\ HighImpact(cs[x.crawl]) \subseteq Current(rows) \cup gone \cup Ahead(x)
    /\ x.step = "write" /\ x.row # Nobody => x.row \in Active(rows) \/ x.code \in gone
    /\ x.step = "resolve" => \A a \in Active(rows) :
         rows[a].code \notin HighImpact(cs[x.crawl]) => a \in x.stale
    /\ x.step = "done" => Current(rows) \subseteq HighImpact(cs[x.crawl])

NobodyElse(d) ==
  detection[d].alone = TRUE /\ detection[d].step \in Working \cup {"done"} =>
    \A e \in Detectors \ {d} : detection[e].step \notin Working

ClicksSound == \A u \in Users : click[u] # NoClick => click[u].row \in DOMAIN alerts

AInv ==
  /\ AlertsTypeOK /\ TableSound(alerts, crawls) /\ ClicksSound
  /\ \A d \in Detectors : /\ HandsSound(alerts, crawls, detection[d])
                          /\ AloneSound(alerts, crawls, closed[d], detection[d])
                          /\ NobodyElse(d)

-----------------------------------------------------------------------------
(* Alerts: what stays as it was                                             *)

\* A row keeps its code for ever, a crawl its pages.
RowsStay(rows, rows2) ==
  \A a \in DOMAIN rows : a \in DOMAIN rows2 /\ rows2[a].code = rows[a].code
CrawlsStay(cs, cs2) == \A c \in DOMAIN cs : c \in DOMAIN cs2 /\ cs2[c] = cs[c]

LEMMA HandsStay ==
  ASSUME NEW rows, NEW cs, NEW rows2, NEW cs2, RowsStay(rows, rows2), CrawlsStay(cs, cs2),
         NEW x, HandsSound(rows, cs, x)
  PROVE  HandsSound(rows2, cs2, x)
BY DEF HandsSound, RowsStay, CrawlsStay

\* No row becomes active, and what becomes inactive is counted as gone.
LEMMA AloneStays ==
  ASSUME NEW rows, NEW cs, NEW rows2, NEW cs2, RowsStay(rows, rows2), CrawlsStay(cs, cs2),
         NEW x, HandsSound(rows, cs, x), NEW gone, NEW gone2, gone \subseteq gone2,
         Active(rows2) \subseteq Active(rows),
         \A a \in Active(rows) : a \in Active(rows2) \/ rows[a].code \in gone2,
         AloneSound(rows, cs, gone, x)
  PROVE  AloneSound(rows2, cs2, gone2, x)
<1> SUFFICES ASSUME x.alone = TRUE, x.step \in Working \cup {"done"}
             PROVE  AloneSound(rows2, cs2, gone2, x)
  BY DEF AloneSound
<1>1. x.step # "rest" /\ cs2[x.crawl] = cs[x.crawl]
  BY DEF HandsSound, CrawlsStay, Working
<1>2. \A a \in Active(rows) : a \in DOMAIN rows /\ rows2[a].code = rows[a].code
  BY DEF Active, RowsStay
<1>3. Current(rows) \subseteq Current(rows2) \cup gone2 /\ Current(rows2) \subseteq Current(rows)
  BY <1>2 DEF Current
<1>4. HighImpact(cs2[x.crawl]) \subseteq Current(rows2) \cup gone2 \cup Ahead(x)
  BY <1>1, <1>3 DEF AloneSound
<1>5. x.step = "write" /\ x.row # Nobody => x.row \in Active(rows2) \/ x.code \in gone2
  BY DEF AloneSound, HandsSound
<1>6. x.step = "resolve" => \A a \in Active(rows2) :
        rows2[a].code \notin HighImpact(cs2[x.crawl]) => a \in x.stale
  BY <1>1, <1>2 DEF AloneSound
<1>7. x.step = "done" => Current(rows2) \subseteq HighImpact(cs2[x.crawl])
  BY <1>1, <1>3 DEF AloneSound
<1> QED
  BY <1>4, <1>5, <1>6, <1>7 DEF AloneSound

\* A table whose active rows are active rows of a sound one, with the code and the
\* evidence that they had
LEMMA TableNarrows ==
  ASSUME NEW rows, NEW cs, NEW rows2, NEW cs2, CrawlsStay(cs, cs2), TableSound(rows, cs),
         Active(rows2) \subseteq Active(rows),
         \A a \in Active(rows2) : /\ rows2[a].code = rows[a].code
                                  /\ rows2[a].crawl = rows[a].crawl
                                  /\ rows2[a].status \in {"DETECTED", "ACKNOWLEDGED"}
  PROVE  TableSound(rows2, cs2)
<1>1. \A a, b \in Active(rows2) : rows2[a].code = rows2[b].code => a = b
  BY DEF TableSound
<1>2. \A a \in Active(rows2) :
        /\ rows2[a].crawl \in DOMAIN cs2
        /\ rows2[a].code \in HighImpact(cs2[rows2[a].crawl])
        /\ rows2[a].status \in {"DETECTED", "ACKNOWLEDGED"}
  BY DEF TableSound, CrawlsStay
<1> QED
  BY <1>1, <1>2 DEF TableSound

LEMMA AlertTypes ==
  ASSUME AInv
  PROVE  /\ alerts \in Seq(AlertRows) /\ Len(alerts) \in Nat /\ Len(alerts) <= MaxAlerts
         /\ DOMAIN alerts = 1..Len(alerts) /\ MaxAlerts \in Nat
         /\ \A a \in DOMAIN alerts : a \in 1..MaxAlerts /\ alerts[a] \in AlertRows
         /\ crawls \in Seq(Sites) /\ Len(crawls) \in Nat /\ Len(crawls) <= MaxCrawls
         /\ DOMAIN crawls = 1..Len(crawls) /\ MaxCrawls \in Nat
         /\ detection \in [Detectors -> DetectionType] /\ click \in [Users -> ClickType]
         /\ closed \in [Detectors -> SUBSET Codes]
<1>1. /\ alerts \in Seq(AlertRows) /\ Len(alerts) <= MaxAlerts
      /\ crawls \in Seq(Sites) /\ Len(crawls) <= MaxCrawls
      /\ detection \in [Detectors -> DetectionType] /\ click \in [Users -> ClickType]
      /\ closed \in [Detectors -> SUBSET Codes]
  BY DEF AInv, AlertsTypeOK, DetectionType, ClickType
<1>2. /\ Len(alerts) \in Nat /\ DOMAIN alerts = 1..Len(alerts)
      /\ Len(crawls) \in Nat /\ DOMAIN crawls = 1..Len(crawls)
  BY <1>1, LenProperties
<1>3. MaxAlerts \in Nat /\ MaxCrawls \in Nat
  BY AlertsAssumption
<1>4. \A a \in DOMAIN alerts : a \in 1..MaxAlerts /\ alerts[a] \in AlertRows
  BY <1>1, <1>2, <1>3, ElementOfSeq
<1> QED
  BY <1>1, <1>2, <1>3, <1>4

LEMMA ActiveIs == ASSUME AInv PROVE ActiveRows = Active(alerts)
<1>1. \A a \in DOMAIN alerts : alerts[a].active \in BOOLEAN
  BY AlertTypes DEF AlertRows
<1> QED
  BY <1>1, Zenon DEF ActiveRows, Active

\* A step of a detection under way, which makes all others keep away from the claim
\* that they are alone
LEMMA WorkMoves ==
  ASSUME AInv, NEW d \in Detectors, detection[d].step \in Working, NEW y \in DetectionType,
         y.alone = TRUE => detection[d].alone = TRUE,
         y.step \in Working \cup {"done", "failed"},
         detection' = [detection EXCEPT ![d] = y],
         UNCHANGED <<crawls, click, begun, clicks, closed>>,
         alerts' \in Seq(AlertRows), Len(alerts') <= MaxAlerts, RowsStay(alerts, alerts'),
         TableSound(alerts', crawls), HandsSound(alerts', crawls, y),
         AloneSound(alerts', crawls, closed[d], y)
  PROVE  AInv'
<1>1. detection \in [Detectors -> DetectionType]
  BY AlertTypes
<1>2. detection'[d] = y /\ \A e \in Detectors \ {d} : detection'[e] = detection[e]
  BY <1>1
<1>3. AlertsTypeOK'
  <2>1. detection' \in [Detectors -> DetectionType]
    BY <1>1
  <2> QED
    BY <2>1 DEF AInv, AlertsTypeOK, DetectionType
<1>4. ClicksSound'
  BY DEF AInv, ClicksSound, RowsStay
<1>5. CrawlsStay(crawls, crawls)
  BY DEF CrawlsStay
<1>6. ASSUME NEW e \in Detectors
      PROVE  /\ HandsSound(alerts', crawls, detection'[e])
             /\ AloneSound(alerts', crawls, closed[e], detection'[e])
             /\ NobodyElse(e)'
  <2>1. CASE e = d
    <3>1. NobodyElse(d)
      BY DEF AInv
    <3>2. NobodyElse(d)'
      BY <1>2, <3>1 DEF NobodyElse
    <3> QED
      BY <1>2, <2>1, <3>2
  <2>2. CASE e # d
    <3>1. detection'[e] = detection[e]
      BY <1>2, <2>2
    <3>2. ~(detection[e].alone = TRUE /\ detection[e].step \in Working \cup {"done"})
      BY <2>2 DEF AInv, NobodyElse
    <3>3. HandsSound(alerts, crawls, detection[e])
      BY DEF AInv
    <3>4. HandsSound(alerts', crawls, detection[e])
      BY <1>5, <3>3, HandsStay
    <3>5. AloneSound(alerts', crawls, closed[e], detection[e])
      BY <3>2 DEF AloneSound
    <3>6. NobodyElse(e)'
      BY <3>1, <3>2 DEF NobodyElse
    <3> QED
      BY <3>1, <3>4, <3>5, <3>6
  <2> QED
    BY <2>1, <2>2
<1>7. closed' = closed /\ crawls' = crawls
  OBVIOUS
<1> QED
  BY <1>3, <1>4, <1>6, <1>7 DEF AInv

\* A step that leaves the detections alone: no row becomes active, and what becomes
\* inactive is noted for each of them.
LEMMA UserMoves ==
  ASSUME AInv, UNCHANGED <<detection, begun>>,
         crawls' \in Seq(Sites), Len(crawls') <= MaxCrawls, CrawlsStay(crawls, crawls'),
         alerts' \in Seq(AlertRows), Len(alerts') <= MaxAlerts, RowsStay(alerts, alerts'),
         Active(alerts') \subseteq Active(alerts),
         TableSound(alerts', crawls'),
         closed' \in [Detectors -> SUBSET Codes],
         \A d \in Detectors : detection[d].step # "rest" =>
           /\ closed[d] \subseteq closed'[d]
           /\ \A a \in Active(alerts) : a \in Active(alerts') \/ alerts[a].code \in closed'[d],
         click' \in [Users -> ClickType], ClicksSound', clicks' \in 0..MaxClicks
  PROVE  AInv'
<1>1. AlertsTypeOK'
  BY DEF AInv, AlertsTypeOK, ClickType
<1>2. ASSUME NEW d \in Detectors
      PROVE  /\ HandsSound(alerts', crawls', detection[d])
             /\ AloneSound(alerts', crawls', closed'[d], detection[d])
             /\ NobodyElse(d)'
  <2>1. /\ HandsSound(alerts, crawls, detection[d]) /\ NobodyElse(d)
        /\ AloneSound(alerts, crawls, closed[d], detection[d])
    BY DEF AInv
  <2>2. HandsSound(alerts', crawls', detection[d])
    BY <2>1, HandsStay
  <2>3. NobodyElse(d)'
    BY <2>1 DEF NobodyElse
  <2>4. CASE detection[d].step = "rest"
    BY <2>2, <2>3, <2>4 DEF AloneSound, Working
  <2>5. CASE detection[d].step # "rest"
    BY <2>1, <2>2, <2>3, <2>5, AloneStays
  <2> QED
    BY <2>4, <2>5
<1> QED
  BY <1>1, <1>2 DEF AInv

-----------------------------------------------------------------------------
(* Alerts: the steps of a detection                                         *)

\* A step of a detection that changes nothing but its own state
LEMMA WorkReads ==
  ASSUME AInv, NEW d \in Detectors, detection[d].step \in Working, NEW y \in DetectionType,
         y.alone = TRUE => detection[d].alone = TRUE,
         y.step \in Working \cup {"done", "failed"},
         detection' = [detection EXCEPT ![d] = y],
         UNCHANGED <<crawls, alerts, click, begun, clicks, closed>>,
         HandsSound(alerts, crawls, y), AloneSound(alerts, crawls, closed[d], y)
  PROVE  AInv'
<1>1. alerts' \in Seq(AlertRows) /\ Len(alerts') <= MaxAlerts /\ alerts' = alerts
  BY AlertTypes
<1>2. RowsStay(alerts, alerts')
  BY DEF RowsStay
<1>3. TableSound(alerts', crawls)
  BY <1>1 DEF AInv
<1>4. HandsSound(alerts', crawls, y) /\ AloneSound(alerts', crawls, closed[d], y)
  BY <1>1
<1> QED
  BY <1>1, <1>2, <1>3, <1>4, WorkMoves

\* What a detection under way has in its hands
LEMMA WorkHolds ==
  ASSUME AInv, NEW d \in Detectors, detection[d].step \in Working
  PROVE  /\ detection[d] \in DetectionType /\ DOMAIN detection = Detectors
         /\ HandsSound(alerts, crawls, detection[d])
         /\ AloneSound(alerts, crawls, closed[d], detection[d])
         /\ detection[d].crawl \in DOMAIN crawls
<1>1. /\ HandsSound(alerts, crawls, detection[d])
      /\ AloneSound(alerts, crawls, closed[d], detection[d])
  BY DEF AInv
<1>2. detection[d].crawl \in DOMAIN crawls
  BY <1>1 DEF HandsSound, Working
<1> QED
  BY <1>1, <1>2, AlertTypes

LEMMA AFail ==
  ASSUME AInv, NEW d \in Detectors, detection[d].step \in Working, Fail(d),
         UNCHANGED <<crawls, alerts, click, begun, clicks, closed>>
  PROVE  AInv'
<1> DEFINE x == detection[d]
           y == [x EXCEPT !.step = "failed"]
<1>1. x \in DetectionType /\ HandsSound(alerts, crawls, x) /\ DOMAIN detection = Detectors
  BY WorkHolds
<1>2. y \in DetectionType /\ y.alone = x.alone /\ y.step = "failed" /\ y.crawl = x.crawl
  BY <1>1 DEF DetectionType
<1>3. HandsSound(alerts, crawls, y)
  BY <1>1, <1>2 DEF HandsSound, Working
<1>4. AloneSound(alerts, crawls, closed[d], y)
  BY <1>2 DEF AloneSound, Working
<1>5. detection' = [detection EXCEPT ![d] = y]
  BY DEF Fail
<1> HIDE DEF y
<1> QED
  BY <1>2, <1>3, <1>4, <1>5, WorkReads

LEMMA ALookForAlert ==
  ASSUME AInv, NEW d \in Detectors, NEW code \in Codes, LookForAlert(d, code)
  PROVE  AInv'
<1> DEFINE x == detection[d]
           r == IF Rows(code, TRUE) = {} THEN Nobody ELSE CHOOSE a \in Rows(code, TRUE) : TRUE
           y == [x EXCEPT !.step = "write", !.code = code, !.codes = x.codes \ {code},
                          !.row = r]
<1>1. x.step = "raise" /\ x.step \in Working /\ code \in x.codes
  BY DEF LookForAlert, Working
<1>2. /\ x \in DetectionType /\ HandsSound(alerts, crawls, x) /\ DOMAIN detection = Detectors
      /\ AloneSound(alerts, crawls, closed[d], x)
  BY <1>1, WorkHolds
<1>3. r # Nobody => r \in DOMAIN alerts /\ alerts[r].code = code /\ r \in Active(alerts)
  BY DEF Rows, Active
<1>4. r \in 1..MaxAlerts \cup {Nobody}
  BY <1>3, AlertTypes
<1> HIDE DEF r
<1>5. /\ y.step = "write" /\ y.code = code /\ y.codes = x.codes \ {code} /\ y.row = r
      /\ y.alone = x.alone /\ y.crawl = x.crawl
  BY <1>2 DEF DetectionType
<1>6. y \in DetectionType
  BY <1>2, <1>4 DEF DetectionType
<1>7. detection' = [detection EXCEPT ![d] = y]
  BY DEF LookForAlert, r
<1> HIDE DEF y
<1>8. HandsSound(alerts, crawls, y)
  BY <1>1, <1>2, <1>3, <1>5 DEF HandsSound
<1>9. AloneSound(alerts, crawls, closed[d], y)
  <2> SUFFICES ASSUME y.alone = TRUE
               PROVE  AloneSound(alerts, crawls, closed[d], y)
    BY DEF AloneSound
  <2>1. HighImpact(crawls[x.crawl]) \subseteq Current(alerts) \cup closed[d] \cup x.codes
    BY <1>1, <1>2, <1>5 DEF AloneSound, Ahead
  <2>2. x.codes \subseteq Ahead(y)
    BY <1>5 DEF Ahead
  <2>3. HighImpact(crawls[y.crawl]) \subseteq Current(alerts) \cup closed[d] \cup Ahead(y)
    BY <1>5, <2>1, <2>2
  <2> QED
    BY <1>3, <1>5, <2>3 DEF AloneSound
<1>10. UNCHANGED <<crawls, alerts, click, begun, clicks, closed>>
  BY DEF LookForAlert
<1>11. (y.alone = TRUE => x.alone = TRUE) /\ y.step \in Working \cup {"done", "failed"}
  BY <1>5 DEF Working
<1> QED
  BY <1>1, <1>6, <1>7, <1>8, <1>9, <1>10, <1>11, WorkReads

LEMMA AUpdateAlert ==
  ASSUME AInv, NEW d \in Detectors, UpdateAlert(d)
  PROVE  AInv'
<1> DEFINE x == detection[d]
           a == x.row
           y == [x EXCEPT !.step = "raise"]
<1>1. x.step = "write" /\ x.step \in Working /\ a # Nobody
  BY DEF UpdateAlert, Working
<1>2. /\ x \in DetectionType /\ HandsSound(alerts, crawls, x) /\ DOMAIN detection = Detectors
      /\ AloneSound(alerts, crawls, closed[d], x) /\ x.crawl \in DOMAIN crawls
  BY <1>1, WorkHolds
<1>3. /\ a \in DOMAIN alerts /\ alerts[a].code = x.code
      /\ x.code \in HighImpact(crawls[x.crawl]) /\ x.codes \subseteq HighImpact(crawls[x.crawl])
  BY <1>1, <1>2 DEF HandsSound
<1>4. /\ alerts \in Seq(AlertRows) /\ Len(alerts) \in Nat /\ Len(alerts) <= MaxAlerts
      /\ DOMAIN alerts = 1..Len(alerts)
      /\ \A b \in DOMAIN alerts : alerts[b] \in AlertRows
  BY AlertTypes
<1>5. x.crawl \in 1..MaxCrawls
  BY <1>2, AlertTypes
<1> DEFINE w == [alerts[a] EXCEPT !.crawl = x.crawl]
<1>6. /\ w \in AlertRows /\ w.code = alerts[a].code /\ w.active = alerts[a].active
      /\ w.status = alerts[a].status /\ w.crawl = x.crawl
  BY <1>3, <1>4, <1>5 DEF AlertRows
<1>7. alerts' = [alerts EXCEPT ![a] = w]
  BY DEF UpdateAlert, Refreshed
<1> HIDE DEF w
<1>8. /\ alerts' \in Seq(AlertRows) /\ Len(alerts') = Len(alerts) /\ DOMAIN alerts' = DOMAIN alerts
      /\ alerts'[a] = w /\ \A b \in DOMAIN alerts \ {a} : alerts'[b] = alerts[b]
  BY <1>3, <1>4, <1>6, <1>7, ExceptSeq
<1>9. RowsStay(alerts, alerts')
  BY <1>3, <1>6, <1>8 DEF RowsStay
<1>10. Active(alerts') = Active(alerts)
  BY <1>3, <1>6, <1>8 DEF Active
<1>11. TableSound(alerts', crawls)
  <2>1. TableSound(alerts, crawls)
    BY DEF AInv
  <2>2. \A b \in Active(alerts) : b \in DOMAIN alerts /\ alerts'[b].code = alerts[b].code
    BY <1>9 DEF Active, RowsStay
  <2>3. \A b, c \in Active(alerts') : alerts'[b].code = alerts'[c].code => b = c
    BY <1>10, <2>1, <2>2 DEF TableSound
  <2>4. ASSUME NEW b \in Active(alerts')
        PROVE  /\ alerts'[b].crawl \in DOMAIN crawls
               /\ alerts'[b].code \in HighImpact(crawls[alerts'[b].crawl])
               /\ alerts'[b].status \in {"DETECTED", "ACKNOWLEDGED"}
    <3>1. b \in Active(alerts) /\ b \in DOMAIN alerts
      BY <1>10, <2>2
    <3>2. CASE b = a
      BY <1>2, <1>3, <1>6, <1>8, <2>1, <3>1, <3>2 DEF TableSound
    <3>3. CASE b # a
      BY <1>8, <2>1, <3>1, <3>3 DEF TableSound
    <3> QED
      BY <3>2, <3>3
  <2> QED
    BY <2>3, <2>4 DEF TableSound
<1>12. y \in DetectionType /\ y.step = "raise" /\ y.alone = x.alone /\ y.crawl = x.crawl /\ y.codes = x.codes
  BY <1>2 DEF DetectionType
<1>13. detection' = [detection EXCEPT ![d] = y]
  BY DEF UpdateAlert
<1> HIDE DEF y
<1>14. HandsSound(alerts', crawls, y)
  BY <1>2, <1>3, <1>12 DEF HandsSound
<1>15. AloneSound(alerts', crawls, closed[d], y)
  <2> SUFFICES ASSUME y.alone = TRUE
               PROVE  AloneSound(alerts', crawls, closed[d], y)
    BY DEF AloneSound
  <2>1. /\ HighImpact(crawls[x.crawl]) \subseteq Current(alerts) \cup closed[d] \cup x.codes \cup {x.code}
        /\ a \in Active(alerts) \/ x.code \in closed[d]
    BY <1>1, <1>2, <1>12 DEF AloneSound, Ahead
  <2>2. x.code \in Current(alerts) \cup closed[d]
    BY <1>3, <2>1 DEF Current
  <2>3. \A b \in Active(alerts) : alerts'[b].code = alerts[b].code
    BY <1>9 DEF Active, RowsStay
  <2>4. Current(alerts') = Current(alerts)
    BY <1>10, <2>3 DEF Current
  <2>5. Ahead(y) = x.codes
    BY <1>12 DEF Ahead
  <2>6. HighImpact(crawls[y.crawl]) \subseteq Current(alerts') \cup closed[d] \cup Ahead(y)
    BY <1>12, <2>1, <2>2, <2>4, <2>5
  <2> QED
    BY <1>12, <2>6 DEF AloneSound
<1>16. UNCHANGED <<crawls, click, begun, clicks, closed>>
  BY DEF UpdateAlert
<1>17. (y.alone = TRUE => x.alone = TRUE) /\ y.step \in Working \cup {"done", "failed"}
  BY <1>12 DEF Working
<1>18. Len(alerts') <= MaxAlerts
  BY <1>4, <1>8
<1> QED
  BY <1>1, <1>8, <1>9, <1>11, <1>12, <1>13, <1>14, <1>15, <1>16, <1>17, <1>18, WorkMoves

LEMMA AInsertAlert ==
  ASSUME AInv, NEW d \in Detectors, InsertAlert(d)
  PROVE  AInv'
<1> DEFINE x == detection[d]
           w == [code |-> x.code, status |-> "DETECTED", active |-> TRUE, crawl |-> x.crawl]
           y == [x EXCEPT !.step = "raise"]
           n == Len(alerts)
<1>1. x.step = "write" /\ x.step \in Working /\ Rows(x.code, TRUE) = {} /\ n < MaxAlerts
  BY DEF InsertAlert, Working
<1>2. /\ x \in DetectionType /\ HandsSound(alerts, crawls, x) /\ DOMAIN detection = Detectors
      /\ AloneSound(alerts, crawls, closed[d], x) /\ x.crawl \in DOMAIN crawls
  BY <1>1, WorkHolds
<1>3. x.code \in HighImpact(crawls[x.crawl]) /\ x.codes \subseteq HighImpact(crawls[x.crawl])
  BY <1>1, <1>2 DEF HandsSound
<1>4. alerts \in Seq(AlertRows) /\ n \in Nat /\ DOMAIN alerts = 1..n /\ MaxAlerts \in Nat
  BY AlertTypes
<1>5. x.crawl \in 1..MaxCrawls /\ x.code \in Codes
  BY <1>2, <1>3, AlertTypes DEF HighImpact
<1>6. /\ w \in AlertRows /\ w.code = x.code /\ w.active = TRUE /\ w.status = "DETECTED"
      /\ w.crawl = x.crawl
  BY <1>5 DEF AlertRows
<1>7. alerts' = Append(alerts, w)
  BY DEF InsertAlert
<1> HIDE DEF w, n
<1>8. /\ alerts' \in Seq(AlertRows) /\ Len(alerts') = n + 1 /\ DOMAIN alerts' = 1..(n + 1)
      /\ alerts'[n + 1] = w /\ \A b \in 1..n : alerts'[b] = alerts[b]
  BY <1>4, <1>6, <1>7, AppendProperties DEF n
<1>9. /\ n + 1 \in DOMAIN alerts' /\ n + 1 \notin DOMAIN alerts
      /\ DOMAIN alerts' = DOMAIN alerts \cup {n + 1} /\ n + 1 <= MaxAlerts
  BY <1>1, <1>4, <1>8
<1>10. RowsStay(alerts, alerts')
  BY <1>4, <1>8, <1>9 DEF RowsStay
<1>11. Active(alerts') = Active(alerts) \cup {n + 1}
  BY <1>4, <1>6, <1>8, <1>9 DEF Active
<1>12. \A b \in Active(alerts) : alerts'[b] = alerts[b] /\ b \in DOMAIN alerts /\ alerts[b].code # x.code
  BY <1>1, <1>4, <1>8 DEF Active, Rows
<1>13. TableSound(alerts', crawls)
  <2>1. TableSound(alerts, crawls)
    BY DEF AInv
  <2>2. \A b, c \in Active(alerts') : alerts'[b].code = alerts'[c].code => b = c
    BY <1>6, <1>8, <1>11, <1>12, <2>1 DEF TableSound
  <2>3. \A b \in Active(alerts') :
          /\ alerts'[b].crawl \in DOMAIN crawls
          /\ alerts'[b].code \in HighImpact(crawls[alerts'[b].crawl])
          /\ alerts'[b].status \in {"DETECTED", "ACKNOWLEDGED"}
    BY <1>2, <1>3, <1>6, <1>8, <1>11, <1>12, <2>1 DEF TableSound
  <2> QED
    BY <2>2, <2>3 DEF TableSound
<1>14. y \in DetectionType /\ y.step = "raise" /\ y.alone = x.alone /\ y.crawl = x.crawl /\ y.codes = x.codes
  BY <1>2 DEF DetectionType
<1>15. detection' = [detection EXCEPT ![d] = y]
  BY DEF InsertAlert
<1> HIDE DEF y
<1>16. HandsSound(alerts', crawls, y)
  BY <1>2, <1>3, <1>14 DEF HandsSound
<1>17. AloneSound(alerts', crawls, closed[d], y)
  <2> SUFFICES ASSUME y.alone = TRUE
               PROVE  AloneSound(alerts', crawls, closed[d], y)
    BY DEF AloneSound
  <2>1. HighImpact(crawls[x.crawl]) \subseteq Current(alerts) \cup closed[d] \cup x.codes \cup {x.code}
    BY <1>1, <1>2, <1>14 DEF AloneSound, Ahead
  <2>2. Current(alerts) \cup {x.code} \subseteq Current(alerts')
    BY <1>6, <1>8, <1>11, <1>12 DEF Current
  <2>3. Ahead(y) = x.codes
    BY <1>14 DEF Ahead
  <2>4. HighImpact(crawls[y.crawl]) \subseteq Current(alerts') \cup closed[d] \cup Ahead(y)
    BY <1>14, <2>1, <2>2, <2>3
  <2> QED
    BY <1>14, <2>4 DEF AloneSound
<1>18. UNCHANGED <<crawls, click, begun, clicks, closed>>
  BY DEF InsertAlert
<1>19. (y.alone = TRUE => x.alone = TRUE) /\ y.step \in Working \cup {"done", "failed"}
  BY <1>14 DEF Working
<1>20. Len(alerts') <= MaxAlerts
  BY <1>8, <1>9
<1> QED
  BY <1>1, <1>8, <1>10, <1>13, <1>14, <1>15, <1>16, <1>17, <1>18, <1>19, <1>20, WorkMoves

LEMMA AInsertRefused ==
  ASSUME AInv, NEW d \in Detectors, InsertRefused(d)
  PROVE  AInv'
<1> DEFINE x == detection[d]
           y == [x EXCEPT !.step = "again"]
<1>1. x.step = "write" /\ x.step \in Working /\ Rows(x.code, TRUE) # {}
  BY DEF InsertRefused, Working
<1>2. /\ x \in DetectionType /\ HandsSound(alerts, crawls, x) /\ DOMAIN detection = Detectors
      /\ AloneSound(alerts, crawls, closed[d], x)
  BY <1>1, WorkHolds
<1>3. /\ y \in DetectionType /\ y.step = "again" /\ y.alone = x.alone /\ y.crawl = x.crawl
      /\ y.codes = x.codes /\ y.code = x.code
  BY <1>2 DEF DetectionType
<1>4. detection' = [detection EXCEPT ![d] = y]
  BY DEF InsertRefused
<1>5. UNCHANGED <<crawls, alerts, click, begun, clicks, closed>>
  BY DEF InsertRefused
<1> HIDE DEF y
<1>6. HandsSound(alerts, crawls, y)
  BY <1>1, <1>2, <1>3 DEF HandsSound
<1>7. AloneSound(alerts, crawls, closed[d], y)
  BY <1>1, <1>2, <1>3 DEF AloneSound, Ahead, Working
<1>8. (y.alone = TRUE => x.alone = TRUE) /\ y.step \in Working \cup {"done", "failed"}
  BY <1>3 DEF Working
<1> QED
  BY <1>1, <1>3, <1>4, <1>5, <1>6, <1>7, <1>8, WorkReads

LEMMA ALookAgain ==
  ASSUME AInv, NEW d \in Detectors, LookAgain(d)
  PROVE  AInv'
<1> DEFINE x == detection[d]
<1>1. x.step = "again" /\ x.step \in Working
  BY DEF LookAgain, Working
<1>2. /\ x \in DetectionType /\ HandsSound(alerts, crawls, x) /\ DOMAIN detection = Detectors
      /\ AloneSound(alerts, crawls, closed[d], x)
  BY <1>1, WorkHolds
<1>3. UNCHANGED <<crawls, alerts, click, begun, clicks, closed>>
  BY DEF LookAgain
<1>4. CASE Fail(d)
  BY <1>1, <1>3, <1>4, AFail
<1>5. ASSUME NEW a \in Rows(x.code, TRUE),
             detection' = [detection EXCEPT ![d] = [@ EXCEPT !.step = "write", !.row = a]]
      PROVE  AInv'
  <2> DEFINE y == [x EXCEPT !.step = "write", !.row = a]
  <2>1. a \in DOMAIN alerts /\ alerts[a].code = x.code /\ a \in Active(alerts)
    BY DEF Rows, Active
  <2>2. a \in 1..MaxAlerts
    BY <2>1, AlertTypes
  <2>3. /\ y.step = "write" /\ y.alone = x.alone /\ y.crawl = x.crawl
        /\ y.codes = x.codes /\ y.code = x.code /\ y.row = a
    BY <1>2 DEF DetectionType
  <2>4. y \in DetectionType
    BY <1>2, <2>2 DEF DetectionType
  <2>5. detection' = [detection EXCEPT ![d] = y]
    BY <1>5
  <2> HIDE DEF y
  <2>6. HandsSound(alerts, crawls, y)
    BY <1>1, <1>2, <2>1, <2>3 DEF HandsSound
  <2>7. AloneSound(alerts, crawls, closed[d], y)
    BY <1>1, <1>2, <2>1, <2>3 DEF AloneSound, Ahead, Working
  <2>8. (y.alone = TRUE => x.alone = TRUE) /\ y.step \in Working \cup {"done", "failed"}
    BY <2>3 DEF Working
  <2> QED
    BY <1>1, <1>3, <2>4, <2>5, <2>6, <2>7, <2>8, WorkReads
<1> QED
  BY <1>4, <1>5 DEF LookAgain

LEMMA AListStale ==
  ASSUME AInv, NEW d \in Detectors, ListStale(d)
  PROVE  AInv'
<1> DEFINE x == detection[d]
           stale == {a \in ActiveRows : Stale(a, x.crawl)}
           y == [x EXCEPT !.step = IF stale = {} THEN "done" ELSE "resolve", !.stale = stale]
<1>1. x.step = "raise" /\ x.step \in Working /\ x.codes = {}
  BY DEF ListStale, Working
<1>2. /\ x \in DetectionType /\ HandsSound(alerts, crawls, x) /\ DOMAIN detection = Detectors
      /\ AloneSound(alerts, crawls, closed[d], x) /\ x.crawl \in DOMAIN crawls
  BY <1>1, WorkHolds
<1>3. stale = {a \in Active(alerts) : alerts[a].code \notin HighImpact(crawls[x.crawl])}
  BY ActiveIs DEF Stale
<1>4. stale \subseteq DOMAIN alerts /\ stale \subseteq 1..MaxAlerts
  BY <1>3, AlertTypes DEF Active
<1>5. detection' = [detection EXCEPT ![d] = y]
  BY DEF ListStale
<1> HIDE DEF stale
<1>6. /\ y.alone = x.alone /\ y.crawl = x.crawl /\ y.stale = stale
      /\ y.step = IF stale = {} THEN "done" ELSE "resolve"
  BY <1>2 DEF DetectionType
<1>7. y \in DetectionType
  BY <1>2, <1>4 DEF DetectionType
<1> HIDE DEF y
<1>8. HandsSound(alerts, crawls, y)
  BY <1>2, <1>3, <1>4, <1>6 DEF HandsSound
<1>9. AloneSound(alerts, crawls, closed[d], y)
  <2> SUFFICES ASSUME y.alone = TRUE
               PROVE  AloneSound(alerts, crawls, closed[d], y)
    BY DEF AloneSound
  <2>1. HighImpact(crawls[y.crawl]) \subseteq Current(alerts) \cup closed[d] \cup Ahead(y)
    BY <1>1, <1>2, <1>6 DEF AloneSound, Ahead
  <2>2. y.step = "resolve" => \A a \in Active(alerts) :
          alerts[a].code \notin HighImpact(crawls[y.crawl]) => a \in y.stale
    BY <1>3, <1>6
  <2>3. y.step = "done" => Current(alerts) \subseteq HighImpact(crawls[y.crawl])
    BY <1>3, <1>6 DEF Current
  <2>4. y.step # "write"
    BY <1>6
  <2> QED
    BY <2>1, <2>2, <2>3, <2>4 DEF AloneSound
<1>10. UNCHANGED <<crawls, alerts, click, begun, clicks, closed>>
  BY DEF ListStale
<1>11. (y.alone = TRUE => x.alone = TRUE) /\ y.step \in Working \cup {"done", "failed"}
  BY <1>6 DEF Working
<1> QED
  BY <1>1, <1>5, <1>7, <1>8, <1>9, <1>10, <1>11, WorkReads

LEMMA SameUpTo == ASSUME NEW m \in Nat, NEW n \in Nat, 1..m = 1..n PROVE m = n
<1>1. m = 0 \/ m \in 1..m
  OBVIOUS
<1>2. n = 0 \/ n \in 1..n
  OBVIOUS
<1>3. m = 0 \/ m \in 1..n
  BY <1>1
<1>4. n = 0 \/ n \in 1..m
  BY <1>2
<1> QED
  BY <1>3, <1>4

\* The rows that a resolution or a user's closing makes inactive
LEMMA RowsClose ==
  ASSUME AInv, NEW gone \in SUBSET DOMAIN alerts, NEW status \in {"RESOLVED", "DISMISSED"},
         alerts' = [a \in DOMAIN alerts |-> IF a \in gone
                      THEN [alerts[a] EXCEPT !.status = status, !.active = FALSE]
                      ELSE alerts[a]]
  PROVE  /\ alerts' \in Seq(AlertRows) /\ Len(alerts') <= MaxAlerts
         /\ DOMAIN alerts' = DOMAIN alerts
         /\ RowsStay(alerts, alerts') /\ Active(alerts') = Active(alerts) \ gone
         /\ \A cs : CrawlsStay(crawls, cs) => TableSound(alerts', cs)
<1> DEFINE n == Len(alerts)
           w(a) == [alerts[a] EXCEPT !.status = status, !.active = FALSE]
<1>1. /\ alerts \in Seq(AlertRows) /\ n \in Nat /\ n <= MaxAlerts /\ DOMAIN alerts = 1..n
      /\ \A a \in DOMAIN alerts : alerts[a] \in AlertRows
  BY AlertTypes
<1>2. ASSUME NEW a \in DOMAIN alerts
      PROVE  w(a) \in AlertRows /\ w(a).code = alerts[a].code /\ (w(a).active = TRUE) = FALSE
  <2>1. alerts[a] \in AlertRows
    BY <1>1
  <2>2. w(a).code = alerts[a].code /\ w(a).active = FALSE
    BY <2>1 DEF AlertRows
  <2>3. w(a) \in AlertRows
    BY <2>1 DEF AlertRows
  <2> QED
    BY <2>2, <2>3
<1>3. DOMAIN alerts' = 1..n /\ \A a \in 1..n :
        alerts'[a] = IF a \in gone THEN w(a) ELSE alerts[a]
  BY <1>1
<1> HIDE DEF w, n
<1>4. alerts' \in [1..n -> AlertRows]
  <2>1. \A a \in 1..n : alerts'[a] \in AlertRows
    BY <1>1, <1>2, <1>3
  <2>2. alerts' = [a \in 1..n |-> alerts'[a]]
    BY <1>1 DEF w
  <2> QED
    BY <2>1, <2>2
<1>5. alerts' \in Seq(AlertRows)
  BY <1>1, <1>4, SeqDef
<1>6. Len(alerts') <= MaxAlerts
  <2>1. Len(alerts') \in Nat /\ 1..Len(alerts') = 1..n
    BY <1>3, <1>5, LenProperties
  <2>2. Len(alerts') = n
    BY <1>1, <2>1, SameUpTo
  <2> QED
    BY <1>1, <2>2
<1>7. RowsStay(alerts, alerts')
  BY <1>1, <1>2, <1>3 DEF RowsStay
<1>8. Active(alerts') = Active(alerts) \ gone
  BY <1>1, <1>2, <1>3 DEF Active
<1>9. ASSUME NEW cs, CrawlsStay(crawls, cs) PROVE TableSound(alerts', cs)
  <2>1. TableSound(alerts, crawls)
    BY DEF AInv
  <2>2. \A a \in Active(alerts') : alerts'[a] = alerts[a]
    BY <1>1, <1>3, <1>8 DEF Active
  <2>3. \A a \in Active(alerts') : /\ alerts'[a].code = alerts[a].code
                                   /\ alerts'[a].crawl = alerts[a].crawl
                                   /\ alerts'[a].status \in {"DETECTED", "ACKNOWLEDGED"}
    BY <1>8, <2>1, <2>2 DEF TableSound
  <2> QED
    BY <1>8, <1>9, <2>1, <2>3, TableNarrows
<1> QED
  BY <1>1, <1>3, <1>5, <1>7, <1>8, <1>9, <1>6

LEMMA AResolveStale ==
  ASSUME AInv, NEW d \in Detectors, ResolveStale(d)
  PROVE  AInv'
<1> DEFINE x == detection[d]
           y == [x EXCEPT !.step = "done"]
<1>1. x.step = "resolve" /\ x.step \in Working
  BY DEF ResolveStale, Working
<1>2. /\ x \in DetectionType /\ HandsSound(alerts, crawls, x) /\ DOMAIN detection = Detectors
      /\ AloneSound(alerts, crawls, closed[d], x) /\ x.crawl \in DOMAIN crawls
  BY <1>1, WorkHolds
<1>3. UNCHANGED <<crawls, click, begun, clicks, closed>>
  BY DEF ResolveStale
<1>4. CASE Fail(d) /\ UNCHANGED alerts
  BY <1>1, <1>3, <1>4, AFail
<1>5. CASE /\ alerts' = [a \in DOMAIN alerts |-> IF a \in x.stale
                           THEN [alerts[a] EXCEPT !.status = "RESOLVED", !.active = FALSE]
                           ELSE alerts[a]]
           /\ detection' = [detection EXCEPT ![d].step = "done"]
  <2>1. x.stale \subseteq DOMAIN alerts
       /\ \A a \in x.stale : alerts[a].code \notin HighImpact(crawls[x.crawl])
    BY <1>1, <1>2 DEF HandsSound
  <2>2. CrawlsStay(crawls, crawls)
    BY DEF CrawlsStay
  <2>3. /\ alerts' \in Seq(AlertRows) /\ Len(alerts') <= MaxAlerts
        /\ RowsStay(alerts, alerts') /\ Active(alerts') = Active(alerts) \ x.stale
        /\ TableSound(alerts', crawls)
    BY <1>5, <2>1, <2>2, RowsClose
  <2>4. y \in DetectionType /\ y.step = "done" /\ y.alone = x.alone /\ y.crawl = x.crawl
    BY <1>2 DEF DetectionType
  <2>5. detection' = [detection EXCEPT ![d] = y]
    BY <1>5
  <2> HIDE DEF y
  <2>6. HandsSound(alerts', crawls, y)
    BY <1>2, <2>4 DEF HandsSound
  <2>7. AloneSound(alerts', crawls, closed[d], y)
    <3> SUFFICES ASSUME y.alone = TRUE
                 PROVE  AloneSound(alerts', crawls, closed[d], y)
      BY DEF AloneSound
    <3>1. /\ HighImpact(crawls[x.crawl]) \subseteq Current(alerts) \cup closed[d]
          /\ \A a \in Active(alerts) :
               alerts[a].code \notin HighImpact(crawls[x.crawl]) => a \in x.stale
      BY <1>1, <1>2, <2>4 DEF AloneSound, Ahead
    <3>2. \A a \in Active(alerts) : alerts'[a].code = alerts[a].code
      BY <2>3 DEF Active, RowsStay
    <3>3. Current(alerts') \subseteq HighImpact(crawls[x.crawl])
      BY <2>3, <3>1, <3>2 DEF Current
    <3>4. \A a \in Active(alerts) : alerts[a].code \in HighImpact(crawls[x.crawl]) =>
            a \in Active(alerts')
      BY <2>1, <2>3
    <3>5. \A c \in HighImpact(crawls[x.crawl]) : c \in Current(alerts) => c \in Current(alerts')
      BY <3>2, <3>4 DEF Current
    <3>6. HighImpact(crawls[y.crawl]) \subseteq Current(alerts') \cup closed[d] \cup Ahead(y)
      BY <2>4, <3>1, <3>5
    <3> QED
      BY <2>4, <3>3, <3>6 DEF AloneSound
  <2>8. (y.alone = TRUE => x.alone = TRUE) /\ y.step \in Working \cup {"done", "failed"}
    BY <2>4
  <2> QED
    BY <1>1, <1>3, <2>3, <2>4, <2>5, <2>6, <2>7, <2>8, WorkMoves
<1> QED
  BY <1>4, <1>5 DEF ResolveStale

LEMMA ADetect ==
  ASSUME AInv, NEW d \in Detectors, NEW c \in 1..MaxCrawls, Detect(d, c)
  PROVE  AInv'
<1> DEFINE quiet == \A e \in Detectors \ {d} : detection[e].step \in {"rest", "done", "failed"}
           y == [Resting EXCEPT !.step = "raise", !.crawl = c, !.alone = quiet,
                                !.codes = HighImpact(crawls[c])]
           z(e) == IF detection[e].step \in {"done", "failed"} THEN Resting
                   ELSE [detection[e] EXCEPT !.alone = FALSE]
<1>1. /\ c \in DOMAIN crawls /\ UNCHANGED <<crawls, alerts, click, clicks>>
      /\ begun < MaxDetections /\ begun' = begun + 1
      /\ closed' = [e \in Detectors |-> IF e = d THEN {} ELSE closed[e]]
  BY DEF Detect
<1>2. detection' = [e \in Detectors |-> IF e = d THEN y ELSE z(e)]
  BY DEF Detect
<1>3. /\ detection \in [Detectors -> DetectionType] /\ closed \in [Detectors -> SUBSET Codes]
      /\ alerts \in Seq(AlertRows) /\ crawls \in Seq(Sites)
  BY AlertTypes
<1>4. /\ y.step = "raise" /\ y.crawl = c /\ y.codes = HighImpact(crawls[c]) /\ y.row = Nobody
      /\ y.code = Nobody /\ y.stale = {}
  BY DEF Resting
<1>5. y.alone = quiet
  BY Zenon DEF Resting
<1>6. y \in DetectionType
  <2>1. quiet \in BOOLEAN
    OBVIOUS
  <2>2. HighImpact(crawls[c]) \subseteq Codes
    BY DEF HighImpact
  <2>3. c \in 0..MaxCrawls
    BY AlertTypes
  <2> HIDE DEF quiet
  <2> QED
    BY <2>1, <2>2, <2>3 DEF DetectionType, Resting
<1>7. Resting \in DetectionType
  BY AlertTypes DEF DetectionType, Resting
<1>8. ASSUME NEW e \in Detectors
      PROVE  /\ z(e) \in DetectionType
             /\ z(e).alone = FALSE
             /\ HandsSound(alerts, crawls, z(e))
             /\ z(e).step \in Working => detection[e].step \in Working
  <2>1. CASE detection[e].step \in {"done", "failed"}
    <3>1. z(e) = Resting
      BY <2>1
    <3>2. Resting.step = "rest" /\ Resting.alone = FALSE
      BY DEF Resting
    <3>3. HandsSound(alerts, crawls, Resting)
      BY <3>2 DEF HandsSound
    <3> QED
      BY <1>7, <3>1, <3>2, <3>3 DEF Working
  <2>2. CASE detection[e].step \notin {"done", "failed"}
    <3> DEFINE v == [detection[e] EXCEPT !.alone = FALSE]
    <3>1. z(e) = v
      BY <2>2
    <3>2. detection[e] \in DetectionType
      BY <1>3
    <3>3. /\ v.step = detection[e].step /\ v.crawl = detection[e].crawl
          /\ v.codes = detection[e].codes /\ v.code = detection[e].code
          /\ v.row = detection[e].row /\ v.stale = detection[e].stale /\ v.alone = FALSE
      BY <3>2 DEF DetectionType
    <3>4. v \in DetectionType
      BY <3>2 DEF DetectionType
    <3>5. HandsSound(alerts, crawls, detection[e])
      BY DEF AInv
    <3> HIDE DEF v
    <3>6. HandsSound(alerts, crawls, v)
      BY <3>3, <3>5 DEF HandsSound
    <3> QED
      BY <3>1, <3>3, <3>4, <3>6
  <2> QED
    BY <2>1, <2>2
<1>9. quiet => \A e \in Detectors \ {d} : z(e).step \notin Working
  BY <1>8 DEF Working
<1>10. HandsSound(alerts, crawls, y)
  BY <1>1, <1>4 DEF HandsSound
<1>11. AloneSound(alerts, crawls, {}, y)
  BY <1>4 DEF AloneSound, Ahead
<1>12. \A e \in Detectors : e # d => AloneSound(alerts, crawls, closed[e], z(e))
  BY <1>8, Zenon DEF AloneSound
<1> HIDE DEF y, z
<1>13. /\ detection'[d] = y /\ closed'[d] = {}
       /\ \A e \in Detectors \ {d} : detection'[e] = z(e) /\ closed'[e] = closed[e]
  BY <1>1, <1>2
<1>14. detection' \in [Detectors -> DetectionType]
  BY <1>2, <1>6, <1>8
<1>15. closed' \in [Detectors -> SUBSET Codes]
  BY <1>1, <1>3
<1>16. AlertsTypeOK'
  <2>1. begun' \in 0..MaxDetections
    <3>1. begun \in 0..MaxDetections /\ MaxDetections \in Nat
      BY AlertsAssumption DEF AInv, AlertsTypeOK
    <3> QED
      BY <1>1, <3>1
  <2> QED
    BY <1>1, <1>14, <1>15, <2>1 DEF AInv, AlertsTypeOK, DetectionType
<1>17. NobodyElse(d)'
  <2> SUFFICES ASSUME y.alone = TRUE
               PROVE  \A e \in Detectors \ {d} : detection'[e].step \notin Working
    BY <1>13 DEF NobodyElse
  <2> QED
    BY <1>5, <1>9, <1>13
<1>18. \A e \in Detectors \ {d} : NobodyElse(e)'
  BY <1>8, <1>13 DEF NobodyElse
<1>19. TableSound(alerts', crawls') /\ ClicksSound'
  BY <1>1 DEF AInv, ClicksSound
<1>20. ASSUME NEW e \in Detectors
       PROVE  /\ HandsSound(alerts', crawls', detection'[e])
              /\ AloneSound(alerts', crawls', closed'[e], detection'[e])
              /\ NobodyElse(e)'
  <2>1. CASE e = d
    BY <1>1, <1>10, <1>11, <1>13, <1>17, <2>1
  <2>2. CASE e # d
    BY <1>1, <1>8, <1>12, <1>13, <1>18, <2>2
  <2> QED
    BY <2>1, <2>2
<1> QED
  BY <1>16, <1>19, <1>20 DEF AInv

-----------------------------------------------------------------------------
(* Alerts: the steps of crawls and users                                    *)

LEMMA ACompleteCrawl ==
  ASSUME AInv, NEW pages \in Sites, CompleteCrawl(pages)
  PROVE  AInv'
<1>1. crawls' = Append(crawls, pages) /\ Len(crawls) < MaxCrawls
  BY DEF CompleteCrawl
<1>2. UNCHANGED <<alerts, detection, click, begun, clicks, closed>>
  BY DEF CompleteCrawl
<1>3. /\ crawls \in Seq(Sites) /\ Len(crawls) \in Nat /\ DOMAIN crawls = 1..Len(crawls)
      /\ MaxCrawls \in Nat /\ alerts \in Seq(AlertRows) /\ Len(alerts) <= MaxAlerts
      /\ closed \in [Detectors -> SUBSET Codes] /\ click \in [Users -> ClickType]
  BY AlertTypes
<1>4. /\ crawls' \in Seq(Sites) /\ Len(crawls') = Len(crawls) + 1
      /\ \A c \in 1..Len(crawls) : crawls'[c] = crawls[c]
      /\ DOMAIN crawls' = 1..(Len(crawls) + 1)
  BY <1>1, <1>3, AppendProperties
<1>5. CrawlsStay(crawls, crawls') /\ Len(crawls') <= MaxCrawls
  BY <1>1, <1>3, <1>4 DEF CrawlsStay
<1>6. RowsStay(alerts, alerts') /\ Active(alerts') = Active(alerts)
  BY <1>2 DEF RowsStay
<1>7. TableSound(alerts', crawls')
  <2>1. TableSound(alerts, crawls)
    BY DEF AInv
  <2>2. \A a \in Active(alerts) : alerts[a].status \in {"DETECTED", "ACKNOWLEDGED"}
    BY <2>1 DEF TableSound
  <2>3. TableSound(alerts, crawls')
    BY <1>5, <2>1, <2>2, TableNarrows
  <2> QED
    BY <1>2, <2>3
<1>8. ClicksSound' /\ clicks' \in 0..MaxClicks
  BY <1>2 DEF AInv, AlertsTypeOK, ClicksSound
<1>9. \A d \in Detectors : detection[d].step # "rest" =>
        /\ closed[d] \subseteq closed'[d]
        /\ \A a \in Active(alerts) : a \in Active(alerts') \/ alerts[a].code \in closed'[d]
  BY <1>2, <1>6
<1> QED
  BY <1>2, <1>3, <1>4, <1>5, <1>6, <1>7, <1>8, <1>9, UserMoves

\* A user's step that leaves the rows as they are
LEMMA UserReads ==
  ASSUME AInv, UNCHANGED <<crawls, alerts, detection, begun, closed>>,
         click' \in [Users -> ClickType], ClicksSound', clicks' \in 0..MaxClicks
  PROVE  AInv'
<1>1. /\ crawls \in Seq(Sites) /\ Len(crawls) <= MaxCrawls
      /\ alerts \in Seq(AlertRows) /\ Len(alerts) <= MaxAlerts
      /\ closed \in [Detectors -> SUBSET Codes]
  BY AlertTypes
<1>2. CrawlsStay(crawls, crawls') /\ RowsStay(alerts, alerts') /\ Active(alerts') = Active(alerts)
  BY DEF CrawlsStay, RowsStay
<1>3. TableSound(alerts', crawls')
  BY DEF AInv
<1>4. \A d \in Detectors : detection[d].step # "rest" =>
        /\ closed[d] \subseteq closed'[d]
        /\ \A a \in Active(alerts) : a \in Active(alerts') \/ alerts[a].code \in closed'[d]
  BY <1>2
<1> QED
  BY <1>1, <1>2, <1>3, <1>4, UserMoves

LEMMA AClicks ==
  ASSUME AInv, NEW u \in Users
  PROVE  /\ NoClick \in ClickType /\ click \in [Users -> ClickType]
         /\ [click EXCEPT ![u] = NoClick] \in [Users -> ClickType]
         /\ click' = [click EXCEPT ![u] = NoClick] /\ UNCHANGED alerts => ClicksSound'
         /\ click' = [click EXCEPT ![u] = NoClick] /\ DOMAIN alerts' = DOMAIN alerts
              => ClicksSound'
         /\ click[u] # NoClick => click[u].row \in DOMAIN alerts
         /\ clicks \in 0..MaxClicks /\ MaxClicks \in Nat
<1>1. NoClick \in ClickType
  BY DEF NoClick, ClickType
<1>2. click \in [Users -> ClickType]
  BY AlertTypes
<1>3. ClicksSound /\ clicks \in 0..MaxClicks /\ MaxClicks \in Nat
  BY AlertsAssumption DEF AInv, AlertsTypeOK
<1> QED
  BY <1>1, <1>2, <1>3 DEF ClicksSound

LEMMA AFindScopedAlert ==
  ASSUME AInv, NEW u \in Users, NEW a \in 1..MaxAlerts, FindScopedAlert(u, a)
  PROVE  AInv'
<1> DEFINE w == [row |-> a, status |-> alerts[a].status]
<1>1. /\ a \in DOMAIN alerts /\ clicks < MaxClicks /\ clicks' = clicks + 1
      /\ click' = [click EXCEPT ![u] = w]
      /\ UNCHANGED <<crawls, alerts, detection, begun, closed>>
  BY DEF FindScopedAlert
<1>2. alerts[a] \in AlertRows
  BY <1>1, AlertTypes
<1>3. w \in ClickType /\ w.row = a
  BY <1>2 DEF AlertRows, ClickType
<1>4. click \in [Users -> ClickType] /\ clicks \in 0..MaxClicks /\ MaxClicks \in Nat
  BY AClicks
<1> HIDE DEF w
<1>5. click' \in [Users -> ClickType] /\ clicks' \in 0..MaxClicks
  BY <1>1, <1>3, <1>4
<1>6. ClicksSound'
  <2>1. \A v \in Users : click'[v] = IF v = u THEN w ELSE click[v]
    BY <1>1, <1>4
  <2> QED
    BY <1>1, <1>3, <2>1 DEF AInv, ClicksSound
<1> QED
  BY <1>1, <1>5, <1>6, UserReads

LEMMA AAnswerClick ==
  ASSUME AInv, NEW u \in Users, AnswerClick(u)
  PROVE  AInv'
<1>1. /\ click' = [click EXCEPT ![u] = NoClick]
      /\ UNCHANGED <<crawls, alerts, detection, begun, clicks, closed>>
  BY DEF AnswerClick
<1> QED
  BY <1>1, AClicks, UserReads

LEMMA AAcknowledgeAlert ==
  ASSUME AInv, NEW u \in Users, AcknowledgeAlert(u)
  PROVE  AInv'
<1> DEFINE a == click[u].row
           w == [alerts[a] EXCEPT !.status = "ACKNOWLEDGED"]
<1>1. /\ click[u] # NoClick /\ alerts' = [alerts EXCEPT ![a] = w]
      /\ click' = [click EXCEPT ![u] = NoClick]
      /\ UNCHANGED <<crawls, detection, begun, clicks, closed>>
  BY DEF AcknowledgeAlert
<1>2. /\ a \in DOMAIN alerts /\ click' \in [Users -> ClickType]
      /\ DOMAIN alerts' = DOMAIN alerts => ClicksSound'
      /\ clicks' \in 0..MaxClicks
  BY <1>1, AClicks
<1>3. /\ alerts \in Seq(AlertRows) /\ Len(alerts) \in Nat /\ Len(alerts) <= MaxAlerts
      /\ DOMAIN alerts = 1..Len(alerts) /\ alerts[a] \in AlertRows
      /\ crawls \in Seq(Sites) /\ Len(crawls) <= MaxCrawls
      /\ closed \in [Detectors -> SUBSET Codes]
  BY <1>2, AlertTypes
<1>4. /\ w \in AlertRows /\ w.code = alerts[a].code /\ w.active = alerts[a].active
      /\ w.status = "ACKNOWLEDGED" /\ w.crawl = alerts[a].crawl
  BY <1>3 DEF AlertRows
<1> HIDE DEF w, a
<1>5. /\ alerts' \in Seq(AlertRows) /\ Len(alerts') = Len(alerts) /\ DOMAIN alerts' = DOMAIN alerts
      /\ alerts'[a] = w /\ \A b \in DOMAIN alerts \ {a} : alerts'[b] = alerts[b]
  BY <1>1, <1>2, <1>3, <1>4, ExceptSeq
<1>6. RowsStay(alerts, alerts') /\ Active(alerts') = Active(alerts)
  BY <1>2, <1>4, <1>5 DEF RowsStay, Active
<1>7. CrawlsStay(crawls, crawls')
  BY <1>1 DEF CrawlsStay
<1>8. TableSound(alerts', crawls')
  <2>1. TableSound(alerts, crawls)
    BY DEF AInv
  <2>2. ASSUME NEW b \in Active(alerts')
        PROVE  /\ alerts'[b].code = alerts[b].code /\ alerts'[b].crawl = alerts[b].crawl
               /\ alerts'[b].status \in {"DETECTED", "ACKNOWLEDGED"}
    <3>1. b \in DOMAIN alerts /\ b \in Active(alerts)
      BY <1>6 DEF Active
    <3>2. CASE b = a
      BY <1>4, <1>5, <3>2
    <3>3. CASE b # a
      BY <1>5, <2>1, <3>1, <3>3 DEF TableSound
    <3> QED
      BY <3>2, <3>3
  <2> QED
    BY <1>6, <1>7, <2>1, <2>2, TableNarrows
<1>9. \A d \in Detectors : detection[d].step # "rest" =>
        /\ closed[d] \subseteq closed'[d]
        /\ \A b \in Active(alerts) : b \in Active(alerts') \/ alerts[b].code \in closed'[d]
  BY <1>1, <1>6
<1> QED
  BY <1>1, <1>2, <1>3, <1>5, <1>6, <1>7, <1>8, <1>9, UserMoves

LEMMA ACloseAlert ==
  ASSUME AInv, NEW u \in Users, NEW status \in {"RESOLVED", "DISMISSED"}, CloseAlert(u, status)
  PROVE  AInv'
<1> DEFINE a == click[u].row
           w == [alerts[a] EXCEPT !.status = status, !.active = FALSE]
<1>1. /\ click[u] # NoClick /\ alerts' = [alerts EXCEPT ![a] = w]
      /\ click' = [click EXCEPT ![u] = NoClick]
      /\ UNCHANGED <<crawls, detection, begun, clicks>>
  BY DEF CloseAlert
<1>2. closed' = [d \in Detectors |-> IF detection[d].step = "rest" THEN {}
                                     ELSE closed[d] \cup {alerts[a].code}]
  BY DEF CloseAlert, NoteClosed
<1>3. /\ a \in DOMAIN alerts /\ click' \in [Users -> ClickType]
      /\ DOMAIN alerts' = DOMAIN alerts => ClicksSound'
      /\ clicks' \in 0..MaxClicks
  BY <1>1, AClicks
<1>4. /\ alerts[a] \in AlertRows /\ crawls \in Seq(Sites) /\ Len(crawls) <= MaxCrawls
      /\ closed \in [Detectors -> SUBSET Codes]
  BY <1>3, AlertTypes
<1>5. alerts' = [b \in DOMAIN alerts |-> IF b \in {a}
                   THEN [alerts[b] EXCEPT !.status = status, !.active = FALSE]
                   ELSE alerts[b]]
  BY <1>1
<1>6. CrawlsStay(crawls, crawls') /\ CrawlsStay(crawls, crawls)
  BY <1>1 DEF CrawlsStay
<1>7. {a} \in SUBSET DOMAIN alerts
  BY <1>3
<1> HIDE DEF w, a
<1>8. /\ alerts' \in Seq(AlertRows) /\ Len(alerts') <= MaxAlerts /\ DOMAIN alerts' = DOMAIN alerts
      /\ RowsStay(alerts, alerts') /\ Active(alerts') = Active(alerts) \ {a}
      /\ TableSound(alerts', crawls)
  BY <1>5, <1>6, <1>7, RowsClose
<1>9. closed' \in [Detectors -> SUBSET Codes]
  BY <1>2, <1>4 DEF AlertRows
<1>10. \A d \in Detectors : detection[d].step # "rest" =>
         /\ closed[d] \subseteq closed'[d]
         /\ \A b \in Active(alerts) : b \in Active(alerts') \/ alerts[b].code \in closed'[d]
  BY <1>2, <1>8
<1>11. TableSound(alerts', crawls') /\ Active(alerts') \subseteq Active(alerts)
       /\ crawls' = crawls
  BY <1>1, <1>8
<1> QED
  BY <1>1, <1>3, <1>4, <1>6, <1>8, <1>9, <1>10, <1>11, UserMoves

LEMMA InitAInv == InitAlerts => AInv
<1> SUFFICES ASSUME InitAlerts PROVE AInv
  OBVIOUS
<1> USE DEF InitAlerts
<1>1. Resting \in DetectionType /\ Resting.step = "rest"
  BY AlertsAssumption DEF Resting, DetectionType
<1>2. NoClick \in ClickType
  BY DEF NoClick, ClickType
<1>3. DOMAIN alerts = {} /\ Active(alerts) = {}
  BY DEF Active
<1>4. /\ crawls \in Seq(Sites) /\ alerts \in Seq(AlertRows)
      /\ Len(crawls) <= MaxCrawls /\ Len(alerts) <= MaxAlerts
      /\ begun \in 0..MaxDetections /\ clicks \in 0..MaxClicks
  BY AlertsAssumption, EmptySeq
<1>5. AlertsTypeOK
  BY <1>1, <1>2, <1>4 DEF AlertsTypeOK, DetectionType, ClickType
<1>6. TableSound(alerts, crawls) /\ ClicksSound
  BY <1>3 DEF TableSound, ClicksSound
<1>7. ASSUME NEW d \in Detectors
      PROVE  /\ HandsSound(alerts, crawls, detection[d])
             /\ AloneSound(alerts, crawls, closed[d], detection[d])
             /\ NobodyElse(d)
  <2>1. detection[d].step = "rest"
    BY <1>1
  <2> QED
    BY <2>1 DEF HandsSound, AloneSound, NobodyElse, Working
<1> QED
  BY <1>5, <1>6, <1>7 DEF AInv

\* Every step keeps the invariant.
LEMMA StepAInv == AInv /\ [NextAlerts]_alertVars => AInv'
<1> SUFFICES ASSUME AInv, [NextAlerts]_alertVars PROVE AInv'
  OBVIOUS
<1>1. CASE UNCHANGED alertVars
  BY <1>1 DEF alertVars, AInv, AlertsTypeOK, ClicksSound, NobodyElse
<1>2. CASE NextAlerts
  BY <1>2, ACompleteCrawl, ADetect, ALookForAlert, AUpdateAlert, AInsertAlert, AInsertRefused,
     ALookAgain, AListStale, AResolveStale, AFindScopedAlert, AAnswerClick,
     AAcknowledgeAlert, ACloseAlert DEF NextAlerts
<1> QED
  BY <1>1, <1>2

-----------------------------------------------------------------------------
(* Alerts: the theorems                                                     *)

\* The inductive invariant of the alerts holds throughout.
THEOREM AlertsInv == SpecAlerts => []AInv
BY InitAInv, StepAInv, PTL DEF SpecAlerts

\* Types of the rows, of the detections and of the requests, for any crawls,
\* detections and users.
THEOREM AlertsTyped == SpecAlerts => []AlertsTypeOK
<1>1. AInv => AlertsTypeOK
  BY DEF AInv
<1> QED
  BY <1>1, AlertsInv, PTL

\* When a detection that no other overlapped has ended, the active alerts are those
\* of its crawl, except where a user closed one: whatever the crawls find, however
\* often rows are refused, and whatever users do in between.
THEOREM QuietDetection == SpecAlerts => []QuietDetectionAgrees
<1>1. AInv => QuietDetectionAgrees
  <2> SUFFICES ASSUME AInv, NEW d \in Detectors,
                      detection[d].step = "done", detection[d].alone = TRUE
               PROVE  LET current == {alerts[a].code : a \in ActiveRows}
                          said == HighImpact(crawls[detection[d].crawl])
                      IN current \subseteq said /\ said \subseteq current \cup closed[d]
    BY Zenon DEF QuietDetectionAgrees
  <2>1. AloneSound(alerts, crawls, closed[d], detection[d])
    BY DEF AInv
  <2>2. Current(alerts) = {alerts[a].code : a \in ActiveRows}
    BY ActiveIs DEF Current
  <2> QED
    BY <2>1, <2>2 DEF AloneSound, Ahead
<1> QED
  BY <1>1, AlertsInv, PTL

\* One alert per key is open, whichever detections raise it together, with evidence
\* of a crawl that had the issue at high impact.
THEOREM OpenAlerts == SpecAlerts => []OpenAlertIsEvident
<1>1. AInv => OpenAlertIsEvident
  <2> SUFFICES ASSUME AInv PROVE OpenAlertIsEvident
    OBVIOUS
  <2>1. TableSound(alerts, crawls) /\ ActiveRows = Active(alerts)
    BY ActiveIs DEF AInv
  <2> QED
    BY <2>1 DEF TableSound, OpenAlertIsEvident
<1> QED
  BY <1>1, AlertsInv, PTL
-----------------------------------------------------------------------------
(* Team: the inductive invariant, TeamTypeOK and two groups.                 *)

InviteType == [email : People, role : Roles, status : InviteStatus, sent : BOOLEAN]
SeatType(ids) == [id : 0..ids, role : Roles \cup {"OWNER"}]
TeamRequestType(ids) ==
  [step : TeamSteps, who : People, role : Roles, invite : 0..MaxInvites, id : 0..ids,
   members : Nat \cup {Uncounted}, pending : Nat \cup {Uncounted}]

\* An invitation that is still open has admitted nobody.
OpenIsUnused == \A i \in DOMAIN invites : invites[i].status = "pending" => admitted[i] = 0

\* The invitation in a request's hands exists.
InviteInHand(x, rows) ==
  x.step \in {"send", "member", "account", "mark", "admit"} => x.invite \in DOMAIN rows

\* What a request has read is so: its counts of m members and p open invitations, that
\* a seat is free, that its invitation is open.
StillTrue(x, rows, m, p) ==
  /\ x.step = "count" => x.members \in {Uncounted, m} /\ x.pending \in {Uncounted, p}
  /\ x.step \in {"double", "insert"} => m + p < Seats
  /\ x.step \in {"member", "account", "mark", "admit"} => rows[x.invite].status = "pending"

\* Nothing that a request has read can have changed unless another overlapped it.
ReadStillTrue(q) ==
  /\ InviteInHand(teamRequest[q], invites)
  /\ q \notin overlapped => StillTrue(teamRequest[q], invites, Cardinality(Members),
                                      Cardinality(PendingInvites))

TInv == TeamTypeOK /\ OpenIsUnused /\ \A q \in TeamRequests : ReadStillTrue(q)

-----------------------------------------------------------------------------
(* Team: what the steps share                                               *)

LEMMA TeamTypes ==
  ASSUME TInv
  PROVE  /\ accounts \subseteq People /\ seat \in [People -> SeatType(seatIds)]
         /\ invites \in Seq(InviteType) /\ Len(invites) \in Nat /\ Len(invites) <= MaxInvites
         /\ DOMAIN invites = 1..Len(invites)
         /\ \A i \in DOMAIN invites : i \in 0..MaxInvites /\ invites[i] \in InviteType
         /\ teamRequest \in [TeamRequests -> TeamRequestType(seatIds)]
         /\ seatIds \in Nat \ {0} /\ teamBegun \in 0..MaxTeamRequests
         /\ admitted \in Seq(Nat) /\ Len(admitted) = Len(invites)
         /\ DOMAIN admitted = DOMAIN invites /\ \A i \in DOMAIN admitted : admitted[i] \in Nat
         /\ overlapped \subseteq TeamRequests
         /\ MaxInvites \in Nat /\ MaxTeamRequests \in Nat /\ Seats \in Nat
<1>1. /\ accounts \subseteq People /\ seat \in [People -> SeatType(seatIds)]
      /\ invites \in Seq(InviteType) /\ Len(invites) <= MaxInvites
      /\ teamRequest \in [TeamRequests -> TeamRequestType(seatIds)]
      /\ seatIds \in Nat \ {0} /\ teamBegun \in 0..MaxTeamRequests
      /\ admitted \in Seq(Nat) /\ Len(admitted) = Len(invites)
      /\ overlapped \subseteq TeamRequests
  BY DEF TInv, TeamTypeOK, SeatType, InviteType, TeamRequestType
<1>2. MaxInvites \in Nat /\ MaxTeamRequests \in Nat /\ Seats \in Nat
  BY TeamAssumption
<1>3. /\ Len(invites) \in Nat /\ DOMAIN invites = 1..Len(invites)
      /\ DOMAIN admitted = DOMAIN invites
  BY <1>1, LenProperties
<1>4. \A i \in DOMAIN invites : i \in 0..MaxInvites /\ invites[i] \in InviteType
  BY <1>1, <1>2, <1>3, ElementOfSeq
<1>5. \A i \in DOMAIN admitted : admitted[i] \in Nat
  BY <1>1, LenProperties, ElementOfSeq
<1> QED
  BY <1>1, <1>2, <1>3, <1>4, <1>5

LEMMA FreeType == ASSUME NEW ids \in Nat PROVE Free \in TeamRequestType(ids) /\ Free.step = "free"
BY TeamAssumption DEF Free, TeamRequestType, Roles, TeamSteps

\* Fewer people or fewer open invitations take fewer seats.
LEMMA CountsFinite ==
  ASSUME TInv
  PROVE  /\ IsFiniteSet(Members) /\ Cardinality(Members) \in Nat
         /\ IsFiniteSet(PendingInvites) /\ Cardinality(PendingInvites) \in Nat
         /\ Taken \in Nat
<1>1. Members \subseteq People /\ IsFiniteSet(People)
  BY TeamAssumption DEF Members
<1>2. IsFiniteSet(Members)
  BY <1>1, FS_Subset
<1>3. PendingInvites \subseteq 1..Len(invites)
  BY TeamTypes DEF PendingInvites
<1>4. IsFiniteSet(1..Len(invites))
  BY TeamTypes, FS_Interval
<1>5. IsFiniteSet(PendingInvites)
  BY <1>3, <1>4, FS_Subset
<1> QED
  BY <1>2, <1>5, FS_CardinalityType DEF Taken

\* A step that only a request takes notice of, which may begin with it: overlapped may
\* lose that request.
LEMMA RequestReads ==
  ASSUME TInv, NEW q \in TeamRequests, NEW y \in TeamRequestType(seatIds),
         teamRequest' = [teamRequest EXCEPT ![q] = y],
         UNCHANGED <<accounts, seat, invites, seatIds, admitted>>,
         teamBegun' \in 0..MaxTeamRequests, overlapped' \in {overlapped, overlapped \ {q}},
         InviteInHand(y, invites),
         q \notin overlapped' =>
           StillTrue(y, invites, Cardinality(Members), Cardinality(PendingInvites))
  PROVE  TInv'
<1>1. /\ teamRequest \in [TeamRequests -> TeamRequestType(seatIds)]
      /\ overlapped \subseteq TeamRequests
  BY TeamTypes
<1>2. teamRequest' \in [TeamRequests -> TeamRequestType(seatIds)] /\ overlapped' \subseteq TeamRequests
  BY <1>1
<1>3. TeamTypeOK'
  BY <1>2 DEF TInv, TeamTypeOK, TeamRequestType
<1>4. OpenIsUnused'
  BY DEF TInv, OpenIsUnused
<1>5. Members' = Members /\ PendingInvites' = PendingInvites
  BY DEF Members, PendingInvites, Pending
<1>6. ASSUME NEW o \in TeamRequests PROVE ReadStillTrue(o)'
  <2>1. CASE o = q
    <3>1. teamRequest'[o] = y
      BY <1>1, <2>1
    <3> QED
      BY <1>5, <2>1, <3>1 DEF ReadStillTrue
  <2>2. CASE o # q
    <3>1. teamRequest'[o] = teamRequest[o] /\ (o \notin overlapped' => o \notin overlapped)
      BY <1>1, <2>2
    <3>2. ReadStillTrue(o)
      BY DEF TInv
    <3> QED
      BY <1>5, <3>1, <3>2 DEF ReadStillTrue
  <2> QED
    BY <2>1, <2>2
<1> QED
  BY <1>3, <1>4, <1>6 DEF TInv

\* A change of seats or invitations: every other request under way is overlapped.  one
\* is the request that changes them, if any does.
LEMMA RequestDisturbs ==
  ASSUME TInv, NEW one \in SUBSET TeamRequests,
         accounts' \subseteq People, seatIds' \in Nat \ {0}, seatIds <= seatIds',
         seat' \in [People -> SeatType(seatIds')],
         invites' \in Seq(InviteType), Len(invites') <= MaxInvites,
         DOMAIN invites \subseteq DOMAIN invites',
         admitted' \in Seq(Nat), Len(admitted') = Len(invites'), OpenIsUnused',
         teamBegun' = teamBegun,
         teamRequest' \in [TeamRequests -> TeamRequestType(seatIds')],
         \A o \in TeamRequests \ one : teamRequest'[o] = teamRequest[o],
         overlapped' = {o \in TeamRequests \ one : teamRequest[o] # Free},
         \A q \in one : /\ teamRequest'[q].step \in {"free", "send"}
                        /\ InviteInHand(teamRequest'[q], invites')
  PROVE  TInv'
<1>1. TeamTypeOK'
  BY DEF TInv, TeamTypeOK, SeatType, InviteType, TeamRequestType
<1>2. ASSUME NEW o \in TeamRequests PROVE ReadStillTrue(o)'
  <2>1. CASE o \in one
    BY <2>1 DEF ReadStillTrue, StillTrue
  <2>2. CASE o \notin one /\ teamRequest[o] = Free
    BY <2>2 DEF ReadStillTrue, StillTrue, InviteInHand, Free
  <2>3. CASE o \notin one /\ teamRequest[o] # Free
    <3>1. InviteInHand(teamRequest[o], invites)
      BY DEF TInv, ReadStillTrue
    <3> QED
      BY <2>3, <3>1 DEF ReadStillTrue, InviteInHand
  <2> QED
    BY <2>1, <2>2, <2>3
<1> QED
  BY <1>1, <1>2 DEF TInv

\* A request that has been answered
LEMMA Answered ==
  ASSUME TInv, NEW q \in TeamRequests, Answer(q), seatIds' \in Nat, seatIds <= seatIds'
  PROVE  /\ teamRequest' \in [TeamRequests -> TeamRequestType(seatIds')]
         /\ \A o \in TeamRequests \ {q} : teamRequest'[o] = teamRequest[o]
         /\ teamRequest'[q] = Free
<1>1. teamRequest \in [TeamRequests -> TeamRequestType(seatIds)] /\ seatIds \in Nat
  BY TeamTypes
<1>2. Free \in TeamRequestType(seatIds') /\ 0..seatIds \subseteq 0..seatIds'
  BY <1>1, FreeType
<1>3. \A o \in TeamRequests : teamRequest[o] \in TeamRequestType(seatIds')
  BY <1>1, <1>2 DEF TeamRequestType
<1> QED
  BY <1>1, <1>2, <1>3 DEF Answer

\* An answer that changes nothing else
LEMMA OnlyAnswered ==
  ASSUME TInv, NEW q \in TeamRequests, Answer(q),
         UNCHANGED <<accounts, seat, invites, seatIds, teamBegun, admitted, overlapped>>
  PROVE  TInv'
<1>1. Free \in TeamRequestType(seatIds) /\ teamBegun' \in 0..MaxTeamRequests
  BY TeamTypes, FreeType
<1>2. /\ InviteInHand(Free, invites)
      /\ StillTrue(Free, invites, Cardinality(Members), Cardinality(PendingInvites))
  BY DEF Free, InviteInHand, StillTrue
<1> QED
  BY <1>1, <1>2, RequestReads DEF Answer

-----------------------------------------------------------------------------
(* Team: the steps that only read                                           *)

LEMMA TBeginInvite ==
  ASSUME TInv, NEW q \in TeamRequests, NEW p \in People, NEW email \in People,
         NEW role \in Roles, BeginInvite(q, p, email, role)
  PROVE  TInv'
<1> DEFINE x == teamRequest[q]
           y == [x EXCEPT !.step = "count", !.who = email, !.role = role]
<1>1. x = Free /\ teamBegun < MaxTeamRequests /\ teamBegun' = teamBegun + 1
      /\ overlapped' = overlapped \ {q}
  BY DEF BeginInvite, BeginTeam
<1>2. teamRequest' = [teamRequest EXCEPT ![q] = y]
  BY DEF BeginInvite
<1>3. UNCHANGED <<accounts, seat, invites, seatIds, admitted>>
  BY DEF BeginInvite
<1>4. /\ x \in TeamRequestType(seatIds) /\ teamBegun \in 0..MaxTeamRequests
      /\ MaxTeamRequests \in Nat
  BY TeamTypes
<1>5. /\ y \in TeamRequestType(seatIds) /\ y.step = "count" /\ y.members = Uncounted
      /\ y.pending = Uncounted
  <2>1. x.members = Uncounted /\ x.pending = Uncounted
    BY <1>1 DEF Free
  <2>2. y.step = "count" /\ y.members = x.members /\ y.pending = x.pending
    BY <1>4 DEF TeamRequestType
  <2>3. y \in TeamRequestType(seatIds)
    BY <1>4 DEF TeamRequestType, TeamSteps
  <2> QED
    BY <2>1, <2>2, <2>3
<1> HIDE DEF y
<1>6. InviteInHand(y, invites)
  BY <1>5 DEF InviteInHand
<1>7. StillTrue(y, invites, Cardinality(Members), Cardinality(PendingInvites))
  BY <1>5 DEF StillTrue
<1>8. teamBegun' \in 0..MaxTeamRequests
  BY <1>1, <1>4
<1> QED
  BY <1>1, <1>2, <1>3, <1>5, <1>6, <1>7, <1>8, RequestReads

LEMMA TBeginManage ==
  ASSUME TInv, NEW q \in TeamRequests, NEW p \in People, NEW id \in 1..seatIds,
         NEW role \in Roles, BeginManage(q, p, id, role)
  PROVE  TInv'
<1> DEFINE x == teamRequest[q]
           y == [x EXCEPT !.step = "manage", !.id = id, !.role = role]
<1>1. x = Free /\ teamBegun < MaxTeamRequests /\ teamBegun' = teamBegun + 1
      /\ overlapped' = overlapped \ {q}
  BY DEF BeginManage, BeginTeam
<1>2. teamRequest' = [teamRequest EXCEPT ![q] = y]
  BY DEF BeginManage
<1>3. UNCHANGED <<accounts, seat, invites, seatIds, admitted>>
  BY DEF BeginManage
<1>4. /\ x \in TeamRequestType(seatIds) /\ teamBegun \in 0..MaxTeamRequests
      /\ MaxTeamRequests \in Nat /\ seatIds \in Nat
  BY TeamTypes
<1>5. id \in 0..seatIds
  BY <1>4
<1>6. y \in TeamRequestType(seatIds) /\ y.step = "manage"
  BY <1>4, <1>5 DEF TeamRequestType, TeamSteps
<1> HIDE DEF y
<1>7. InviteInHand(y, invites)
  BY <1>6 DEF InviteInHand
<1>8. StillTrue(y, invites, Cardinality(Members), Cardinality(PendingInvites))
  BY <1>6 DEF StillTrue
<1>9. teamBegun' \in 0..MaxTeamRequests
  BY <1>1, <1>4
<1> QED
  BY <1>1, <1>2, <1>3, <1>6, <1>7, <1>8, <1>9, RequestReads

LEMMA TReadInvite ==
  ASSUME TInv, NEW q \in TeamRequests, NEW i \in 1..MaxInvites, ReadInvite(q, i)
  PROVE  TInv'
<1> DEFINE x == teamRequest[q]
           r == invites[i]
           y == [x EXCEPT !.who = r.email, !.invite = i, !.role = r.role,
                          !.step = IF r.email \in accounts THEN "member" ELSE "account"]
<1>1. /\ teamBegun < MaxTeamRequests /\ teamBegun' = teamBegun + 1
      /\ overlapped' = overlapped \ {q}
  BY DEF ReadInvite, BeginTeam
<1>2. teamRequest' = [teamRequest EXCEPT ![q] = y]
  BY DEF ReadInvite
<1>3. UNCHANGED <<accounts, seat, invites, seatIds, admitted>>
  BY DEF ReadInvite
<1>4. i \in DOMAIN invites /\ r.status = "pending"
  BY DEF ReadInvite, Usable
<1>5. /\ x \in TeamRequestType(seatIds) /\ r \in InviteType /\ i \in 0..MaxInvites
      /\ teamBegun \in 0..MaxTeamRequests /\ MaxTeamRequests \in Nat
  BY <1>4, TeamTypes
<1>6. r.email \in People /\ r.role \in Roles
  BY <1>5 DEF InviteType
<1> HIDE DEF r
<1>7. y.step \in {"member", "account"} /\ y.invite = i
  BY <1>5 DEF TeamRequestType
<1>8. y \in TeamRequestType(seatIds)
  BY <1>5, <1>6 DEF TeamRequestType, TeamSteps
<1> HIDE DEF y
<1>9. InviteInHand(y, invites)
  BY <1>4, <1>7 DEF InviteInHand
<1>10. StillTrue(y, invites, Cardinality(Members), Cardinality(PendingInvites))
  BY <1>4, <1>7 DEF StillTrue, r
<1>11. teamBegun' \in 0..MaxTeamRequests
  BY <1>1, <1>5
<1> QED
  BY <1>1, <1>2, <1>3, <1>8, <1>9, <1>10, <1>11, RequestReads

LEMMA TCountMembers ==
  ASSUME TInv, NEW q \in TeamRequests, CountMembers(q)
  PROVE  TInv'
<1> DEFINE x == teamRequest[q]
           m == Cardinality(Members)
           y == [x EXCEPT !.members = m]
<1>1. x.step = "count" /\ teamRequest' = [teamRequest EXCEPT ![q] = y]
  BY DEF CountMembers
<1>2. UNCHANGED <<accounts, seat, invites, seatIds, teamBegun, admitted, overlapped>>
  BY DEF CountMembers
<1>3. /\ x \in TeamRequestType(seatIds) /\ m \in Nat /\ teamBegun \in 0..MaxTeamRequests
      /\ ReadStillTrue(q)
  BY TeamTypes, CountsFinite DEF TInv
<1> HIDE DEF m
<1>4. y.step = "count" /\ y.members = m /\ y.pending = x.pending
  BY <1>1, <1>3 DEF TeamRequestType
<1>5. y \in TeamRequestType(seatIds)
  BY <1>3 DEF TeamRequestType
<1> HIDE DEF y
<1>6. InviteInHand(y, invites)
  BY <1>4 DEF InviteInHand
<1>7. q \notin overlapped => StillTrue(y, invites, m, Cardinality(PendingInvites))
  BY <1>1, <1>3, <1>4 DEF StillTrue, ReadStillTrue
<1> QED
  BY <1>1, <1>2, <1>3, <1>5, <1>6, <1>7, RequestReads DEF m

LEMMA TCountInvites ==
  ASSUME TInv, NEW q \in TeamRequests, CountInvites(q)
  PROVE  TInv'
<1> DEFINE x == teamRequest[q]
           n == Cardinality(PendingInvites)
           y == [x EXCEPT !.pending = n]
<1>1. x.step = "count" /\ teamRequest' = [teamRequest EXCEPT ![q] = y]
  BY DEF CountInvites
<1>2. UNCHANGED <<accounts, seat, invites, seatIds, teamBegun, admitted, overlapped>>
  BY DEF CountInvites
<1>3. /\ x \in TeamRequestType(seatIds) /\ n \in Nat /\ teamBegun \in 0..MaxTeamRequests
      /\ ReadStillTrue(q)
  BY TeamTypes, CountsFinite DEF TInv
<1> HIDE DEF n
<1>4. y.step = "count" /\ y.pending = n /\ y.members = x.members
  BY <1>1, <1>3 DEF TeamRequestType
<1>5. y \in TeamRequestType(seatIds)
  BY <1>3 DEF TeamRequestType
<1> HIDE DEF y
<1>6. InviteInHand(y, invites)
  BY <1>4 DEF InviteInHand
<1>7. q \notin overlapped => StillTrue(y, invites, Cardinality(Members), n)
  BY <1>1, <1>3, <1>4 DEF StillTrue, ReadStillTrue, n
<1> QED
  BY <1>1, <1>2, <1>3, <1>5, <1>6, <1>7, RequestReads DEF n

LEMMA TEnforceSeats ==
  ASSUME TInv, NEW q \in TeamRequests, EnforceSeats(q)
  PROVE  TInv'
<1> DEFINE x == teamRequest[q]
           y == [x EXCEPT !.step = "double", !.members = Uncounted, !.pending = Uncounted]
<1>1. x.step = "count" /\ x.members # Uncounted /\ x.pending # Uncounted
  BY DEF EnforceSeats
<1>2. UNCHANGED <<accounts, seat, invites, seatIds, teamBegun, admitted, overlapped>>
  BY DEF EnforceSeats
<1>3. CASE Answer(q)
  BY <1>2, <1>3, OnlyAnswered
<1>4. CASE /\ SeatFree(x.members, x.pending)
           /\ teamRequest' = [teamRequest EXCEPT ![q] = y]
  <2>1. /\ x \in TeamRequestType(seatIds) /\ teamBegun \in 0..MaxTeamRequests
        /\ ReadStillTrue(q)
    BY TeamTypes DEF TInv
  <2>2. y \in TeamRequestType(seatIds) /\ y.step = "double"
    BY <2>1 DEF TeamRequestType, TeamSteps
  <2> HIDE DEF y
  <2>3. InviteInHand(y, invites)
    BY <2>2 DEF InviteInHand
  <2>4. q \notin overlapped =>
          StillTrue(y, invites, Cardinality(Members), Cardinality(PendingInvites))
    BY <1>1, <1>4, <2>1, <2>2 DEF StillTrue, ReadStillTrue, SeatFree
  <2> QED
    BY <1>2, <1>4, <2>1, <2>2, <2>3, <2>4, RequestReads
<1> QED
  BY <1>3, <1>4 DEF EnforceSeats

\* The next step of a request whose reads remain what they were
LEMMA TGoesOn ==
  ASSUME TInv, NEW q \in TeamRequests, NEW step \in TeamSteps, GoOn(q, step),
         UNCHANGED <<accounts, seat, invites, seatIds, teamBegun, admitted, overlapped>>,
         \/ teamRequest[q].step = "double" /\ step = "insert"
         \/ teamRequest[q].step = "member" /\ step \in {"mark", "admit"}
  PROVE  TInv'
<1> DEFINE x == teamRequest[q]
           y == [x EXCEPT !.step = step]
<1>1. /\ x \in TeamRequestType(seatIds) /\ teamBegun \in 0..MaxTeamRequests
      /\ ReadStillTrue(q)
  BY TeamTypes DEF TInv
<1>2. y \in TeamRequestType(seatIds) /\ y.step = step /\ y.invite = x.invite
  BY <1>1 DEF TeamRequestType
<1>3. teamRequest' = [teamRequest EXCEPT ![q] = y]
  BY DEF GoOn
<1> HIDE DEF y
<1>4. InviteInHand(y, invites)
  BY <1>1, <1>2 DEF InviteInHand, ReadStillTrue
<1>5. q \notin overlapped =>
        StillTrue(y, invites, Cardinality(Members), Cardinality(PendingInvites))
  BY <1>1, <1>2 DEF StillTrue, ReadStillTrue
<1> QED
  BY <1>1, <1>2, <1>3, <1>4, <1>5, RequestReads

LEMMA TFindOpenInvite ==
  ASSUME TInv, NEW q \in TeamRequests, FindOpenInvite(q)
  PROVE  TInv'
<1>1. /\ teamRequest[q].step = "double"
      /\ UNCHANGED <<accounts, seat, invites, seatIds, teamBegun, admitted, overlapped>>
      /\ Answer(q) \/ GoOn(q, "insert")
  BY DEF FindOpenInvite
<1>2. "insert" \in TeamSteps
  BY DEF TeamSteps
<1> QED
  BY <1>1, <1>2, OnlyAnswered, TGoesOn

LEMMA TFindMembership ==
  ASSUME TInv, NEW q \in TeamRequests, FindMembership(q)
  PROVE  TInv'
<1>1. /\ teamRequest[q].step = "member"
      /\ UNCHANGED <<accounts, seat, invites, seatIds, teamBegun, admitted, overlapped>>
      /\ GoOn(q, "mark") \/ GoOn(q, "admit")
  BY DEF FindMembership
<1>2. "mark" \in TeamSteps /\ "admit" \in TeamSteps
  BY DEF TeamSteps
<1> QED
  BY <1>1, <1>2, TGoesOn

LEMMA TRequestFails ==
  ASSUME TInv, NEW q \in TeamRequests, RequestFails(q)
  PROVE  TInv'
BY OnlyAnswered DEF RequestFails

LEMMA TRegister == ASSUME TInv, NEW p \in People, Register(p) PROVE TInv'
<1>1. accounts' \subseteq People
  BY TeamTypes DEF Register
<1>2. UNCHANGED <<seat, invites, teamRequest, seatIds, teamBegun, admitted, overlapped>>
  BY DEF Register
<1>3. Members' = Members /\ PendingInvites' = PendingInvites
  BY <1>2 DEF Members, PendingInvites, Pending
<1>4. TeamTypeOK'
  BY <1>1, <1>2 DEF TInv, TeamTypeOK
<1>5. OpenIsUnused' /\ \A q \in TeamRequests : ReadStillTrue(q)'
  BY <1>2, <1>3 DEF TInv, OpenIsUnused, ReadStillTrue
<1> QED
  BY <1>4, <1>5 DEF TInv

-----------------------------------------------------------------------------
(* Team: the steps that change seats or invitations                         *)

\* An invitation that is changed in place, and that admitted nobody if it stays open
LEMMA InviteChanges ==
  ASSUME TInv, NEW i \in DOMAIN invites, NEW r \in InviteType,
         r.status = "pending" => invites[i].status = "pending",
         invites' = [invites EXCEPT ![i] = r]
  PROVE  /\ invites' \in Seq(InviteType) /\ Len(invites') = Len(invites)
         /\ DOMAIN invites' = DOMAIN invites
         /\ PendingInvites' \subseteq PendingInvites
         /\ r.status # "pending" => PendingInvites' = PendingInvites \ {i}
         /\ UNCHANGED admitted => OpenIsUnused'
<1>1. invites \in Seq(InviteType)
  BY TeamTypes
<1>2. /\ invites' \in Seq(InviteType) /\ Len(invites') = Len(invites)
      /\ DOMAIN invites' = DOMAIN invites
      /\ invites'[i] = r /\ \A j \in DOMAIN invites \ {i} : invites'[j] = invites[j]
  BY <1>1, ExceptSeq
<1>3. /\ PendingInvites' \subseteq PendingInvites
      /\ r.status # "pending" => PendingInvites' = PendingInvites \ {i}
  BY <1>2 DEF PendingInvites, Pending
<1>4. UNCHANGED admitted => OpenIsUnused'
  BY <1>2 DEF TInv, OpenIsUnused
<1> QED
  BY <1>2, <1>3, <1>4

\* The status of an invitation that leaves pending
LEMMA InviteCloses ==
  ASSUME TInv, NEW i \in DOMAIN invites, NEW status \in {"accepted", "expired", "deleted"},
         invites' = [invites EXCEPT ![i].status = status]
  PROVE  /\ invites' \in Seq(InviteType) /\ Len(invites') = Len(invites)
         /\ DOMAIN invites' = DOMAIN invites
         /\ PendingInvites' = PendingInvites \ {i}
         /\ invites'[i].status = status
         /\ \A j \in DOMAIN invites \ {i} : invites'[j] = invites[j]
         /\ UNCHANGED admitted => OpenIsUnused'
<1> DEFINE r == [invites[i] EXCEPT !.status = status]
<1>1. invites[i] \in InviteType /\ invites \in Seq(InviteType)
  BY TeamTypes
<1>2. r.status = status /\ r.status # "pending"
  BY <1>1 DEF InviteType
<1>3. r \in InviteType
  BY <1>1 DEF InviteType, InviteStatus
<1>4. invites' = [invites EXCEPT ![i] = r]
  OBVIOUS
<1> HIDE DEF r
<1>5. invites'[i] = r /\ \A j \in DOMAIN invites \ {i} : invites'[j] = invites[j]
  BY <1>1, <1>3, <1>4, ExceptSeq
<1> QED
  BY <1>2, <1>3, <1>4, <1>5, InviteChanges

LEMMA TCreateInvite ==
  ASSUME TInv, NEW q \in TeamRequests, CreateInvite(q)
  PROVE  /\ TInv'
         /\ DOMAIN invites' = DOMAIN invites \cup {Len(invites) + 1}
         /\ PendingInvites' = PendingInvites \cup {Len(invites) + 1}
         /\ \A i \in DOMAIN admitted : admitted'[i] = admitted[i]
<1> DEFINE x == teamRequest[q]
           n == Len(invites)
           r == [email |-> x.who, role |-> x.role, status |-> "pending", sent |-> FALSE]
           y == [x EXCEPT !.step = "send", !.invite = n + 1]
<1>1. /\ n < MaxInvites /\ invites' = Append(invites, r) /\ admitted' = Append(admitted, 0)
      /\ teamRequest' = [teamRequest EXCEPT ![q] = y]
      /\ UNCHANGED <<accounts, seat, seatIds, teamBegun>>
  BY DEF CreateInvite
<1>2. overlapped' = {o \in TeamRequests \ {q} : teamRequest[o] # Free}
  BY DEF CreateInvite, Disturb
<1>3. /\ invites \in Seq(InviteType) /\ n \in Nat /\ DOMAIN invites = 1..n
      /\ admitted \in Seq(Nat) /\ Len(admitted) = n /\ DOMAIN admitted = DOMAIN invites
      /\ x \in TeamRequestType(seatIds) /\ MaxInvites \in Nat
      /\ teamRequest \in [TeamRequests -> TeamRequestType(seatIds)]
      /\ accounts \subseteq People /\ seat \in [People -> SeatType(seatIds)]
      /\ seatIds \in Nat \ {0} /\ OpenIsUnused
  BY TeamTypes DEF TInv
<1>4. r \in InviteType /\ r.status = "pending"
  BY <1>3 DEF InviteType, TeamRequestType, InviteStatus
<1> HIDE DEF r, n
<1>5. /\ invites' \in Seq(InviteType) /\ Len(invites') = n + 1 /\ DOMAIN invites' = 1..(n + 1)
      /\ invites'[n + 1] = r /\ \A i \in 1..n : invites'[i] = invites[i]
  BY <1>1, <1>3, <1>4, AppendProperties DEF n
<1>6. /\ admitted' \in Seq(Nat) /\ Len(admitted') = n + 1
      /\ admitted'[n + 1] = 0 /\ \A i \in 1..n : admitted'[i] = admitted[i]
  BY <1>1, <1>3, AppendProperties
<1>7. n + 1 <= MaxInvites /\ n + 1 \in 0..MaxInvites /\ n + 1 \notin 1..n
      /\ 1..(n + 1) = 1..n \cup {n + 1}
  BY <1>1, <1>3
<1>8. PendingInvites' = PendingInvites \cup {n + 1}
  BY <1>3, <1>4, <1>5, <1>7 DEF PendingInvites, Pending
<1>9. OpenIsUnused'
  BY <1>3, <1>5, <1>6, <1>7 DEF OpenIsUnused
<1>10. y.step = "send" /\ y.invite = n + 1
  BY <1>3 DEF TeamRequestType
<1>11. y \in TeamRequestType(seatIds)
  BY <1>3, <1>7 DEF TeamRequestType, TeamSteps
<1> HIDE DEF y
<1>12. /\ teamRequest' \in [TeamRequests -> TeamRequestType(seatIds)]
       /\ teamRequest'[q] = y /\ \A o \in TeamRequests \ {q} : teamRequest'[o] = teamRequest[o]
  BY <1>1, <1>3, <1>11
<1>13. InviteInHand(y, invites')
  BY <1>5, <1>7, <1>10 DEF InviteInHand
<1>14. TInv'
  <2>1. {q} \in SUBSET TeamRequests /\ seatIds' = seatIds /\ seatIds <= seatIds'
    BY <1>1, <1>3
  <2>2. DOMAIN invites \subseteq DOMAIN invites' /\ Len(invites') <= MaxInvites
        /\ Len(admitted') = Len(invites')
    BY <1>3, <1>5, <1>6, <1>7
  <2>3. \A o \in {q} : /\ teamRequest'[o].step \in {"free", "send"}
                       /\ InviteInHand(teamRequest'[o], invites')
    BY <1>10, <1>12, <1>13
  <2> QED
    BY <1>1, <1>2, <1>3, <1>5, <1>6, <1>9, <1>12, <2>1, <2>2, <2>3, RequestDisturbs
<1> QED
  BY <1>3, <1>5, <1>6, <1>7, <1>8, <1>14 DEF n

\* A request changes a seat or an invitation as its last step.
LEMMA LastStep ==
  ASSUME TInv, NEW q \in TeamRequests, Answer(q), Disturb(q),
         accounts' \subseteq People, seatIds' \in Nat \ {0}, seatIds <= seatIds',
         seat' \in [People -> SeatType(seatIds')],
         invites' \in Seq(InviteType), Len(invites') = Len(invites),
         DOMAIN invites' = DOMAIN invites,
         admitted' \in Seq(Nat), Len(admitted') = Len(admitted), OpenIsUnused',
         teamBegun' = teamBegun
  PROVE  TInv'
<1>1. /\ teamRequest' \in [TeamRequests -> TeamRequestType(seatIds')]
      /\ \A o \in TeamRequests \ {q} : teamRequest'[o] = teamRequest[o]
      /\ teamRequest'[q] = Free
  BY Answered
<1>2. \A o \in {q} : /\ teamRequest'[o].step \in {"free", "send"}
                     /\ InviteInHand(teamRequest'[o], invites')
  BY <1>1 DEF Free, InviteInHand
<1>3. overlapped' = {o \in TeamRequests \ {q} : teamRequest[o] # Free}
  BY DEF Disturb
<1>4. Len(invites') <= MaxInvites /\ Len(admitted') = Len(invites')
      /\ {q} \in SUBSET TeamRequests /\ DOMAIN invites \subseteq DOMAIN invites'
  BY TeamTypes
<1> QED
  BY <1>1, <1>2, <1>3, <1>4, RequestDisturbs

LEMMA TSendInvite ==
  ASSUME TInv, NEW q \in TeamRequests, SendInvite(q)
  PROVE  TInv' /\ PendingInvites' \subseteq PendingInvites
<1> DEFINE x == teamRequest[q]
           i == x.invite
<1>1. /\ x.step = "send" /\ Answer(q) /\ Disturb(q)
      /\ UNCHANGED <<accounts, seat, seatIds, teamBegun, admitted>>
      /\ \/ invites' = [invites EXCEPT ![i].sent = TRUE]
         \/ invites' = [invites EXCEPT ![i].status = "deleted"]
  BY DEF SendInvite
<1>2. i \in DOMAIN invites
  BY <1>1 DEF TInv, ReadStillTrue, InviteInHand
<1>3. invites[i] \in InviteType
  BY <1>2, TeamTypes
<1>4. /\ invites' \in Seq(InviteType) /\ Len(invites') = Len(invites)
      /\ DOMAIN invites' = DOMAIN invites
      /\ PendingInvites' \subseteq PendingInvites /\ OpenIsUnused'
  <2>1. CASE invites' = [invites EXCEPT ![i].sent = TRUE]
    <3> DEFINE r == [invites[i] EXCEPT !.sent = TRUE]
    <3>1. r.status = invites[i].status
      BY <1>3 DEF InviteType
    <3>2. r \in InviteType
      BY <1>3 DEF InviteType
    <3>3. invites' = [invites EXCEPT ![i] = r]
      BY <2>1
    <3> HIDE DEF r, i
    <3> QED
      BY <1>1, <1>2, <3>1, <3>2, <3>3, InviteChanges
  <2>2. CASE invites' = [invites EXCEPT ![i].status = "deleted"]
    BY <1>1, <1>2, <2>2, InviteCloses
  <2> QED
    BY <1>1, <2>1, <2>2
<1>5. /\ accounts' \subseteq People /\ seatIds' \in Nat \ {0} /\ seatIds <= seatIds'
      /\ seat' \in [People -> SeatType(seatIds')]
      /\ admitted' \in Seq(Nat) /\ Len(admitted') = Len(admitted)
  BY <1>1, TeamTypes
<1> QED
  BY <1>1, <1>4, <1>5, LastStep

LEMMA TMarkAccepted ==
  ASSUME TInv, NEW q \in TeamRequests, MarkAccepted(q)
  PROVE  TInv' /\ PendingInvites' \subseteq PendingInvites
<1> DEFINE i == teamRequest[q].invite
<1>1. /\ teamRequest[q].step = "mark" /\ Answer(q) /\ Disturb(q)
      /\ UNCHANGED <<accounts, seat, seatIds, teamBegun, admitted>>
      /\ invites' = [invites EXCEPT ![i].status = "accepted"]
  BY DEF MarkAccepted, Accepted
<1>2. i \in DOMAIN invites
  BY <1>1 DEF TInv, ReadStillTrue, InviteInHand
<1>3. /\ invites' \in Seq(InviteType) /\ Len(invites') = Len(invites)
      /\ DOMAIN invites' = DOMAIN invites
      /\ PendingInvites' = PendingInvites \ {i} /\ OpenIsUnused'
  BY <1>1, <1>2, InviteCloses
<1>4. /\ accounts' \subseteq People /\ seatIds' \in Nat \ {0} /\ seatIds <= seatIds'
      /\ seat' \in [People -> SeatType(seatIds')]
      /\ admitted' \in Seq(Nat) /\ Len(admitted') = Len(admitted)
  BY <1>1, TeamTypes
<1> QED
  BY <1>1, <1>3, <1>4, LastStep

LEMMA TExpire ==
  ASSUME TInv, NEW i \in 1..MaxInvites, Expire(i)
  PROVE  TInv' /\ PendingInvites' \subseteq PendingInvites
<1>1. /\ i \in DOMAIN invites /\ invites' = [invites EXCEPT ![i].status = "expired"]
      /\ overlapped' = {o \in TeamRequests : teamRequest[o] # Free}
      /\ UNCHANGED <<accounts, seat, teamRequest, seatIds, teamBegun, admitted>>
  BY DEF Expire, Pending
<1>2. /\ invites' \in Seq(InviteType) /\ Len(invites') = Len(invites)
      /\ DOMAIN invites' = DOMAIN invites
      /\ PendingInvites' = PendingInvites \ {i} /\ OpenIsUnused'
  BY <1>1, InviteCloses
<1>3. /\ accounts' \subseteq People /\ seatIds' \in Nat \ {0} /\ seatIds <= seatIds'
      /\ seat' \in [People -> SeatType(seatIds')]
      /\ admitted' \in Seq(Nat) /\ Len(admitted') = Len(invites') /\ Len(invites') <= MaxInvites
      /\ teamRequest' \in [TeamRequests -> TeamRequestType(seatIds')]
  BY <1>1, <1>2, TeamTypes
<1>4. TInv'
  <2>1. {} \in SUBSET TeamRequests
    OBVIOUS
  <2>2. overlapped' = {o \in TeamRequests \ {} : teamRequest[o] # Free}
    BY <1>1
  <2>3. \A o \in TeamRequests \ {} : teamRequest'[o] = teamRequest[o]
    BY <1>1
  <2> QED
    BY <1>1, <1>2, <1>3, <2>1, <2>2, <2>3, RequestDisturbs
<1> QED
  BY <1>2, <1>4

LEMMA TAdmit ==
  ASSUME TInv, NEW q \in TeamRequests, Admit(q)
  PROVE  /\ TInv'
         /\ Members' = Members \cup {teamRequest[q].who} /\ teamRequest[q].who \notin Members
         /\ PendingInvites' = PendingInvites \ {teamRequest[q].invite}
         /\ q \notin overlapped => /\ teamRequest[q].invite \in PendingInvites
                                   /\ admitted[teamRequest[q].invite] = 0
         /\ \A i \in DOMAIN admitted \ {teamRequest[q].invite} : admitted'[i] = admitted[i]
<1> DEFINE x == teamRequest[q]
           p == x.who
           i == x.invite
           s == [id |-> seatIds + 1, role |-> x.role]
<1>1. /\ x.step \in {"admit", "account"} /\ p \notin Members /\ Answer(q) /\ Disturb(q)
      /\ accounts' = accounts \cup {p} /\ seat' = [seat EXCEPT ![p] = s]
      /\ admitted' = [admitted EXCEPT ![i] = admitted[i] + 1]
      /\ invites' = [invites EXCEPT ![i].status = "accepted"]
      /\ seatIds' = seatIds + 1 /\ teamBegun' = teamBegun
  BY DEF Admit, Accepted
<1>2. /\ x \in TeamRequestType(seatIds) /\ seatIds \in Nat \ {0} /\ accounts \subseteq People
      /\ seat \in [People -> SeatType(seatIds)]
      /\ admitted \in Seq(Nat) /\ DOMAIN admitted = DOMAIN invites
      /\ \A j \in DOMAIN admitted : admitted[j] \in Nat
  BY TeamTypes
<1>3. p \in People /\ x.role \in Roles
  BY <1>2 DEF TeamRequestType
<1>4. i \in DOMAIN invites /\ ReadStillTrue(q) /\ OpenIsUnused
  BY <1>1 DEF TInv, ReadStillTrue, InviteInHand
<1>5. q \notin overlapped => i \in PendingInvites /\ admitted[i] = 0
  BY <1>1, <1>4 DEF ReadStillTrue, StillTrue, PendingInvites, Pending, OpenIsUnused
<1>6. /\ invites' \in Seq(InviteType) /\ Len(invites') = Len(invites)
      /\ DOMAIN invites' = DOMAIN invites
      /\ PendingInvites' = PendingInvites \ {i} /\ invites'[i].status = "accepted"
      /\ \A j \in DOMAIN invites \ {i} : invites'[j] = invites[j]
  BY <1>1, <1>4, InviteCloses
<1>7. seatIds' \in Nat \ {0} /\ seatIds <= seatIds' /\ 0..seatIds \subseteq 0..seatIds'
      /\ seatIds + 1 \in 0..seatIds' /\ seatIds + 1 # 0
  BY <1>1, <1>2
<1>8. s \in SeatType(seatIds') /\ s.id # 0
  BY <1>3, <1>7 DEF SeatType
<1> HIDE DEF s, p, i
<1>9. seat' \in [People -> SeatType(seatIds')]
  <2>1. \A m \in People : seat[m] \in SeatType(seatIds')
    BY <1>2, <1>7 DEF SeatType
  <2> QED
    BY <1>1, <1>2, <1>3, <1>8, <2>1
<1>10. Members' = Members \cup {p}
  <2>1. \A m \in People : seat'[m] = IF m = p THEN s ELSE seat[m]
    BY <1>1, <1>2
  <2> QED
    BY <1>3, <1>8, <2>1 DEF Members
<1>11. admitted[i] + 1 \in Nat
  BY <1>2, <1>4
<1>12. /\ admitted' \in Seq(Nat) /\ Len(admitted') = Len(admitted)
       /\ \A j \in DOMAIN admitted \ {i} : admitted'[j] = admitted[j]
  BY <1>1, <1>2, <1>4, <1>11, ExceptSeq
<1>13. OpenIsUnused'
  BY <1>2, <1>4, <1>6, <1>12 DEF OpenIsUnused
<1>14. accounts' \subseteq People
  BY <1>1, <1>2, <1>3
<1>15. TInv'
  BY <1>1, <1>6, <1>7, <1>9, <1>12, <1>13, <1>14, LastStep
<1> QED
  BY <1>1, <1>5, <1>6, <1>10, <1>12, <1>15 DEF p, i

LEMMA TManageMember ==
  ASSUME TInv, NEW q \in TeamRequests, ManageMember(q)
  PROVE  TInv' /\ Members' \subseteq Members
<1> DEFINE x == teamRequest[q]
<1>1. /\ x.step = "manage" /\ Answer(q) /\ Disturb(q)
      /\ UNCHANGED <<accounts, invites, seatIds, teamBegun, admitted>>
  BY DEF ManageMember
<1>2. /\ x \in TeamRequestType(seatIds) /\ seatIds \in Nat \ {0} /\ accounts \subseteq People
      /\ seat \in [People -> SeatType(seatIds)]
      /\ invites \in Seq(InviteType) /\ admitted \in Seq(Nat)
  BY TeamTypes
<1>3. seat' \in [People -> SeatType(seatIds)] /\ Members' \subseteq Members
  <2>1. ASSUME NEW m \in Members, seat' = [seat EXCEPT ![m].role = x.role]
        PROVE  seat' \in [People -> SeatType(seatIds)] /\ Members' \subseteq Members
    <3> DEFINE s == [seat[m] EXCEPT !.role = x.role]
    <3>1. m \in People /\ seat[m] \in SeatType(seatIds) /\ x.role \in Roles
      BY <1>2 DEF Members, TeamRequestType
    <3>2. s \in SeatType(seatIds) /\ s.id = seat[m].id
      BY <3>1 DEF SeatType
    <3>3. seat' = [seat EXCEPT ![m] = s]
      BY <2>1
    <3> HIDE DEF s
    <3> QED
      BY <1>2, <3>1, <3>2, <3>3 DEF Members
  <2>2. ASSUME NEW m \in Members, seat' = [seat EXCEPT ![m] = NoSeat]
        PROVE  seat' \in [People -> SeatType(seatIds)] /\ Members' \subseteq Members
    <3>1. NoSeat \in SeatType(seatIds) /\ NoSeat.id = 0
      BY <1>2 DEF NoSeat, SeatType, Roles
    <3> QED
      BY <1>2, <2>2, <3>1 DEF Members
  <2>3. CASE UNCHANGED seat
    BY <1>2, <2>3 DEF Members
  <2> QED
    BY <2>1, <2>2, <2>3 DEF ManageMember
<1>4. OpenIsUnused'
  BY <1>1 DEF TInv, OpenIsUnused
<1>5. seatIds <= seatIds' /\ seatIds' = seatIds
  BY <1>1, <1>2
<1> QED
  BY <1>1, <1>2, <1>3, <1>4, <1>5, LastStep

LEMMA InitTInv == InitTeam => TInv
<1> SUFFICES ASSUME InitTeam PROVE TInv
  OBVIOUS
<1> USE DEF InitTeam
<1>1. /\ accounts \subseteq People /\ seat \in [People -> SeatType(seatIds)]
      /\ seatIds \in Nat \ {0} /\ teamBegun \in 0..MaxTeamRequests
  BY TeamAssumption DEF SeatType, Roles, NoSeat
<1>2. /\ invites \in Seq(InviteType) /\ admitted \in Seq(Nat) /\ Len(invites) = 0
      /\ Len(admitted) = 0 /\ DOMAIN invites = {}
  BY EmptySeq
<1>3. /\ teamRequest \in [TeamRequests -> TeamRequestType(seatIds)]
      /\ \A q \in TeamRequests : teamRequest[q].step = "free"
  BY FreeType
<1>4. TeamTypeOK
  BY <1>1, <1>2, <1>3, TeamAssumption DEF TeamTypeOK, SeatType, InviteType, TeamRequestType
<1>5. OpenIsUnused /\ \A q \in TeamRequests : ReadStillTrue(q)
  BY <1>2, <1>3 DEF OpenIsUnused, ReadStillTrue, InviteInHand, StillTrue
<1> QED
  BY <1>4, <1>5 DEF TInv

LEMMA StepTInv == TInv /\ [NextTeam]_teamVars => TInv'
<1> SUFFICES ASSUME TInv, [NextTeam]_teamVars PROVE TInv'
  OBVIOUS
<1>1. CASE UNCHANGED teamVars
  BY <1>1 DEF teamVars, TInv, TeamTypeOK, OpenIsUnused, ReadStillTrue, Members,
     PendingInvites, Pending
<1>2. CASE NextTeam
  BY <1>2, TBeginInvite, TBeginManage, TReadInvite, TCountMembers, TCountInvites,
     TEnforceSeats, TFindOpenInvite, TCreateInvite, TSendInvite, TFindMembership,
     TMarkAccepted, TAdmit, TRequestFails, TManageMember, TExpire, TRegister DEF NextTeam
<1> QED
  BY <1>1, <1>2

-----------------------------------------------------------------------------
(* Team: what a step may do to the seats taken and to an invitation          *)

LEMMA FewerTaken ==
  ASSUME TInv, Members' \subseteq Members, PendingInvites' \subseteq PendingInvites
  PROVE  ~(Taken' > Taken)
<1>1. /\ IsFiniteSet(Members) /\ Cardinality(Members) \in Nat
      /\ IsFiniteSet(PendingInvites) /\ Cardinality(PendingInvites) \in Nat
  BY CountsFinite
<1>2. IsFiniteSet(Members') /\ Cardinality(Members') <= Cardinality(Members)
  BY <1>1, FS_Subset
<1>3. /\ IsFiniteSet(PendingInvites')
      /\ Cardinality(PendingInvites') <= Cardinality(PendingInvites)
  BY <1>1, FS_Subset
<1>4. Cardinality(Members') \in Nat /\ Cardinality(PendingInvites') \in Nat
  BY <1>2, <1>3, FS_CardinalityType
<1> QED
  BY <1>1, <1>2, <1>3, <1>4 DEF Taken

\* Every step but the creation of an invitation and an acceptance: no more seats are
\* taken, and no invitation has admitted anybody.
LEMMA OtherTeamSteps ==
  ASSUME TInv, NextTeam, ~ \E q \in TeamRequests : CreateInvite(q) \/ Admit(q)
  PROVE  ~(Taken' > Taken) /\ admitted' = admitted
<1>1. ASSUME UNCHANGED <<seat, invites>> PROVE ~(Taken' > Taken)
  <2>1. Members' = Members /\ PendingInvites' = PendingInvites
    BY <1>1 DEF Members, PendingInvites, Pending
  <2> QED
    BY <2>1, FewerTaken
<1>2. ASSUME NEW q \in TeamRequests,
             \/ CountMembers(q) \/ CountInvites(q) \/ EnforceSeats(q) \/ FindOpenInvite(q)
             \/ FindMembership(q) \/ RequestFails(q)
      PROVE  UNCHANGED <<seat, invites, admitted>>
  BY <1>2 DEF CountMembers, CountInvites, EnforceSeats, FindOpenInvite, FindMembership,
     RequestFails
<1>3. ASSUME NEW q \in TeamRequests, NEW i \in 1..MaxInvites, ReadInvite(q, i)
      PROVE  UNCHANGED <<seat, invites, admitted>>
  BY <1>3 DEF ReadInvite
<1>4. ASSUME NEW q \in TeamRequests, NEW p \in People, NEW email \in People, NEW role \in Roles,
             BeginInvite(q, p, email, role)
      PROVE  UNCHANGED <<seat, invites, admitted>>
  BY <1>4 DEF BeginInvite
<1>5. ASSUME NEW q \in TeamRequests, NEW p \in People, NEW id \in 1..seatIds,
             NEW role \in Roles, BeginManage(q, p, id, role)
      PROVE  UNCHANGED <<seat, invites, admitted>>
  BY <1>5 DEF BeginManage
<1>6. ASSUME NEW p \in People, Register(p) PROVE UNCHANGED <<seat, invites, admitted>>
  BY <1>6 DEF Register
<1>7. ASSUME NEW q \in TeamRequests, SendInvite(q) \/ MarkAccepted(q)
      PROVE  ~(Taken' > Taken) /\ admitted' = admitted
  <2>1. UNCHANGED <<seat, admitted>>
    BY <1>7 DEF SendInvite, MarkAccepted
  <2>2. PendingInvites' \subseteq PendingInvites
    BY <1>7, TSendInvite, TMarkAccepted
  <2>3. Members' = Members
    BY <2>1 DEF Members
  <2> QED
    BY <2>1, <2>2, <2>3, FewerTaken
<1>8. ASSUME NEW i \in 1..MaxInvites, Expire(i) PROVE ~(Taken' > Taken) /\ admitted' = admitted
  <2>1. UNCHANGED <<seat, admitted>>
    BY <1>8 DEF Expire
  <2>2. PendingInvites' \subseteq PendingInvites
    BY <1>8, TExpire
  <2>3. Members' = Members
    BY <2>1 DEF Members
  <2> QED
    BY <2>1, <2>2, <2>3, FewerTaken
<1>9. ASSUME NEW q \in TeamRequests, ManageMember(q) PROVE ~(Taken' > Taken) /\ admitted' = admitted
  <2>1. UNCHANGED <<invites, admitted>>
    BY <1>9 DEF ManageMember
  <2>2. Members' \subseteq Members
    BY <1>9, TManageMember
  <2>3. PendingInvites' = PendingInvites
    BY <2>1 DEF PendingInvites, Pending
  <2> QED
    BY <2>1, <2>2, <2>3, FewerTaken
<1> QED
  BY <1>1, <1>2, <1>3, <1>4, <1>5, <1>6, <1>7, <1>8, <1>9 DEF NextTeam

\* The creation of an invitation by a request that nobody overlapped leaves the seats
\* within the plan.
LEMMA CreateWithinPlan ==
  ASSUME TInv, NEW q \in TeamRequests, CreateInvite(q), q \notin overlapped
  PROVE  ~(Taken' > Seats)
<1>1. /\ IsFiniteSet(PendingInvites) /\ Cardinality(PendingInvites) \in Nat
      /\ Cardinality(Members) \in Nat /\ Seats \in Nat
  BY CountsFinite, TeamTypes
<1>2. Cardinality(Members) + Cardinality(PendingInvites) < Seats
  BY DEF CreateInvite, TInv, ReadStillTrue, StillTrue
<1>3. PendingInvites' = PendingInvites \cup {Len(invites) + 1}
  BY TCreateInvite
<1>4. Cardinality(PendingInvites') \in {Cardinality(PendingInvites), Cardinality(PendingInvites) + 1}
  BY <1>1, <1>3, FS_AddElement
<1>5. Members' = Members
  BY DEF CreateInvite, Members
<1> QED
  BY <1>1, <1>2, <1>4, <1>5 DEF Taken

\* An acceptance that nobody overlapped takes the seat that its invitation held.
LEMMA AdmitTakesItsSeat ==
  ASSUME TInv, NEW q \in TeamRequests, Admit(q), q \notin overlapped
  PROVE  Taken' = Taken
<1> DEFINE i == teamRequest[q].invite
           p == teamRequest[q].who
<1>1. /\ IsFiniteSet(PendingInvites) /\ Cardinality(PendingInvites) \in Nat
      /\ IsFiniteSet(Members) /\ Cardinality(Members) \in Nat
  BY CountsFinite
<1>2. /\ Members' = Members \cup {p} /\ p \notin Members
      /\ PendingInvites' = PendingInvites \ {i} /\ i \in PendingInvites
  BY TAdmit
<1> HIDE DEF i, p
<1>3. Cardinality(Members') = Cardinality(Members) + 1
  BY <1>1, <1>2, FS_AddElement
<1>4. Cardinality(PendingInvites') = Cardinality(PendingInvites) - 1
  BY <1>1, <1>2, FS_RemoveElement
<1> QED
  BY <1>1, <1>3, <1>4 DEF Taken

\* The request that creates an invitation or admits moves on.
LEMMA MovesOn ==
  ASSUME TInv, NEW q \in TeamRequests, CreateInvite(q) \/ Admit(q)
  PROVE  /\ teamRequest'[q] # teamRequest[q]
         /\ teamRequest[q].step \in {"insert", "admit", "account"}
<1>1. teamRequest \in [TeamRequests -> TeamRequestType(seatIds)]
  BY TeamTypes
<1>2. CASE CreateInvite(q)
  <2> DEFINE y == [teamRequest[q] EXCEPT !.step = "send", !.invite = Len(invites) + 1]
  <2>1. teamRequest[q].step = "insert" /\ teamRequest'[q] = y
    BY <1>1, <1>2 DEF CreateInvite
  <2>2. y.step = "send"
    BY <1>1 DEF TeamRequestType
  <2> HIDE DEF y
  <2> QED
    BY <2>1, <2>2
<1>3. CASE Admit(q)
  BY <1>1, <1>3 DEF Admit, Answer, Free
<1> QED
  BY <1>2, <1>3

-----------------------------------------------------------------------------
(* Team: the theorems                                                       *)

\* The inductive invariant of the team holds throughout.
THEOREM TeamInv == SpecTeam => []TInv
BY InitTInv, StepTInv, PTL DEF SpecTeam

\* Types of the rows, the requests and the histories, for any people, plan and bounds.
THEOREM TeamTyped == SpecTeam => []TeamTypeOK
<1>1. TInv => TeamTypeOK
  BY DEF TInv
<1> QED
  BY <1>1, TeamInv, PTL

\* Members and open invitations together exceed the seats of the plan only by a step
\* of an invitation or an acceptance that another request overlapped.
THEOREM SeatsExceeded == SpecTeam => SeatsExceededOnlyByOverlap
<1>1. TInv /\ [NextTeam]_teamVars =>
        [Taken' > Taken /\ Taken' > Seats =>
           \E q \in overlapped : teamRequest[q].step \in {"insert", "admit", "account"}
                                  /\ teamRequest'[q] # teamRequest[q]]_teamVars
  <2> SUFFICES ASSUME TInv, NextTeam, Taken' > Taken, Taken' > Seats
               PROVE  \E q \in overlapped : teamRequest[q].step \in {"insert", "admit", "account"}
                                             /\ teamRequest'[q] # teamRequest[q]
    OBVIOUS
  <2>1. Taken \in Nat
    BY CountsFinite
  <2>2. PICK q \in TeamRequests : CreateInvite(q) \/ Admit(q)
    BY OtherTeamSteps
  <2>3. q \in overlapped
    BY <2>1, <2>2, CreateWithinPlan, AdmitTakesItsSeat
  <2> QED
    BY <2>2, <2>3, MovesOn
<1> QED
  BY <1>1, TeamInv, PTL DEF SpecTeam, SeatsExceededOnlyByOverlap

\* An invitation that has admitted somebody admits again only by a request that
\* another one overlapped since it read the invitation.
THEOREM Readmitted == SpecTeam => ReadmittedOnlyByOverlap
<1>1. TInv /\ [NextTeam]_teamVars =>
        [\A i \in DOMAIN admitted : admitted'[i] > admitted[i] /\ admitted[i] > 0 =>
           \E q \in overlapped : teamRequest[q].invite = i
                                  /\ teamRequest'[q] # teamRequest[q]]_teamVars
  <2> SUFFICES ASSUME TInv, NextTeam, NEW i \in DOMAIN admitted,
                      admitted'[i] > admitted[i], admitted[i] > 0
               PROVE  \E q \in overlapped : teamRequest[q].invite = i
                                             /\ teamRequest'[q] # teamRequest[q]
    OBVIOUS
  <2>1. admitted[i] \in Nat /\ admitted'[i] # admitted[i]
    BY TeamTypes
  <2>2. PICK q \in TeamRequests : CreateInvite(q) \/ Admit(q)
    BY <2>1, OtherTeamSteps
  <2>3. Admit(q)
    BY <2>1, <2>2, TCreateInvite
  <2>4. teamRequest[q].invite = i
    BY <2>1, <2>3, TAdmit
  <2>5. q \in overlapped
    BY <2>1, <2>3, <2>4, TAdmit
  <2> QED
    BY <2>3, <2>4, <2>5, MovesOn
<1> QED
  BY <1>1, TeamInv, PTL DEF SpecTeam, ReadmittedOnlyByOverlap

-----------------------------------------------------------------------------
(* The workspace                                                            *)

\* A behaviour of the workspace is one of each of its parts: its steps are steps of one
\* part and leave the state of the others, so whatever is proved of a part holds here.
THEOREM WorkspaceImplementsParts ==
  MCSpec => SpecProposals /\ SpecGrowth /\ SpecAlerts /\ SpecTeam
<1>1. MCInit => InitProposals /\ InitGrowth /\ InitAlerts /\ InitTeam
  BY DEF MCInit
<1>2. [MCNext]_vars =>
        /\ [NextProposals]_proposalVars /\ [NextGrowth]_growthVars
        /\ [NextAlerts]_alertVars /\ [NextTeam]_teamVars
  BY DEF MCNext, vars
<1> QED
  BY <1>1, <1>2, PTL DEF MCSpec, SpecProposals, SpecGrowth, SpecAlerts, SpecTeam

\* Types of all four parts, for any actors, lists, crawls, people and bounds.
THEOREM WorkspaceTyped == MCSpec => []WorkspaceTypeOK
<1>1. ProposalsTypeOK /\ GrowthTypeOK /\ AlertsTypeOK /\ TeamTypeOK => WorkspaceTypeOK
  BY DEF WorkspaceTypeOK
<1> QED
  BY <1>1, WorkspaceImplementsParts, TypeCorrectProposals, GrowthTyped, AlertsTyped, TeamTyped, PTL
=============================================================================
