----------------------- MODULE ActionProposals_proofs -----------------------
(***************************************************************************)
(* Machine-checked theorems about ActionProposals, for any reviewers, any   *)
(* contents, any length of the log and any number of documents written.     *)
(***************************************************************************)
EXTENDS ActionProposals, SequenceTheorems, WellFoundedInduction, TLAPS

-----------------------------------------------------------------------------
(* The inductive invariant: a document is sane against the approvals A given *)
(* and the number n of documents written so far.                            *)

\* Who says approved or executed was confirmed, and is not blocked.
DocApproved(d, A) ==
  /\ \A i \in DOMAIN d.proposals : d.proposals[i].approved =>
       /\ <<d.proposals[i].version, d.proposals[i].change>> \in A
       /\ d.proposals[i].change \notin Blocked
  /\ \A i \in Executed(d) :
       /\ <<d.executions[i].version, d.executions[i].change>> \in A
       /\ d.executions[i].change \notin Blocked

\* ExecutionsOnRecord, of any document
DocRecorded(d) ==
  /\ \A i, j \in Executed(d) :
       d.executions[i].version = d.executions[j].version => i = j
  /\ Len(d.executions) < MaxLog =>
       \A k \in DOMAIN d.proposals : d.proposals[k].status = "EXECUTED" =>
         \E i \in Executed(d) :
           /\ d.executions[i].version = d.proposals[k].version
           /\ d.executions[i].change = d.proposals[k].change

\* No version is higher than the number of documents written.
DocSane(d, A, n) ==
  /\ d \in Docs /\ Len(d.executions) <= MaxLog
  /\ \A i \in DOMAIN d.proposals : d.proposals[i].version <= n
  /\ DocApproved(d, A) /\ DocRecorded(d)

\* The versions and contents that confirmed requests approved
Confirmed == {<<a.version, a.change>> : a \in approvals}

PInv ==
  /\ approvals \subseteq Approvals /\ saves \in 0..MaxSaves
  /\ DocSane(meta, Confirmed, saves)
  /\ held \in [Reviewers -> Docs \cup {NoDoc}]
  /\ \A u \in Reviewers : held[u] # NoDoc => DocSane(held[u], Confirmed, saves)

\* Whatever a document, a question to a reviewer or an approval names was given
\* to that version number by a request that proposed it.
DocGiven(d) ==
  \A i \in DOMAIN d.proposals :
    <<d.proposals[i].version, d.proposals[i].change>> \in given

GivenInv ==
  /\ given \subseteq Contents
  /\ shown \in [Reviewers -> Contents \cup {NoDoc}]
  /\ \A u \in Reviewers : shown[u] # NoDoc => shown[u] \in given
  /\ \A a \in approvals : <<a.version, a.shown>> \in given
  /\ DocGiven(meta)
  /\ \A u \in Reviewers : held[u] # NoDoc => DocGiven(held[u])

-----------------------------------------------------------------------------
(* Versions and the log                                                     *)

\* A bounded set of naturals has a greatest element.
LEMMA GreatestExists ==
  ASSUME NEW V \in SUBSET Nat, V # {}, NEW b \in Nat, \A v \in V : v <= b
  PROVE  \E m \in V : \A v \in V : v <= m
<1> DEFINE U == {n \in Nat : \A v \in V : v <= n}
<1>1. U \subseteq Nat /\ b \in U
  OBVIOUS
<1>2. PICK m \in U : \A n \in U : ~(<<n, m>> \in OpToRel(<, Nat))
  <2> HIDE DEF U
  <2> QED
    BY <1>1, NatLessThanWellFounded, WFMin
<1>3. \A n \in U : ~(n < m)
  BY <1>2 DEF OpToRel
<1>4. CASE m \in V
  BY <1>4
<1>5. CASE m \notin V
  <2>1. \A v \in V : v <= m - 1
    BY <1>5
  <2>2. m - 1 \in Nat
    <3>1. PICK v \in V : v <= m
      BY <1>2
    <3>2. v \in Nat /\ m \in Nat /\ v # m
      BY <1>5, <1>2
    <3> QED
      BY <3>1, <3>2
  <2>3. m - 1 \in U
    BY <2>1, <2>2
  <2> QED
    BY <1>3, <2>3
<1> QED
  BY <1>4, <1>5

\* The highest version of a document is a number no smaller than any.
LEMMA LatestIsGreatest ==
  ASSUME NEW proposals \in Seq(Proposals), NEW n \in Nat,
         \A i \in DOMAIN proposals : proposals[i].version <= n
  PROVE  LatestVersion(proposals) \in 0..n
<1> DEFINE V == {0} \cup {proposals[i].version : i \in DOMAIN proposals}
<1>1. \A i \in DOMAIN proposals : proposals[i].version \in Nat
  <2>1. \A i \in DOMAIN proposals : proposals[i] \in Proposals
    BY ElementOfSeq, LenProperties
  <2> QED
    BY <2>1 DEF Proposals
<1>2. V \in SUBSET Nat /\ V # {} /\ \A v \in V : v <= n
  BY <1>1
<1>3. \E m \in V : \A v \in V : v <= m
  <2> HIDE DEF V
  <2> QED
    BY <1>2, GreatestExists
<1>4. LatestVersion(proposals) \in V
  BY <1>3 DEF LatestVersion
<1> QED
  BY <1>2, <1>4

\* The log entry of an event about proposal p.
Entry(event, p) == [event |-> event, version |-> p.version, change |-> p.change]

\* new is log with e at its end and its oldest entries, off of them, cut.
CutOf(new, log, e) ==
  /\ new \in Seq(LogEntries) /\ Len(new) <= MaxLog /\ Len(new) \in Nat \ {0}
  /\ \E off \in Nat :
       /\ Len(new) + off = Len(log) + 1
       /\ Len(new) < MaxLog => off = 0
       /\ \A i \in 1..Len(new) :
            new[i] = IF i + off <= Len(log) THEN log[i + off] ELSE e

\* After one more event the log holds its newest entries, shifted by what was cut.
LEMMA LoggedFacts ==
  ASSUME NEW log \in Seq(LogEntries), NEW event \in Events,
         NEW p, p.version \in Nat, p.change \in Changes
  PROVE  CutOf(Logged(log, event, p), log, Entry(event, p))
<1> DEFINE new == Logged(log, event, p)
           e == Entry(event, p)
           long == Append(log, e)
<1>1. e \in LogEntries
  BY DEF LogEntries, Entry
<1>2. /\ long \in Seq(LogEntries) /\ Len(long) = Len(log) + 1 /\ Len(log) \in Nat
      /\ \A i \in 1..Len(long) : /\ long[i] = IF i <= Len(log) THEN log[i] ELSE e
                                 /\ long[i] \in LogEntries
  <2> HIDE DEF e
  <2>1. long \in Seq(LogEntries) /\ Len(long) = Len(log) + 1 /\ Len(log) \in Nat
    BY <1>1
  <2>2. \A i \in 1..Len(long) : long[i] = IF i <= Len(log) THEN log[i] ELSE e
    BY <1>1
  <2>3. \A i \in 1..Len(long) : long[i] \in LogEntries
    BY <2>1, ElementOfSeq
  <2> QED
    BY <2>1, <2>2, <2>3
<1>3. new = KeepNewest(long) /\ MaxLog \in Nat \ {0}
  BY ProposalsAssumption DEF Logged, Entry
<1> SUFFICES CutOf(new, log, e)
  OBVIOUS
<1> HIDE DEF long, e, new
<1>4. CASE Len(long) <= MaxLog
  <2>1. new = long
    BY <1>3, <1>4 DEF KeepNewest
  <2>2. /\ Len(new) + 0 = Len(log) + 1
        /\ \A i \in 1..Len(new) : new[i] = IF i + 0 <= Len(log) THEN log[i + 0] ELSE e
    BY <1>2, <2>1
  <2> QED
    BY <1>2, <1>3, <1>4, <2>1, <2>2 DEF CutOf
<1>5. CASE Len(long) > MaxLog
  <2> DEFINE off == Len(long) - MaxLog
  <2>1. off \in Nat /\ Len(long) \in Nat /\ off + 1 \in 1..Len(long)
    BY <1>2, <1>3, <1>5
  <2>2. new = SubSeq(long, off + 1, Len(long))
    BY <1>2, <1>3, <1>5 DEF KeepNewest
  <2>3. /\ new \in Seq(LogEntries) /\ Len(new) = MaxLog
        /\ \A i \in 1..MaxLog : new[i] = long[off + 1 + i - 1]
    <3>1. \A i \in (off + 1)..Len(long) : long[i] \in LogEntries
      BY <1>2, <2>1
    <3> HIDE DEF off
    <3>2. /\ SubSeq(long, off + 1, Len(long)) \in Seq(LogEntries)
          /\ Len(SubSeq(long, off + 1, Len(long))) =
               IF off + 1 <= Len(long) THEN Len(long) - (off + 1) + 1 ELSE 0
          /\ \A i \in 1..(Len(long) - (off + 1) + 1) :
               SubSeq(long, off + 1, Len(long))[i] = long[(off + 1) + i - 1]
      BY <2>1, <3>1, SubSeqProperties
    <3>3. Len(long) - (off + 1) + 1 = MaxLog
      BY <1>2, <1>3 DEF off
    <3> QED
      BY <2>1, <2>2, <3>2, <3>3
  <2>4. \A i \in 1..Len(new) : new[i] = IF i + off <= Len(log) THEN log[i + off] ELSE e
    <3> SUFFICES ASSUME NEW i \in 1..MaxLog
                 PROVE  new[i] = IF i + off <= Len(log) THEN log[i + off] ELSE e
      BY <2>3
    <3>1. off + 1 + i - 1 = i + off /\ i + off \in 1..Len(long)
      BY <1>2, <1>3, <2>1
    <3>2. new[i] = long[i + off]
      BY <2>3, <3>1
    <3> QED
      BY <1>2, <3>1, <3>2
  <2>5. Len(new) + off = Len(log) + 1
    BY <1>2, <1>3, <2>3
  <2>6. ~(Len(new) < MaxLog) /\ Len(new) <= MaxLog /\ Len(new) \in Nat \ {0}
    BY <1>3, <2>3
  <2> HIDE DEF off
  <2> QED
    BY <2>1, <2>3, <2>4, <2>5, <2>6 DEF CutOf
<1> QED
  BY <1>2, <1>3, <1>4, <1>5

\* What one more event keeps of the log: executions stay approved and single, an
\* uncut log loses nothing, and an execution is found in it.
LogKeeps(doc, d, B, event, p) ==
  /\ doc.executions \in Seq(LogEntries) /\ Len(doc.executions) <= MaxLog
  /\ \A i \in Executed(doc) :
       /\ <<doc.executions[i].version, doc.executions[i].change>> \in B
       /\ doc.executions[i].change \notin Blocked
  /\ \A i, j \in Executed(doc) :
       doc.executions[i].version = doc.executions[j].version => i = j
  /\ Len(doc.executions) < MaxLog =>
       /\ Len(d.executions) < MaxLog
       /\ \A i \in Executed(d) :
            i \in Executed(doc) /\ doc.executions[i] = d.executions[i]
       /\ event = "EXECUTED_MANUAL" =>
            \E i \in Executed(doc) : /\ doc.executions[i].version = p.version
                                     /\ doc.executions[i].change = p.change

LEMMA LogSane ==
  ASSUME NEW d, NEW A, NEW B, A \subseteq B, NEW n \in Nat, DocSane(d, A, n),
         NEW event \in Events, NEW p, p.version \in Nat, p.change \in Changes,
         event = "EXECUTED_MANUAL" =>
           /\ <<p.version, p.change>> \in B /\ p.change \notin Blocked
           /\ ~AlreadyExecuted(d, p.version),
         NEW doc, doc.executions = Logged(d.executions, event, p)
  PROVE  LogKeeps(doc, d, B, event, p)
<1> DEFINE log == d.executions
           new == doc.executions
           e == Entry(event, p)
<1>1. log \in Seq(LogEntries) /\ Len(log) <= MaxLog /\ Len(log) \in Nat
      /\ DOMAIN log = 1..Len(log)
  <2>1. log \in Seq(LogEntries) /\ Len(log) <= MaxLog
    BY DEF DocSane, Docs
  <2> QED
    BY <2>1, LenProperties
<1>2. /\ new \in Seq(LogEntries) /\ Len(new) <= MaxLog /\ Len(new) \in Nat \ {0}
      /\ \E off \in Nat :
           /\ Len(new) + off = Len(log) + 1
           /\ Len(new) < MaxLog => off = 0
           /\ \A i \in 1..Len(new) :
                new[i] = IF i + off <= Len(log) THEN log[i + off] ELSE e
  <2> HIDE DEF new, log, e
  <2>1. new = Logged(log, event, p)
    BY DEF new, log
  <2>2. CutOf(Logged(log, event, p), log, Entry(event, p))
    BY <1>1, LoggedFacts
  <2> QED
    BY <2>1, <2>2 DEF e, CutOf
<1>3. PICK off \in Nat :
           /\ Len(new) + off = Len(log) + 1
           /\ Len(new) < MaxLog => off = 0
           /\ \A i \in 1..Len(new) :
                new[i] = IF i + off <= Len(log) THEN log[i + off] ELSE e
  BY <1>2
<1>4. DOMAIN new = 1..Len(new)
  BY <1>2, LenProperties
<1>5. e.event = event /\ e.version = p.version /\ e.change = p.change
  BY DEF Entry
<1>6. /\ \A i : i \in Executed(doc) <=> (i \in 1..Len(new) /\ new[i].event = "EXECUTED_MANUAL")
      /\ \A i : i \in Executed(d) <=> (i \in 1..Len(log) /\ log[i].event = "EXECUTED_MANUAL")
  BY <1>1, <1>4 DEF Executed
<1>7. \A i \in Executed(d) :
        /\ <<log[i].version, log[i].change>> \in A /\ log[i].change \notin Blocked
        /\ \A j \in Executed(d) : log[i].version = log[j].version => i = j
        /\ event = "EXECUTED_MANUAL" => log[i].version # p.version
  <2>1. \A i \in Executed(d) :
        /\ <<log[i].version, log[i].change>> \in A /\ log[i].change \notin Blocked
        /\ \A j \in Executed(d) : log[i].version = log[j].version => i = j
    BY DEF DocSane, DocApproved, DocRecorded
  <2>2. \A i \in Executed(d) : event = "EXECUTED_MANUAL" => log[i].version # p.version
    BY DEF AlreadyExecuted, Executed
  <2> QED
    BY <2>1, <2>2
<1> HIDE DEF new, log, e
<1>8. \A i \in Executed(doc) :
        \/ i + off \in Executed(d) /\ new[i] = log[i + off]
        \/ event = "EXECUTED_MANUAL" /\ i = Len(new) /\ new[i] = e
  <2> SUFFICES ASSUME NEW i \in Executed(doc)
               PROVE  \/ i + off \in Executed(d) /\ new[i] = log[i + off]
                      \/ event = "EXECUTED_MANUAL" /\ i = Len(new) /\ new[i] = e
    OBVIOUS
  <2>1. i \in 1..Len(new) /\ new[i].event = "EXECUTED_MANUAL" /\ i \in Nat
    BY <1>6
  <2>2. CASE i + off <= Len(log)
    <3>1. i + off \in 1..Len(log)
      BY <1>1, <1>3, <2>1, <2>2
    <3>2. new[i] = log[i + off]
      BY <1>3, <2>1, <2>2
    <3> QED
      BY <1>6, <2>1, <3>1, <3>2
  <2>3. CASE ~(i + off <= Len(log))
    <3>1. new[i] = e
      BY <1>3, <2>1, <2>3
    <3>2. i = Len(new)
      BY <1>1, <1>2, <1>3, <2>1, <2>3
    <3> QED
      BY <1>5, <2>1, <3>1, <3>2
  <2> QED
    BY <2>2, <2>3
<1>9. \A i \in Executed(doc) :
        /\ <<new[i].version, new[i].change>> \in B
        /\ new[i].change \notin Blocked
  BY <1>5, <1>7, <1>8
<1>10. \A i, j \in Executed(doc) : new[i].version = new[j].version => i = j
  <2> SUFFICES ASSUME NEW i \in Executed(doc), NEW j \in Executed(doc),
                      new[i].version = new[j].version
               PROVE  i = j
    OBVIOUS
  <2>1. i \in Nat /\ j \in Nat
    BY <1>6
  <2>2. CASE i + off \in Executed(d) /\ new[i] = log[i + off]
    <3>1. CASE j + off \in Executed(d) /\ new[j] = log[j + off]
      <4>1. i + off = j + off
        BY <1>7, <2>2, <3>1
      <4> QED
        BY <2>1, <4>1
    <3>2. CASE event = "EXECUTED_MANUAL" /\ j = Len(new) /\ new[j] = e
      BY <1>5, <1>7, <2>2, <3>2
    <3> QED
      BY <1>8, <3>1, <3>2
  <2>3. CASE event = "EXECUTED_MANUAL" /\ i = Len(new) /\ new[i] = e
    BY <1>5, <1>7, <1>8, <2>3
  <2> QED
    BY <1>8, <2>2, <2>3
<1>11. ASSUME Len(new) < MaxLog
       PROVE  /\ Len(log) < MaxLog
              /\ \A i \in Executed(d) : i \in Executed(doc) /\ new[i] = log[i]
              /\ event = "EXECUTED_MANUAL" =>
                   \E i \in Executed(doc) : /\ new[i].version = p.version
                                            /\ new[i].change = p.change
  <2>1. off = 0 /\ Len(new) = Len(log) + 1 /\ MaxLog \in Nat
    BY <1>1, <1>2, <1>3, <1>11, ProposalsAssumption
  <2>2. \A i \in 1..Len(log) : new[i] = log[i]
    BY <1>1, <1>3, <2>1
  <2>3. new[Len(new)] = e /\ Len(new) \in 1..Len(new)
    BY <1>1, <1>2, <1>3, <2>1
  <2>4. \A i \in Executed(d) : i \in Executed(doc) /\ new[i] = log[i]
    BY <1>1, <1>6, <2>1, <2>2
  <2>5. event = "EXECUTED_MANUAL" => Len(new) \in Executed(doc)
    BY <1>5, <1>6, <2>3
  <2> QED
    BY <1>1, <1>5, <1>11, <2>1, <2>3, <2>4, <2>5
<1> QED
  BY <1>2, <1>9, <1>10, <1>11 DEF new, log, LogKeeps

-----------------------------------------------------------------------------
(* What a request may write is sane                                         *)

\* More approvals and more documents written keep a document sane.
LEMMA SaneGrows ==
  ASSUME NEW d, NEW A, NEW B, A \subseteq B, NEW n \in Nat, NEW m \in Nat, n <= m,
         DocSane(d, A, n)
  PROVE  DocSane(d, B, m)
<1>1. \A i \in DOMAIN d.proposals : d.proposals[i].version \in Nat
  <2>1. d.proposals \in Seq(Proposals)
    BY DEF DocSane, Docs
  <2>2. \A i \in DOMAIN d.proposals : d.proposals[i] \in Proposals
    BY <2>1, ElementOfSeq, LenProperties
  <2> QED
    BY <2>2 DEF Proposals
<1>2. \A i \in DOMAIN d.proposals : d.proposals[i].version <= m
  BY <1>1 DEF DocSane
<1>3. DocApproved(d, B)
  BY DEF DocSane, DocApproved
<1> QED
  BY <1>2, <1>3 DEF DocSane

\* A decision about one proposal of a sane document leaves a sane document.
LEMMA DecisionSane ==
  ASSUME NEW d, NEW A, NEW B, A \subseteq B, NEW n \in Nat, DocSane(d, A, n),
         NEW i \in DOMAIN d.proposals, NEW p \in Proposals,
         p.version = d.proposals[i].version, p.change = d.proposals[i].change,
         p.approved => <<p.version, p.change>> \in B /\ p.change \notin Blocked,
         NEW event \in Events,
         p.status = "EXECUTED" => event = "EXECUTED_MANUAL",
         event = "EXECUTED_MANUAL" =>
           p.approved /\ ~AlreadyExecuted(d, p.version),
         NEW doc,
         doc = [proposals |-> [d.proposals EXCEPT ![i] = p],
                executions |-> Logged(d.executions, event, p)]
  PROVE  DocSane(doc, B, n + 1)
<1> DEFINE old == d.proposals
           new == doc.proposals
<1>1. p.version \in Nat /\ p.change \in Changes
  BY DEF Proposals
<1>2. doc.executions = Logged(d.executions, event, p)
  OBVIOUS
<1>3. LogKeeps(doc, d, B, event, p)
  <2>1. event = "EXECUTED_MANUAL" =>
           /\ <<p.version, p.change>> \in B /\ p.change \notin Blocked
           /\ ~AlreadyExecuted(d, p.version)
    OBVIOUS
  <2> QED
    BY <1>1, <1>2, <2>1, LogSane
<1>4. old \in Seq(Proposals) /\ new = [old EXCEPT ![i] = p]
  BY DEF DocSane, Docs
<1> HIDE DEF new, old
<1>5. /\ new \in Seq(Proposals) /\ DOMAIN new = DOMAIN old /\ i \in DOMAIN old
      /\ \A k \in DOMAIN old : new[k] = IF k = i THEN p ELSE old[k]
  <2>1. i \in DOMAIN old /\ i \in 1..Len(old)
    BY <1>4, LenProperties DEF old
  <2>2. new \in Seq(Proposals)
    BY <1>4, <2>1, ExceptSeq
  <2> QED
    BY <1>4, <2>1, <2>2
<1>6. \A k \in DOMAIN old : old[k] \in Proposals /\ old[k].version \in Nat
  <2>1. \A k \in DOMAIN old : old[k] \in Proposals
    BY <1>4, ElementOfSeq, LenProperties
  <2> QED
    BY <2>1 DEF Proposals
<1>7. \A k \in DOMAIN old : old[k].version <= n
  BY DEF DocSane, old
<1>8. p.version = old[i].version /\ p.change = old[i].change
  BY DEF old
<1>9. \A k \in DOMAIN new : new[k].version <= n + 1
  BY <1>5, <1>6, <1>7, <1>8
<1>10. \A k \in DOMAIN new : new[k].approved =>
         /\ <<new[k].version, new[k].change>> \in B
         /\ new[k].change \notin Blocked
  <2>1. \A k \in DOMAIN old : old[k].approved =>
          /\ <<old[k].version, old[k].change>> \in B
          /\ old[k].change \notin Blocked
    BY DEF DocSane, DocApproved, old
  <2> QED
    BY <1>5, <2>1
<1>11. ASSUME Len(doc.executions) < MaxLog,
              NEW k \in DOMAIN new, new[k].status = "EXECUTED"
       PROVE  \E j \in Executed(doc) :
                /\ doc.executions[j].version = new[k].version
                /\ doc.executions[j].change = new[k].change
  <2>1. CASE k = i
    <3>1. new[k] = p /\ event = "EXECUTED_MANUAL"
      BY <1>5, <1>11, <2>1
    <3> QED
      BY <1>3, <1>11, <3>1 DEF LogKeeps
  <2>2. CASE k # i
    <3>1. new[k] = old[k] /\ k \in DOMAIN old
      BY <1>5, <1>11, <2>2
    <3>2. Len(d.executions) < MaxLog
      BY <1>3, <1>11 DEF LogKeeps
    <3>3. PICK j \in Executed(d) : /\ d.executions[j].version = old[k].version
                                   /\ d.executions[j].change = old[k].change
      BY <1>11, <3>1, <3>2 DEF DocSane, DocRecorded, old
    <3> QED
      BY <1>3, <1>11, <3>1, <3>3 DEF LogKeeps
  <2> QED
    BY <2>1, <2>2
<1>12. doc \in Docs
  <2>1. doc = [proposals |-> new, executions |-> doc.executions]
    BY DEF new
  <2> QED
    BY <1>3, <1>5, <2>1 DEF Docs, LogKeeps
<1>13. DocApproved(doc, B)
  BY <1>3, <1>10 DEF DocApproved, LogKeeps, new
<1>14. DocRecorded(doc)
  BY <1>3, <1>11 DEF DocRecorded, LogKeeps, new
<1> QED
  BY <1>3, <1>9, <1>12, <1>13, <1>14 DEF DocSane, LogKeeps, new

\* A new proposal, neither approved nor executed, leaves a sane document.
LEMMA ProposalSane ==
  ASSUME NEW d, NEW A, NEW n \in Nat, DocSane(d, A, n),
         NEW p \in Proposals, p.version <= n + 1,
         ~p.approved, p.status # "EXECUTED", NEW doc,
         doc = [proposals |-> Append(d.proposals, p),
                executions |-> Logged(d.executions, "PROPOSED", p)]
  PROVE  DocSane(doc, A, n + 1)
<1> DEFINE old == d.proposals
           new == doc.proposals
<1>1. p.version \in Nat /\ p.change \in Changes
  BY DEF Proposals
<1>2. LogKeeps(doc, d, A, "PROPOSED", p)
  <2>1. doc.executions = Logged(d.executions, "PROPOSED", p) /\ "PROPOSED" \in Events
    BY DEF Events
  <2> QED
    BY <1>1, <2>1, LogSane
<1>3. old \in Seq(Proposals) /\ new = Append(old, p)
  BY DEF DocSane, Docs
<1> HIDE DEF new, old
<1>4. /\ new \in Seq(Proposals) /\ Len(old) \in Nat
      /\ DOMAIN old = 1..Len(old) /\ DOMAIN new = 1..(Len(old) + 1)
      /\ \A k \in DOMAIN new :
           \/ k \in DOMAIN old /\ new[k] = old[k]
           \/ new[k] = p
  <2>1. Len(old) \in Nat /\ DOMAIN old = 1..Len(old)
    BY <1>3, LenProperties
  <2>2. /\ new \in Seq(Proposals) /\ Len(new) = Len(old) + 1
        /\ \A k \in 1..Len(old) : new[k] = old[k]
        /\ new[Len(old) + 1] = p
    BY <1>3, AppendProperties
  <2>3. DOMAIN new = 1..(Len(old) + 1)
    BY <2>2, LenProperties
  <2> QED
    BY <2>1, <2>2, <2>3
<1>5. \A k \in DOMAIN old : /\ old[k].version \in Nat /\ old[k].version <= n
  <2>1. \A k \in DOMAIN old : old[k] \in Proposals
    BY <1>3, ElementOfSeq, LenProperties
  <2> QED
    BY <2>1 DEF Proposals, DocSane, old
<1>6. \A k \in DOMAIN new : new[k].version <= n + 1
  BY <1>4, <1>5
<1>7. \A k \in DOMAIN new : new[k].approved =>
         /\ <<new[k].version, new[k].change>> \in A
         /\ new[k].change \notin Blocked
  <2>1. \A k \in DOMAIN old : old[k].approved =>
          /\ <<old[k].version, old[k].change>> \in A
          /\ old[k].change \notin Blocked
    BY DEF DocSane, DocApproved, old
  <2> QED
    BY <1>4, <2>1, Zenon
<1>8. ASSUME Len(doc.executions) < MaxLog,
             NEW k \in DOMAIN new, new[k].status = "EXECUTED"
      PROVE  \E j \in Executed(doc) :
               /\ doc.executions[j].version = new[k].version
               /\ doc.executions[j].change = new[k].change
  <2>1. new[k] = old[k] /\ k \in DOMAIN old
    BY <1>4, <1>8
  <2>2. PICK j \in Executed(d) : /\ d.executions[j].version = old[k].version
                                 /\ d.executions[j].change = old[k].change
    BY <1>2, <1>8, <2>1 DEF DocSane, DocRecorded, LogKeeps, old
  <2> QED
    BY <1>2, <1>8, <2>1, <2>2 DEF LogKeeps
<1>9. doc \in Docs
  <2>1. doc = [proposals |-> new, executions |-> doc.executions]
    BY DEF new
  <2> QED
    BY <1>2, <1>4, <2>1 DEF Docs, LogKeeps
<1>10. DocApproved(doc, A)
  BY <1>2, <1>7 DEF DocApproved, LogKeeps, new
<1>11. DocRecorded(doc)
  BY <1>2, <1>8 DEF DocRecorded, LogKeeps, new
<1> QED
  BY <1>2, <1>6, <1>9, <1>10, <1>11 DEF DocSane, LogKeeps, new

-----------------------------------------------------------------------------
(* The invariant                                                            *)

LEMMA InitPInv == InitProposals => PInv
<1> SUFFICES ASSUME InitProposals PROVE PInv
  OBVIOUS
<1> USE DEF InitProposals
<1>1. DocSane(meta, Confirmed, saves)
  <2>1. /\ meta.proposals = <<>> /\ meta.executions = <<>>
        /\ DOMAIN meta.proposals = {} /\ DOMAIN meta.executions = {}
    OBVIOUS
  <2>2. Executed(meta) = {}
    BY <2>1 DEF Executed
  <2>3. meta \in Docs /\ Len(meta.executions) <= MaxLog
    BY ProposalsAssumption DEF Docs
  <2> QED
    BY <2>1, <2>2, <2>3 DEF DocSane, DocApproved, DocRecorded
<1> QED
  BY <1>1, ProposalsAssumption DEF PInv

\* Saving a sane document, with more approvals, keeps the invariant.
LEMMA SaveKeeps ==
  ASSUME PInv, NEW u \in Reviewers, NEW doc, SaveMeta(u, doc),
         Confirmed \subseteq Confirmed', approvals' \subseteq Approvals,
         DocSane(doc, Confirmed', saves + 1)
  PROVE  PInv'
<1>1. saves \in Nat /\ saves' = saves + 1 /\ saves' \in 0..MaxSaves
  BY ProposalsAssumption DEF PInv, SaveMeta
<1>2. DocSane(meta', Confirmed', saves')
  BY <1>1 DEF SaveMeta
<1>3. /\ held' \in [Reviewers -> Docs \cup {NoDoc}]
      /\ \A w \in Reviewers : held'[w] # NoDoc => held'[w] = held[w]
  BY DEF PInv, SaveMeta
<1>4. ASSUME NEW w \in Reviewers, held'[w] # NoDoc
      PROVE  DocSane(held'[w], Confirmed', saves')
  <2>1. DocSane(held[w], Confirmed, saves) /\ held'[w] = held[w]
    BY <1>3, <1>4 DEF PInv
  <2>2. DocSane(held[w], Confirmed', saves')
    BY <1>1, <2>1, SaneGrows
  <2> QED
    BY <2>1, <2>2
<1> QED
  BY <1>1, <1>2, <1>3, <1>4 DEF PInv

\* The held document of a request is sane, and so is its first proposal of a version.
LEMMA HeldFacts ==
  ASSUME PInv, NEW u \in Reviewers, held[u] # NoDoc,
         NEW version, NEW i, IsFirst(held[u], i, version)
  PROVE  /\ saves \in Nat /\ DocSane(held[u], Confirmed, saves)
         /\ i \in DOMAIN held[u].proposals
         /\ held[u].proposals[i] \in Proposals
         /\ held[u].proposals[i].version = version
         /\ held[u].proposals[i].approved =>
              /\ <<version, held[u].proposals[i].change>> \in Confirmed
              /\ held[u].proposals[i].change \notin Blocked
<1>1. saves \in Nat /\ DocSane(held[u], Confirmed, saves)
  BY ProposalsAssumption DEF PInv
<1>2. i \in DOMAIN held[u].proposals /\ held[u].proposals[i].version = version
  BY DEF IsFirst
<1>3. held[u].proposals \in Seq(Proposals)
  BY <1>1 DEF DocSane, Docs
<1>4. held[u].proposals[i] \in Proposals
  BY <1>2, <1>3, ElementOfSeq, LenProperties
<1>5. held[u].proposals[i].approved =>
        /\ <<held[u].proposals[i].version, held[u].proposals[i].change>> \in Confirmed
        /\ held[u].proposals[i].change \notin Blocked
  BY <1>1, <1>2, Zenon DEF DocSane, DocApproved
<1> QED
  BY <1>1, <1>2, <1>4, <1>5

LEMMA ReadKeeps == ASSUME PInv, NEW u \in Reviewers, ReadAction(u) PROVE PInv'
<1>1. held' = [held EXCEPT ![u] = meta] /\ UNCHANGED <<meta, approvals, saves>>
  BY DEF ReadAction
<1>2. held' \in [Reviewers -> Docs \cup {NoDoc}]
  BY <1>1 DEF PInv, DocSane
<1>3. \A w \in Reviewers : held'[w] # NoDoc => DocSane(held'[w], Confirmed', saves')
  BY <1>1 DEF PInv, Confirmed
<1> QED
  BY <1>1, <1>2, <1>3 DEF PInv, Confirmed

\* A request that ends without writing the document
LEMMA AnswerKeeps ==
  ASSUME PInv, NEW u \in Reviewers, held' = [held EXCEPT ![u] = NoDoc],
         UNCHANGED <<meta, approvals, saves>>
  PROVE  PInv'
<1>1. held' \in [Reviewers -> Docs \cup {NoDoc}]
  BY DEF PInv
<1>2. \A w \in Reviewers : held'[w] # NoDoc => DocSane(held'[w], Confirmed', saves')
  BY DEF PInv, Confirmed
<1> QED
  BY <1>1, <1>2 DEF PInv, Confirmed

LEMMA ProposeKeeps ==
  ASSUME PInv, NEW u \in Reviewers, NEW change \in Changes, Propose(u, change)
  PROVE  PInv'
<1> DEFINE d == held[u]
           p == [version |-> NextVersion(d.proposals), change |-> change,
                 status |-> IF change \in Unsupported THEN "DRAFT"
                            ELSE "READY_FOR_REVIEW",
                 approved |-> FALSE]
           doc == [proposals |-> Append(d.proposals, p),
                   executions |-> Logged(d.executions, "PROPOSED", p)]
<1>1. saves \in Nat /\ DocSane(d, Confirmed, saves)
  BY ProposalsAssumption DEF PInv, Propose, Fresh
<1>2. SaveMeta(u, doc) /\ approvals' = approvals
  BY DEF Propose
<1>3. NextVersion(d.proposals) \in Nat \ {0} /\ NextVersion(d.proposals) <= saves + 1
  <2>1. /\ d.proposals \in Seq(Proposals)
        /\ \A i \in DOMAIN d.proposals : d.proposals[i].version <= saves
    BY <1>1 DEF DocSane, Docs
  <2>2. LatestVersion(d.proposals) \in 0..saves
    <3> HIDE DEF d
    <3> QED
      BY <1>1, <2>1, LatestIsGreatest
  <2> QED
    BY <1>1, <2>2 DEF NextVersion
<1>4. p \in Proposals /\ p.version <= saves + 1 /\ ~p.approved /\ p.status # "EXECUTED"
  BY <1>3 DEF Proposals, ProposalStatus
<1>5. DocSane(doc, Confirmed, saves + 1)
  <2>1. doc = [proposals |-> Append(d.proposals, p),
               executions |-> Logged(d.executions, "PROPOSED", p)]
    OBVIOUS
  <2> HIDE DEF doc, p, d
  <2> QED
    BY <1>1, <1>4, <2>1, ProposalSane
<1>6. approvals' \subseteq Approvals /\ Confirmed' = Confirmed
  BY <1>2 DEF PInv, Confirmed
<1> HIDE DEF doc, p, d
<1> QED
  BY <1>2, <1>5, <1>6, SaveKeeps

LEMMA ApproveKeeps ==
  ASSUME PInv, GivenInv, NEW u \in Reviewers, NEW version, NEW i, Approve(u, version, i)
  PROVE  PInv'
<1> DEFINE d == held[u]
           q == d.proposals[i]
           p == [q EXCEPT !.status = "APPROVED", !.approved = TRUE]
           doc == WithDecision(u, i, p, "APPROVED")
<1>1. /\ held[u] # NoDoc /\ IsFirst(held[u], i, version)
      /\ q.change \notin Blocked /\ SaveMeta(u, doc)
      /\ shown[u] # NoDoc
      /\ approvals' = approvals \cup
           {[version |-> version, shown |-> shown[u][2], change |-> q.change]}
  BY DEF Approve
<1>2. /\ saves \in Nat /\ DocSane(d, Confirmed, saves)
      /\ i \in DOMAIN d.proposals /\ q \in Proposals /\ q.version = version
  BY <1>1, HeldFacts
<1>3. doc = [proposals |-> [d.proposals EXCEPT ![i] = p],
             executions |-> Logged(d.executions, "APPROVED", p)]
  BY DEF WithDecision
<1>4. /\ p.version = q.version /\ p.change = q.change
      /\ p.status = "APPROVED" /\ p.approved
  BY <1>2 DEF Proposals
<1>5. /\ p \in Proposals
      /\ version \in Nat \ {0} /\ q.change \in Changes /\ shown[u][2] \in Changes
  BY <1>1, <1>2 DEF Proposals, ProposalStatus, GivenInv, Contents
<1>6. /\ approvals' \subseteq Approvals /\ Confirmed \subseteq Confirmed'
      /\ <<version, q.change>> \in Confirmed'
  <2> DEFINE a == [version |-> version, shown |-> shown[u][2], change |-> q.change]
  <2>1. a \in Approvals /\ a.version = version /\ a.change = q.change
    BY <1>5 DEF Approvals
  <2>2. approvals' = approvals \cup {a}
    BY <1>1
  <2> HIDE DEF a
  <2> QED
    BY <2>1, <2>2 DEF PInv, Confirmed
<1>7. <<p.version, p.change>> \in Confirmed' /\ p.change \notin Blocked
  BY <1>1, <1>2, <1>4, <1>6
<1>8. p.version = d.proposals[i].version /\ p.change = d.proposals[i].change
  BY <1>4
<1> HIDE DEF doc, p, q, d
<1>9. DocSane(doc, Confirmed', saves + 1)
  BY <1>2, <1>3, <1>4, <1>5, <1>6, <1>7, <1>8, DecisionSane DEF Events
<1> QED
  BY <1>1, <1>6, <1>9, SaveKeeps

LEMMA RejectKeeps ==
  ASSUME PInv, NEW u \in Reviewers, NEW version, NEW i, Reject(u, version, i)
  PROVE  PInv'
<1> DEFINE d == held[u]
           q == d.proposals[i]
           p == [q EXCEPT !.status = "REJECTED"]
           doc == WithDecision(u, i, p, "REJECTED")
<1>1. /\ held[u] # NoDoc /\ IsFirst(held[u], i, version)
      /\ SaveMeta(u, doc) /\ approvals' = approvals
  BY DEF Reject, Fresh
<1>2. /\ saves \in Nat /\ DocSane(d, Confirmed, saves)
      /\ i \in DOMAIN d.proposals /\ q \in Proposals /\ q.version = version
      /\ q.approved => <<version, q.change>> \in Confirmed /\ q.change \notin Blocked
  BY <1>1, HeldFacts
<1>3. doc = [proposals |-> [d.proposals EXCEPT ![i] = p],
             executions |-> Logged(d.executions, "REJECTED", p)]
  BY DEF WithDecision
<1>4. /\ p.version = q.version /\ p.change = q.change
      /\ p.status = "REJECTED" /\ p.approved = q.approved
  BY <1>2 DEF Proposals
<1>5. p \in Proposals
  BY <1>2 DEF Proposals, ProposalStatus
<1>6. approvals' \subseteq Approvals /\ Confirmed' = Confirmed
  BY <1>1 DEF PInv, Confirmed
<1>7. p.approved => <<p.version, p.change>> \in Confirmed /\ p.change \notin Blocked
  <2> HIDE DEF p, q
  <2> QED
    BY <1>2, <1>4, Zenon
<1>8. p.version = d.proposals[i].version /\ p.change = d.proposals[i].change
  BY <1>4
<1> HIDE DEF doc, p, q, d
<1>9. DocSane(doc, Confirmed, saves + 1)
  BY <1>2, <1>3, <1>4, <1>5, <1>7, <1>8, DecisionSane DEF Events
<1> QED
  BY <1>1, <1>6, <1>9, SaveKeeps

LEMMA ExecuteKeeps ==
  ASSUME PInv, NEW u \in Reviewers, NEW version, NEW i, Execute(u, version, i)
  PROVE  PInv'
<1> DEFINE d == held[u]
           q == d.proposals[i]
           p == [q EXCEPT !.status = "EXECUTED"]
           doc == WithDecision(u, i, p, "EXECUTED_MANUAL")
<1>1. /\ held[u] # NoDoc /\ IsFirst(held[u], i, version)
      /\ ApprovalValid(q, LatestVersion(d.proposals))
      /\ ~AlreadyExecuted(d, version)
      /\ SaveMeta(u, doc) /\ approvals' = approvals
  BY DEF Execute, Fresh
<1>2. /\ saves \in Nat /\ DocSane(d, Confirmed, saves)
      /\ i \in DOMAIN d.proposals /\ q \in Proposals /\ q.version = version
      /\ q.approved => <<version, q.change>> \in Confirmed /\ q.change \notin Blocked
  BY <1>1, HeldFacts
<1>3. doc = [proposals |-> [d.proposals EXCEPT ![i] = p],
             executions |-> Logged(d.executions, "EXECUTED_MANUAL", p)]
  BY DEF WithDecision
<1>4. /\ p.version = q.version /\ p.change = q.change
      /\ p.status = "EXECUTED" /\ p.approved = q.approved
  BY <1>2 DEF Proposals
<1>5. p \in Proposals
  BY <1>2 DEF Proposals, ProposalStatus
<1>6. approvals' \subseteq Approvals /\ Confirmed' = Confirmed
  BY <1>1 DEF PInv, Confirmed
<1>7. /\ p.approved /\ ~AlreadyExecuted(d, p.version)
      /\ <<p.version, p.change>> \in Confirmed /\ p.change \notin Blocked
  <2> HIDE DEF p, q, d
  <2>1. q.approved
    BY <1>1 DEF ApprovalValid
  <2> QED
    BY <1>1, <1>2, <1>4, <2>1, Zenon
<1>8. p.version = d.proposals[i].version /\ p.change = d.proposals[i].change
  BY <1>4
<1> HIDE DEF doc, p, q, d
<1>9. DocSane(doc, Confirmed, saves + 1)
  BY <1>2, <1>3, <1>4, <1>5, <1>7, <1>8, DecisionSane DEF Events
<1> QED
  BY <1>1, <1>6, <1>9, SaveKeeps

LEMMA StepPInv == PInv /\ GivenInv /\ [NextProposals]_proposalVars => PInv'
<1> SUFFICES ASSUME PInv, GivenInv, [NextProposals]_proposalVars PROVE PInv'
  OBVIOUS
<1>1. CASE UNCHANGED proposalVars
  BY <1>1 DEF proposalVars, PInv, Confirmed
<1>2. CASE NextProposals
  <2>1. PICK u \in Reviewers :
          \/ ReadAction(u)
          \/ AnswerOnly(u)
          \/ \E change \in Changes : Propose(u, change)
          \/ \E version, i \in 1..MaxSaves :
               \/ AskConfirmation(u, version, i)
               \/ Approve(u, version, i)
               \/ Reject(u, version, i)
               \/ Execute(u, version, i)
    BY <1>2 DEF NextProposals
  <2>2. CASE AnswerOnly(u) \/ \E version, i \in 1..MaxSaves : AskConfirmation(u, version, i)
    <3>1. held' = [held EXCEPT ![u] = NoDoc] /\ UNCHANGED <<meta, approvals, saves>>
      BY <2>2 DEF AnswerOnly, AskConfirmation
    <3> QED
      BY <3>1, AnswerKeeps
  <2> QED
    BY <2>1, <2>2, ReadKeeps, ProposeKeeps, ApproveKeeps, RejectKeeps, ExecuteKeeps
<1> QED
  BY <1>1, <1>2

-----------------------------------------------------------------------------
(* What was given                                                           *)

LEMMA InitGivenInv == InitProposals => GivenInv
BY DEF InitProposals, GivenInv, DocGiven

\* A decision keeps the contents of the document it is about.
LEMMA DecisionGiven ==
  ASSUME PInv, GivenInv, NEW u \in Reviewers, held[u] # NoDoc,
         NEW version, NEW i, IsFirst(held[u], i, version),
         NEW p, p.version = version, p.change = held[u].proposals[i].change,
         NEW event, given \subseteq given'
  PROVE  LET doc == WithDecision(u, i, p, event)
         IN \A k \in DOMAIN doc.proposals :
              <<doc.proposals[k].version, doc.proposals[k].change>> \in given'
<1> DEFINE d == held[u]
           doc == WithDecision(u, i, p, event)
<1>1. doc.proposals = [d.proposals EXCEPT ![i] = p]
  BY DEF WithDecision
<1>2. i \in DOMAIN d.proposals /\ d.proposals[i].version = version
  BY DEF IsFirst
<1>3. d.proposals \in Seq(Proposals)
  BY DEF PInv, DocSane, Docs
<1>4. \A k \in DOMAIN d.proposals :
        <<d.proposals[k].version, d.proposals[k].change>> \in given'
  BY DEF GivenInv, DocGiven
<1>5. DOMAIN doc.proposals = DOMAIN d.proposals
  BY <1>1
<1>6. ASSUME NEW k \in DOMAIN d.proposals
      PROVE  <<doc.proposals[k].version, doc.proposals[k].change>> \in given'
  <2>1. CASE k = i
    <3>1. doc.proposals[k] = p
      BY <1>1, <1>2, <2>1
    <3>2. p.version = d.proposals[k].version /\ p.change = d.proposals[k].change
      BY <1>2, <2>1
    <3> HIDE DEF doc, d
    <3> QED
      BY <1>4, <3>1, <3>2
  <2>2. CASE k # i
    <3>1. doc.proposals[k] = d.proposals[k]
      BY <1>1, <1>2, <2>2
    <3> HIDE DEF doc, d
    <3> QED
      BY <1>4, <3>1
  <2> QED
    BY <2>1, <2>2
<1> QED
  BY <1>5, <1>6

\* Saving a document all of whose contents were given keeps the invariant.
LEMMA SaveGiven ==
  ASSUME PInv, GivenInv, NEW u \in Reviewers, NEW doc, SaveMeta(u, doc),
         given \subseteq given', given' \subseteq Contents,
         \A i \in DOMAIN doc.proposals :
           <<doc.proposals[i].version, doc.proposals[i].change>> \in given',
         \A a \in approvals' : <<a.version, a.shown>> \in given'
  PROVE  GivenInv'
<1>1. /\ meta' = doc
      /\ held' = [held EXCEPT ![u] = NoDoc] /\ shown' = [shown EXCEPT ![u] = NoDoc]
  BY DEF SaveMeta
<1>2. shown' \in [Reviewers -> Contents \cup {NoDoc}]
  BY <1>1 DEF GivenInv
<1>3. \A w \in Reviewers : shown'[w] # NoDoc => shown'[w] \in given'
  BY <1>1 DEF GivenInv
<1>4. DocGiven(meta)'
  BY <1>1 DEF DocGiven
<1>5. ASSUME NEW w \in Reviewers, held'[w] # NoDoc PROVE DocGiven(held[w])'
  <2>1. held'[w] = held[w] /\ held[w] # NoDoc
    BY <1>1, <1>5 DEF PInv
  <2> QED
    BY <2>1 DEF GivenInv, DocGiven
<1> QED
  BY <1>2, <1>3, <1>4, <1>5 DEF GivenInv

LEMMA StepGivenInv == PInv /\ GivenInv /\ [NextProposals]_proposalVars => GivenInv'
<1> SUFFICES ASSUME PInv, GivenInv, [NextProposals]_proposalVars PROVE GivenInv'
  OBVIOUS
<1>1. CASE UNCHANGED proposalVars
  BY <1>1 DEF proposalVars, GivenInv, DocGiven
<1>2. ASSUME NEW u \in Reviewers, ReadAction(u) PROVE GivenInv'
  <2>1. /\ held' = [held EXCEPT ![u] = meta]
        /\ UNCHANGED <<meta, shown, approvals, given>>
    BY <1>2 DEF ReadAction
  <2>2. ASSUME NEW w \in Reviewers, held'[w] # NoDoc PROVE DocGiven(held[w])'
    <3>1. held'[w] = meta \/ held'[w] = held[w]
      BY <2>1 DEF PInv
    <3> QED
      BY <2>1, <2>2, <3>1 DEF GivenInv, DocGiven
  <2>3. DocGiven(meta)'
    BY <2>1 DEF GivenInv, DocGiven
  <2> QED
    BY <2>1, <2>2, <2>3 DEF GivenInv
<1>3. ASSUME NEW u \in Reviewers, AnswerOnly(u) PROVE GivenInv'
  <2>1. /\ held' = [held EXCEPT ![u] = NoDoc] /\ shown' = [shown EXCEPT ![u] = NoDoc]
        /\ UNCHANGED <<meta, approvals, given>>
    BY <1>3 DEF AnswerOnly
  <2>2. ASSUME NEW w \in Reviewers, held'[w] # NoDoc PROVE DocGiven(held[w])'
    <3>1. held'[w] = held[w]
      BY <2>1, <2>2 DEF PInv
    <3> QED
      BY <2>1, <2>2, <3>1 DEF GivenInv, DocGiven
  <2>3. DocGiven(meta)'
    BY <2>1 DEF GivenInv, DocGiven
  <2> QED
    BY <2>1, <2>2, <2>3 DEF GivenInv
<1>4. ASSUME NEW u \in Reviewers, NEW version, NEW i, AskConfirmation(u, version, i)
      PROVE  GivenInv'
  <2> DEFINE x == <<version, held[u].proposals[i].change>>
  <2>1. /\ held' = [held EXCEPT ![u] = NoDoc] /\ shown' = [shown EXCEPT ![u] = x]
        /\ UNCHANGED <<meta, approvals, given>>
        /\ held[u] # NoDoc /\ IsFirst(held[u], i, version)
    BY <1>4 DEF AskConfirmation, Fresh
  <2>2. x \in given
    <3>1. DocGiven(held[u])
      BY <2>1 DEF GivenInv
    <3> QED
      BY <2>1, <3>1 DEF DocGiven, IsFirst
  <2>3. ASSUME NEW w \in Reviewers, held'[w] # NoDoc PROVE DocGiven(held[w])'
    <3>1. held'[w] = held[w]
      BY <2>1, <2>3 DEF PInv
    <3> QED
      BY <2>1, <2>3, <3>1 DEF GivenInv, DocGiven
  <2>4. DocGiven(meta)'
    BY <2>1 DEF GivenInv, DocGiven
  <2> HIDE DEF x
  <2>5. /\ shown' \in [Reviewers -> Contents \cup {NoDoc}]
        /\ \A w \in Reviewers : shown'[w] # NoDoc => shown'[w] \in given
    BY <2>1, <2>2 DEF GivenInv
  <2> QED
    BY <2>1, <2>3, <2>4, <2>5 DEF GivenInv
<1>5. ASSUME NEW u \in Reviewers, NEW change \in Changes, Propose(u, change)
      PROVE  GivenInv'
  <2> DEFINE d == held[u]
             p == [version |-> NextVersion(d.proposals), change |-> change,
                   status |-> IF change \in Unsupported THEN "DRAFT"
                              ELSE "READY_FOR_REVIEW",
                   approved |-> FALSE]
             doc == [proposals |-> Append(d.proposals, p),
                     executions |-> Logged(d.executions, "PROPOSED", p)]
             x == <<p.version, change>>
  <2>1. /\ d # NoDoc /\ SaveMeta(u, doc) /\ given' = given \cup {x}
        /\ approvals' = approvals
    BY <1>5 DEF Propose, Fresh
  <2>2. /\ d.proposals \in Seq(Proposals) /\ saves \in Nat
        /\ \A k \in DOMAIN d.proposals : d.proposals[k].version <= saves
    BY <2>1, ProposalsAssumption DEF PInv, DocSane, Docs
  <2>3. LatestVersion(d.proposals) \in 0..saves
    <3> HIDE DEF d
    <3> QED
      BY <2>2, LatestIsGreatest
  <2>4. NextVersion(d.proposals) \in Nat \ {0}
    BY <2>2, <2>3 DEF NextVersion
  <2>5. x \in Contents
    BY <2>4 DEF Contents
  <2>6. \A k \in DOMAIN d.proposals : <<d.proposals[k].version, d.proposals[k].change>> \in given
    BY <2>1 DEF GivenInv, DocGiven
  <2>7. p \in Proposals /\ p.change = change
    BY <2>4 DEF Proposals, ProposalStatus
  <2>8. doc.proposals = Append(d.proposals, p)
    OBVIOUS
  <2> HIDE DEF doc, p, d
  <2>9. ASSUME NEW k \in DOMAIN doc.proposals
        PROVE  <<doc.proposals[k].version, doc.proposals[k].change>> \in given'
    <3>1. \/ k \in DOMAIN d.proposals /\ doc.proposals[k] = d.proposals[k]
          \/ doc.proposals[k] = p
      BY <2>2, <2>7, <2>8, <2>9, AppendProperties
    <3>2. CASE k \in DOMAIN d.proposals /\ doc.proposals[k] = d.proposals[k]
      BY <2>1, <2>6, <3>2
    <3>3. CASE doc.proposals[k] = p
      BY <2>1, <2>7, <3>3
    <3> QED
      BY <3>1, <3>2, <3>3
  <2> HIDE DEF x
  <2>10. /\ given \subseteq given' /\ given' \subseteq Contents
         /\ \A a \in approvals' : <<a.version, a.shown>> \in given'
    BY <2>1, <2>5 DEF GivenInv
  <2> QED
    BY <2>1, <2>9, <2>10, SaveGiven
<1>6. ASSUME NEW u \in Reviewers, NEW version, NEW i, Approve(u, version, i)
      PROVE  GivenInv'
  <2> DEFINE q == held[u].proposals[i]
             p == [q EXCEPT !.status = "APPROVED", !.approved = TRUE]
             doc == WithDecision(u, i, p, "APPROVED")
             a == [version |-> version, shown |-> shown[u][2], change |-> q.change]
  <2>1. /\ held[u] # NoDoc /\ IsFirst(held[u], i, version) /\ SaveMeta(u, doc)
        /\ shown[u] # NoDoc /\ shown[u][1] = version
        /\ approvals' = approvals \cup {a} /\ given' = given
    BY <1>6 DEF Approve
  <2>2. q \in Proposals /\ q.version = version
    BY <2>1, HeldFacts
  <2>3. p.version = version /\ p.change = held[u].proposals[i].change
    BY <2>2 DEF Proposals
  <2>4. <<a.version, a.shown>> \in given
    <3>1. shown[u] \in given /\ shown[u] \in Contents
      BY <2>1 DEF GivenInv
    <3>2. shown[u] = <<shown[u][1], shown[u][2]>>
      BY <3>1 DEF Contents
    <3> QED
      BY <2>1, <3>1, <3>2
  <2> HIDE DEF p, q, a
  <2>5. \A k \in DOMAIN doc.proposals :
          <<doc.proposals[k].version, doc.proposals[k].change>> \in given'
    BY <2>1, <2>3, DecisionGiven
  <2> HIDE DEF doc
  <2>6. /\ given' \subseteq Contents
        /\ \A b \in approvals' : <<b.version, b.shown>> \in given'
    BY <2>1, <2>4 DEF GivenInv
  <2> QED
    BY <2>1, <2>5, <2>6, SaveGiven
<1>7. ASSUME NEW u \in Reviewers, NEW version, NEW i,
             Reject(u, version, i) \/ Execute(u, version, i)
      PROVE  GivenInv'
  <2> DEFINE q == held[u].proposals[i]
  <2>1. /\ held[u] # NoDoc /\ IsFirst(held[u], i, version)
        /\ approvals' = approvals /\ given' = given
    BY <1>7 DEF Reject, Execute, Fresh
  <2>2. PICK status \in {"REJECTED", "EXECUTED"}, event \in Events :
          SaveMeta(u, WithDecision(u, i, [q EXCEPT !.status = status], event))
    BY <1>7 DEF Reject, Execute, Events
  <2> DEFINE p == [q EXCEPT !.status = status]
             doc == WithDecision(u, i, p, event)
  <2>3. q \in Proposals /\ q.version = version
    BY <2>1, HeldFacts
  <2>4. p.version = version /\ p.change = held[u].proposals[i].change
    BY <2>3 DEF Proposals
  <2>5. SaveMeta(u, doc)
    BY <2>2
  <2> HIDE DEF p, q
  <2>6. \A k \in DOMAIN doc.proposals :
          <<doc.proposals[k].version, doc.proposals[k].change>> \in given'
    BY <2>1, <2>4, DecisionGiven
  <2> HIDE DEF doc
  <2>7. /\ given' \subseteq Contents
        /\ \A b \in approvals' : <<b.version, b.shown>> \in given'
    BY <2>1 DEF GivenInv
  <2> QED
    BY <2>1, <2>5, <2>6, <2>7, SaveGiven
<1> QED
  BY <1>1, <1>2, <1>3, <1>4, <1>5, <1>6, <1>7 DEF NextProposals

LEMMA PInvHolds == SpecProposals => [](PInv /\ GivenInv)
BY InitPInv, InitGivenInv, StepPInv, StepGivenInv, PTL DEF SpecProposals

-----------------------------------------------------------------------------
(* Theorems                                                                 *)

\* ProposalsTypeOK for every size: the document, what requests hold, what is
\* shown, and the histories have their types, and the log is never longer than
\* MAX_LOG.
THEOREM TypeCorrectProposals == SpecProposals => []ProposalsTypeOK
<1>1. PInv /\ GivenInv => ProposalsTypeOK
  BY DEF PInv, GivenInv, DocSane, ProposalsTypeOK
<1> QED
  BY <1>1, PInvHolds, PTL

\* For any number of requests overwriting each other's document (saveMeta), what
\* is recorded as executed was approved by a confirmed request with that version
\* and content and is of no blocked class; and it is what the reviewer was shown
\* before confirming, unless a stale document gave the number to other content.
THEOREM ExecutionNeedsApproval == SpecProposals => []ExecutedWasApproved
<1>1. PInv /\ GivenInv => ExecutedWasApproved
  <2> SUFFICES ASSUME PInv, GivenInv, NEW i \in Executed(meta)
               PROVE  LET e == meta.executions[i]
                      IN /\ e.change \notin Blocked
                         /\ \E a \in approvals :
                              /\ a.version = e.version /\ a.change = e.change
                              /\ OnlyContent(e.version, e.change) => a.shown = e.change
    BY DEF ExecutedWasApproved
  <2> DEFINE e == meta.executions[i]
  <2>1. <<e.version, e.change>> \in Confirmed /\ e.change \notin Blocked
    BY DEF PInv, DocSane, DocApproved
  <2>2. PICK a \in approvals : a.version = e.version /\ a.change = e.change
    BY <2>1 DEF Confirmed
  <2>3. <<a.version, a.shown>> \in given
    BY DEF GivenInv
  <2>4. OnlyContent(e.version, e.change) => a.shown = e.change
    BY <2>2, <2>3 DEF OnlyContent
  <2> QED
    BY <2>1, <2>2, <2>4
<1> QED
  BY <1>1, PInvHolds, PTL

\* No version is executed twice on record, and an uncut log holds the record of
\* every proposal that says EXECUTED: the lookup before an execution is enough.
THEOREM ExecutionRecordedOnce == SpecProposals => []ExecutionsOnRecord
<1>1. PInv => ExecutionsOnRecord
  BY DEF PInv, DocSane, DocRecorded, ExecutionsOnRecord
<1> QED
  BY <1>1, PInvHolds, PTL
=============================================================================
