--------------------------- MODULE ActionProposals ---------------------------
(***************************************************************************)
(* Governed execution of one growth action:                                  *)
(* backend/src/actions/action-execution.service.ts and its pure functions in *)
(* action-execution.ts.  The versioned proposals and the log of executions   *)
(* are one JSON document, Action.metadata.  Every operation reads the whole  *)
(* document (action), decides, and writes the whole document back            *)
(* (saveMeta): between the two any other request may do the same.            *)
(*                                                                          *)
(* A change stands for the proposed content with its target element.  The    *)
(* target URL is the action's own, so a version determines the idempotency   *)
(* key.                                                                     *)
(*                                                                          *)
(* A reviewer is a page of the frontend (frontend/src/app/execution/         *)
(* page.tsx), which sends one request at a time and approves in two: the     *)
(* first is answered with the content of the version, the second says        *)
(* confirmed for that version.  An action begins without proposals: the      *)
(* callers of createAction in the repository send metadata without them.     *)
(***************************************************************************)
EXTENDS Integers, Sequences

CONSTANTS
  Reviewers,    \* pages on which members of the workspace review the action
  Changes,      \* contents a proposal may ask for
  Blocked,      \* changes whose target element is of a BLOCKED class
  Unsupported,  \* changes that the attached evidence does not support
  MaxLog,       \* MAX_LOG: entries the execution log keeps
  MaxSaves,     \* bound on the documents written
  NoDoc         \* nothing read, or nothing shown

ASSUME ProposalsAssumption ==
  /\ Blocked \subseteq Changes /\ Unsupported \subseteq Changes
  /\ MaxLog \in Nat \ {0} /\ MaxSaves \in Nat

VARIABLES
  meta,       \* Action.metadata in the database
  held,       \* what each reviewer's request has read and not yet answered
  shown,      \* the version and content each reviewer is asked to confirm
  saves,      \* documents written so far
  approvals,  \* history: what was shown and what was approved at each approval
  given       \* history: every content a version number was given to

proposalVars == <<meta, held, shown, saves, approvals, given>>

ProposalStatus == {"DRAFT", "READY_FOR_REVIEW", "APPROVED", "REJECTED", "EXECUTED"}
Events == {"PROPOSED", "APPROVED", "REJECTED", "EXECUTED_MANUAL"}

Proposals == [version : Nat \ {0}, change : Changes, status : ProposalStatus,
              approved : BOOLEAN]
Contents == (Nat \ {0}) \X Changes
Approvals == [version : Nat \ {0}, shown : Changes, change : Changes]
LogEntries == [event : Events, version : Nat, change : Changes]
Docs == [proposals : Seq(Proposals), executions : Seq(LogEntries)]

InitProposals ==
  /\ meta = [proposals |-> <<>>, executions |-> <<>>]
  /\ held = [u \in Reviewers |-> NoDoc]
  /\ shown = [u \in Reviewers |-> NoDoc]
  /\ saves = 0 /\ approvals = {} /\ given = {}

-----------------------------------------------------------------------------
(* The pure functions of action-execution.ts                                *)

\* The highest version of a document, 0 when it has no proposal.
LatestVersion(proposals) ==
  LET versions == {0} \cup {proposals[i].version : i \in DOMAIN proposals}
  IN CHOOSE v \in versions : \A w \in versions : w <= v

NextVersion(proposals) == LatestVersion(proposals) + 1

\* Fault: the version is compared and the status is not.
ApprovalValidByVersion(p, current) == p.version = current
\* approvalValid
ApprovalValid(p, current) ==
  /\ p.status = "APPROVED" /\ p.approved
  /\ p.version = current

\* Fault: nothing is dropped from the log.
KeepAll(log) == log
\* log.slice(-MAX_LOG)
KeepNewest(log) ==
  IF Len(log) <= MaxLog THEN log
  ELSE SubSeq(log, Len(log) - MaxLog + 1, Len(log))

\* The log of a document after one more event about proposal p.
Logged(log, event, p) ==
  KeepNewest(Append(log, [event |-> event, version |-> p.version,
                          change |-> p.change]))

\* Fault: the execution is not looked up before it is recorded.
NeverExecuted(doc, version) == FALSE
\* The record that makes a repeated execution idempotent.
AlreadyExecuted(doc, version) ==
  \E i \in DOMAIN doc.executions :
    /\ doc.executions[i].event = "EXECUTED_MANUAL"
    /\ doc.executions[i].version = version

\* existing.find(entry => entry.version === version), by its index
IsFirst(doc, i, version) ==
  /\ i \in DOMAIN doc.proposals /\ doc.proposals[i].version = version
  /\ \A j \in 1..(i - 1) : doc.proposals[j].version # version

-----------------------------------------------------------------------------
(* Requests                                                                 *)

\* Every operation begins by reading the action's row.
ReadAction(u) ==
  /\ held[u] = NoDoc /\ saves < MaxSaves
  /\ held' = [held EXCEPT ![u] = meta]
  /\ UNCHANGED <<meta, shown, saves, approvals, given>>

\* A request that writes nothing: a read, a missing version, a refusal, also of
\* what was shown, a repeated execution, an unsupported method.
AnswerOnly(u) ==
  /\ held[u] # NoDoc
  /\ held' = [held EXCEPT ![u] = NoDoc] /\ shown' = [shown EXCEPT ![u] = NoDoc]
  /\ UNCHANGED <<meta, saves, approvals, given>>

SaveMeta(u, doc) ==
  /\ saves < MaxSaves
  /\ meta' = doc
  /\ held' = [held EXCEPT ![u] = NoDoc] /\ shown' = [shown EXCEPT ![u] = NoDoc]
  /\ saves' = saves + 1

\* The document u holds with its i-th proposal now p and the event logged.
WithDecision(u, i, p, event) ==
  [proposals |-> [held[u].proposals EXCEPT ![i] = p],
   executions |-> Logged(held[u].executions, event, p)]

\* The request has read the document and is not the second of an approval.
Fresh(u) == held[u] # NoDoc /\ shown[u] = NoDoc

Propose(u, change) ==
  /\ Fresh(u)
  /\ LET p == [version |-> NextVersion(held[u].proposals), change |-> change,
               status |-> IF change \in Unsupported THEN "DRAFT"
                          ELSE "READY_FOR_REVIEW",
               approved |-> FALSE]
     IN /\ SaveMeta(u, [proposals |-> Append(held[u].proposals, p),
                        executions |-> Logged(held[u].executions, "PROPOSED", p)])
        /\ given' = given \cup {<<p.version, change>>}
  /\ UNCHANGED approvals

\* approve without confirmed: answers with the content, of any class.
AskConfirmation(u, version, i) ==
  /\ Fresh(u) /\ IsFirst(held[u], i, version)
  /\ held[u].proposals[i].status # "REJECTED"
  /\ shown' = [shown EXCEPT ![u] = <<version, held[u].proposals[i].change>>]
  /\ held' = [held EXCEPT ![u] = NoDoc]
  /\ UNCHANGED <<meta, saves, approvals, given>>

\* approve with confirmed, for the version shown: what carries the number in
\* the document read again is approved.
Approve(u, version, i) ==
  /\ held[u] # NoDoc /\ IsFirst(held[u], i, version)
  /\ shown[u] # NoDoc /\ shown[u][1] = version
  /\ LET p == held[u].proposals[i]
     IN /\ p.status # "REJECTED" /\ p.change \notin Blocked
        /\ SaveMeta(u, WithDecision(u, i,
                         [p EXCEPT !.status = "APPROVED", !.approved = TRUE],
                         "APPROVED"))
        /\ approvals' = approvals \cup
             {[version |-> version, shown |-> shown[u][2], change |-> p.change]}
  /\ UNCHANGED given

Reject(u, version, i) ==
  /\ Fresh(u) /\ IsFirst(held[u], i, version)
  /\ SaveMeta(u, WithDecision(u, i,
                   [held[u].proposals[i] EXCEPT !.status = "REJECTED"],
                   "REJECTED"))
  /\ UNCHANGED <<approvals, given>>

\* No integration writes to a site: the manual, copied or exported change is
\* recorded.
Execute(u, version, i) ==
  /\ Fresh(u) /\ IsFirst(held[u], i, version)
  /\ LET p == held[u].proposals[i]
     IN /\ ApprovalValid(p, LatestVersion(held[u].proposals))
        /\ ~AlreadyExecuted(held[u], version)
        /\ SaveMeta(u, WithDecision(u, i, [p EXCEPT !.status = "EXECUTED"],
                                    "EXECUTED_MANUAL"))
  /\ UNCHANGED <<approvals, given>>

NextProposals ==
  \E u \in Reviewers :
    \/ ReadAction(u)
    \/ AnswerOnly(u)
    \/ \E change \in Changes : Propose(u, change)
    \/ \E version, i \in 1..MaxSaves :
         \/ AskConfirmation(u, version, i)
         \/ Approve(u, version, i)
         \/ Reject(u, version, i)
         \/ Execute(u, version, i)

SpecProposals == InitProposals /\ [][NextProposals]_proposalVars

-----------------------------------------------------------------------------
(* Properties                                                               *)

\* Types of the document, of what requests hold, and of the history.
ProposalsTypeOK ==
  /\ meta \in Docs /\ Len(meta.executions) <= MaxLog
  /\ held \in [Reviewers -> Docs \cup {NoDoc}]
  /\ shown \in [Reviewers -> Contents \cup {NoDoc}]
  /\ saves \in 0..MaxSaves
  /\ approvals \subseteq Approvals /\ given \subseteq Contents

Executed(doc) == {i \in DOMAIN doc.executions :
                    doc.executions[i].event = "EXECUTED_MANUAL"}

\* "You are approving this exact change for this exact URL": what an approval
\* approves is what the reviewer was shown.
ApprovedAsShown == \A a \in approvals : a.change = a.shown

\* No other content was ever given the version number.
OnlyContent(version, change) ==
  \A x \in given : x[1] = version => x[2] = change

\* "ALL WRITES REQUIRE HUMAN APPROVAL": whatever requests overwrite each
\* other's document, every execution on record is of a version and content that
\* a confirmed request approved, and never of a blocked class; and if no stale
\* document gave the number to another content, the content executed is the
\* one that the reviewer was shown.
ExecutedWasApproved ==
  \A i \in Executed(meta) :
    LET e == meta.executions[i]
    IN /\ e.change \notin Blocked
       /\ \E a \in approvals :
            /\ a.version = e.version /\ a.change = e.change
            /\ OnlyContent(e.version, e.change) => a.shown = e.change

\* A version is executed at most once on record, and as long as the log was
\* not cut a proposal that says EXECUTED has the record that makes a second
\* execution idempotent, also after it was approved again in between.
ExecutionsOnRecord ==
  /\ \A i, j \in Executed(meta) :
       meta.executions[i].version = meta.executions[j].version => i = j
  /\ Len(meta.executions) < MaxLog =>
       \A k \in DOMAIN meta.proposals :
         meta.proposals[k].status = "EXECUTED" =>
           \E i \in Executed(meta) :
             /\ meta.executions[i].version = meta.proposals[k].version
             /\ meta.executions[i].change = meta.proposals[k].change
=============================================================================
