---------------------------- MODULE GrowthActions ----------------------------
(***************************************************************************)
(* Where growth actions come from and what becomes of them:                 *)
(* backend/src/actions/actions.service.ts (createAction, updateStatus,      *)
(* deleteAction), createActionFromRecommendation of                         *)
(* recommendations/recommendations.service.ts, runAgent and                 *)
(* approveAndExecute of agents/agents.service.ts, and checkActionAllowance  *)
(* of billing/billing.service.ts.                                           *)
(*                                                                          *)
(* A request is one step per round trip to the database.  Nothing locks an  *)
(* action, a recommendation or a run between two of them, and no unique key *)
(* ties an action to its recommendation.                                    *)
(***************************************************************************)
EXTENDS Integers, Sequences, FiniteSets

CONSTANTS
  ActionRequests, \* requests that may be under way together: the code limits
                  \* neither them nor how many of them one member sends
  Recs,           \* recommendations of sources that may seed an action
  AgentRuns,      \* runs an agent may make
  Careful,        \* those of agents with approvalRequired
  ProposalLists,  \* what a runner may propose: sequences of recommendations,
                  \* Plain and Report
  Plain, Report,  \* a proposal without a recommendation; a report
  Allowance,      \* AI_GROWTH_ACTIONS of the plan, for this month
  MaxActions,     \* bound on the rows ever created
  MaxRequests,    \* bound on the requests ever begun
  None

ASSUME GrowthAssumption ==
  /\ IsFiniteSet(ActionRequests) /\ ActionRequests # {}
  /\ Careful \subseteq AgentRuns
  /\ Allowance \in Nat /\ MaxActions \in Nat /\ MaxRequests \in Nat
  /\ {Plain, Report, None} \cap Recs = {} /\ None \notin AgentRuns
  /\ Plain # Report
  /\ ProposalLists \subseteq Seq(Recs \cup {Plain, Report})

VARIABLES
  actions,   \* Action rows by creation; a deleted row keeps its place
  recs,      \* Recommendation.status
  agentRuns, \* AgentRun rows
  request,   \* what each request has done so far
  requests,  \* requests begun so far
  carried    \* history: what the execution that last ended well was asked

growthVars == <<actions, recs, agentRuns, request, requests, carried>>

RecStatus == {"OPEN", "IN_PROGRESS", "COMPLETED", "DISMISSED"}
ActionStatus == {"TODO", "IN_PROGRESS", "DONE", "DISMISSED"}

\* seeded: created from the recommendation; by: the run whose approval did it;
\* sited: the action names a website, and only then counts for the month.
Actions == [rec : Recs \cup {None}, seeded : BOOLEAN,
            by : AgentRuns \cup {None}, sited : BOOLEAN,
            status : ActionStatus \cup {"deleted"}]

Idle == [step |-> "idle", run |-> None, approve |-> FALSE,
         selected |-> <<>>, todo |-> <<>>,
         ids |-> <<>>, rec |-> None, seeded |-> FALSE, sited |-> FALSE,
         target |-> 0, status |-> "TODO"]

InitGrowth ==
  /\ actions = <<>>
  /\ recs = [r \in Recs |-> "OPEN"]
  /\ agentRuns = [r \in AgentRuns |->
                    [status |-> "none", approval |-> "NOT_REQUIRED",
                     proposals |-> <<>>, executed |-> <<>>]]
  /\ request = [u \in ActionRequests |-> Idle]
  /\ requests = 0
  /\ carried = [r \in AgentRuns |-> [approve |-> FALSE, selected |-> <<>>]]

Live == {a \in DOMAIN actions : actions[a].status # "deleted"}

-----------------------------------------------------------------------------
(* The allowance of the month                                               *)

Counted == {a \in Live : actions[a].sited}

\* Fault: the comparison lets the limit itself pass.
AllowanceInclusive == Cardinality(Counted) <= Allowance
\* checkActionAllowance
WithinAllowance == Cardinality(Counted) < Allowance

-----------------------------------------------------------------------------
(* A request arrives, of whichever member.                                  *)
Begin(u) ==
  /\ request[u] = Idle /\ requests < MaxRequests
  /\ requests' = requests + 1

-----------------------------------------------------------------------------
(* Steps that every way to an action shares                                 *)

\* The request goes on with the run's next proposal, or answers.
Deliver(u, id) ==
  request' = [request EXCEPT ![u] =
    IF request[u].run = None THEN Idle
    ELSE [@ EXCEPT !.step = "next", !.todo = Tail(request[u].todo),
                   !.ids = Append(request[u].ids, id),
                   !.rec = None, !.seeded = FALSE, !.sited = FALSE]]

\* An exception: out of the execution's loop into its handler, or an error.
Throw(u) ==
  request' = [request EXCEPT ![u] =
    IF request[u].run = None \/ request[u].step = "stop" THEN Idle
    ELSE [@ EXCEPT !.step = "stop"]]

\* Dismissed and completed recommendations stay final.
Open(r) == recs[r] \in {"OPEN", "IN_PROGRESS"}

\* Fault: an action that an agent's run created is not looked for.
ExistingByHand(r) == {a \in Live : actions[a].rec = r /\ actions[a].by = None}
\* action.findFirst where recommendationId
Existing(r) == {a \in Live : actions[a].rec = r}

SeekAction(u) ==
  /\ request[u].step = "seek"
  /\ IF Existing(request[u].rec) = {}
     THEN request' = [request EXCEPT ![u].step = "allow"]
     ELSE \E a \in Existing(request[u].rec) : Deliver(u, a)
  /\ UNCHANGED <<actions, recs, agentRuns, requests, carried>>

CheckAllowance(u) ==
  /\ request[u].step = "allow"
  /\ IF WithinAllowance
     THEN request' = [request EXCEPT ![u].step = "create"]
     ELSE Throw(u)
  /\ UNCHANGED <<actions, recs, agentRuns, requests, carried>>

CreateRow(u) ==
  /\ request[u].step = "create" /\ Len(actions) < MaxActions
  /\ actions' = Append(actions,
       [rec |-> request[u].rec, seeded |-> request[u].seeded,
        by |-> request[u].run, sited |-> request[u].sited, status |-> "TODO"])
  /\ Deliver(u, Len(actions) + 1)
  /\ UNCHANGED <<recs, agentRuns, requests, carried>>

\* The database refuses a statement of a request.
DatabaseError(u) ==
  /\ \/ request[u].step \in {"seek", "allow", "create", "status", "follow", "stop"}
     \/ request[u].step = "next" /\ request[u].todo = <<>>
  /\ Throw(u)
  /\ UNCHANGED <<actions, recs, agentRuns, requests, carried>>

-----------------------------------------------------------------------------
(* Actions                                                                  *)

\* POST /actions: the relations are checked, not the state of the
\* recommendation nor whether it has an action.
PostAction(u, r, sited) ==
  /\ Begin(u)
  /\ request' = [request EXCEPT ![u] =
                   [@ EXCEPT !.step = "allow", !.rec = r, !.sited = sited]]
  /\ UNCHANGED <<actions, recs, agentRuns, carried>>

\* createActionFromRecommendation, up to its first decision
ConvertRec(u, r) ==
  /\ Begin(u) /\ Open(r)
  /\ request' = [request EXCEPT ![u] =
                   [@ EXCEPT !.step = "seek", !.rec = r, !.seeded = TRUE,
                             !.sited = TRUE]]
  /\ UNCHANGED <<actions, recs, agentRuns, carried>>

ReadForStatus(u, a, status) ==
  /\ Begin(u) /\ a \in Live
  /\ request' = [request EXCEPT ![u] =
                   [@ EXCEPT !.step = "status", !.target = a,
                             !.rec = actions[a].rec, !.status = status]]
  /\ UNCHANGED <<actions, recs, agentRuns, carried>>

\* action.update, which throws when the row is gone
WriteStatus(u) ==
  /\ request[u].step = "status"
  /\ LET a == request[u].target
     IN IF a \in Live
        THEN /\ actions' = [actions EXCEPT ![a].status = request[u].status]
             /\ request' = [request EXCEPT ![u] =
                  IF request[u].rec = None THEN Idle
                  ELSE [@ EXCEPT !.step = "follow"]]
        ELSE request' = [request EXCEPT ![u] = Idle] /\ UNCHANGED actions
  /\ UNCHANGED <<recs, agentRuns, requests, carried>>

\* The recommendation follows its action.
RecStatusFor(status) ==
  CASE status = "DONE" -> "COMPLETED"
    [] status = "DISMISSED" -> "DISMISSED"
    [] OTHER -> "IN_PROGRESS"

WriteRecStatus(u) ==
  /\ request[u].step = "follow"
  /\ recs' = [recs EXCEPT ![request[u].rec] = RecStatusFor(request[u].status)]
  /\ request' = [request EXCEPT ![u] = Idle]
  /\ UNCHANGED <<actions, agentRuns, requests, carried>>

DeleteAction(u, a) ==
  /\ Begin(u) /\ a \in Live
  /\ actions' = [actions EXCEPT ![a].status = "deleted"]
  /\ UNCHANGED <<recs, agentRuns, request, carried>>

-----------------------------------------------------------------------------
(* Agents                                                                   *)

StartRun(r) ==
  /\ agentRuns[r].status = "none"
  /\ agentRuns' = [agentRuns EXCEPT ![r].status = "RUNNING"]
  /\ UNCHANGED <<actions, recs, request, requests, carried>>

FinishRun(r, list) ==
  /\ agentRuns[r].status = "RUNNING"
  /\ agentRuns' = [agentRuns EXCEPT ![r] =
       [status |-> "COMPLETED", proposals |-> list, executed |-> <<>>,
        approval |-> IF list # <<>> /\ r \in Careful THEN "PENDING"
                     ELSE "NOT_REQUIRED"]]
  /\ UNCHANGED <<actions, recs, request, requests, carried>>

FailRun(r) ==
  /\ agentRuns[r].status = "RUNNING"
  /\ agentRuns' = [agentRuns EXCEPT ![r].status = "FAILED"]
  /\ UNCHANGED <<actions, recs, request, requests, carried>>

\* The proposals at the given indexes, which may repeat; all without indexes.
Selections(r) ==
  LET list == agentRuns[r].proposals
  IN {list} \cup {<<list[i], list[j]>> : i, j \in DOMAIN list}
     \cup {<<list[i]>> : i \in DOMAIN list}

\* The guards of approveAndExecute
MayBegin(r, approve) ==
  /\ agentRuns[r].status = "COMPLETED" /\ agentRuns[r].approval # "EXECUTED"
  /\ r \in Careful => approve

BeginExecution(u, r, approve, selected) ==
  /\ Begin(u) /\ MayBegin(r, approve) /\ selected # <<>>
  /\ request' = [request EXCEPT ![u] =
                   [@ EXCEPT !.step = "next", !.run = r, !.approve = approve,
                             !.selected = selected, !.todo = selected]]
  /\ UNCHANGED <<actions, recs, agentRuns, carried>>

Executing(u) == request[u].step = "next" /\ request[u].todo # <<>>

GenerateReport(u) ==
  /\ Executing(u) /\ Head(request[u].todo) = Report
  /\ \/ request' = [request EXCEPT ![u].todo = Tail(@)]
     \/ Throw(u)
  /\ UNCHANGED <<actions, recs, agentRuns, requests, carried>>

TakeProposal(u) ==
  /\ Executing(u) /\ Head(request[u].todo) # Report
  /\ LET p == Head(request[u].todo)
     IN \/ /\ p = Plain
           /\ request' = [request EXCEPT ![u] =
                            [@ EXCEPT !.step = "allow", !.sited = TRUE]]
        \/ /\ p # Plain /\ Open(p)
           /\ request' = [request EXCEPT ![u] =
                            [@ EXCEPT !.step = "seek", !.rec = p,
                                      !.seeded = TRUE, !.sited = TRUE]]
        \/ p # Plain /\ ~Open(p) /\ Throw(u)
  /\ UNCHANGED <<actions, recs, agentRuns, requests, carried>>

\* Both ends write the row by its id, whatever another execution wrote.
FinishExecution(u) ==
  /\ request[u].step = "next" /\ request[u].todo = <<>>
  /\ agentRuns' = [agentRuns EXCEPT ![request[u].run] =
       [@ EXCEPT !.approval = "EXECUTED", !.executed = request[u].ids]]
  /\ carried' = [carried EXCEPT ![request[u].run] =
       [approve |-> request[u].approve, selected |-> request[u].selected]]
  /\ request' = [request EXCEPT ![u] = Idle]
  /\ UNCHANGED <<actions, recs, requests>>

\* Fault: the handler of the exception takes the run for executed.
StopAsExecuted(u) ==
  /\ request[u].step = "stop"
  /\ agentRuns' = [agentRuns EXCEPT ![request[u].run] =
       [@ EXCEPT !.approval = "EXECUTED", !.executed = request[u].ids]]
  /\ carried' = [carried EXCEPT ![request[u].run] =
       [approve |-> request[u].approve, selected |-> request[u].selected]]
  /\ request' = [request EXCEPT ![u] = Idle]
  /\ UNCHANGED <<actions, recs, requests>>
\* An exception ends the execution with what it has done so far.
StopExecution(u) ==
  /\ request[u].step = "stop"
  /\ agentRuns' = [agentRuns EXCEPT ![request[u].run] =
       [@ EXCEPT !.approval = "PENDING", !.executed = request[u].ids]]
  /\ request' = [request EXCEPT ![u] = Idle]
  /\ UNCHANGED <<actions, recs, requests, carried>>

NextGrowth ==
  \/ \E r \in AgentRuns : \/ StartRun(r) \/ FailRun(r)
                          \/ \E list \in ProposalLists : FinishRun(r, list)
  \/ \E u \in ActionRequests :
       \/ SeekAction(u) \/ CheckAllowance(u) \/ CreateRow(u)
       \/ DatabaseError(u)
       \/ WriteStatus(u) \/ WriteRecStatus(u)
       \/ GenerateReport(u) \/ TakeProposal(u)
       \/ FinishExecution(u) \/ StopExecution(u)
       \/ \E r \in Recs : ConvertRec(u, r)
       \/ \E r \in Recs \cup {None}, sited \in BOOLEAN : PostAction(u, r, sited)
       \/ \E a \in 1..MaxActions :
            \/ DeleteAction(u, a)
            \/ \E status \in ActionStatus : ReadForStatus(u, a, status)
       \/ \E r \in AgentRuns, approve \in BOOLEAN :
            \E selected \in Selections(r) :
              BeginExecution(u, r, approve, selected)

SpecGrowth == InitGrowth /\ [][NextGrowth]_growthVars

-----------------------------------------------------------------------------
(* Properties                                                               *)

Steps == {"idle", "seek", "allow", "create", "status", "follow", "next", "stop"}
Kinds == Recs \cup {Plain, Report}

\* Types of the rows, the requests and the history.
GrowthTypeOK ==
  /\ actions \in Seq(Actions) /\ Len(actions) <= MaxActions
  /\ recs \in [Recs -> RecStatus]
  /\ agentRuns \in [AgentRuns ->
       [status : {"none", "RUNNING", "COMPLETED", "FAILED"},
        approval : {"NOT_REQUIRED", "PENDING", "EXECUTED"},
        proposals : Seq(Kinds), executed : Seq(1..MaxActions)]]
  /\ request \in [ActionRequests ->
       [step : Steps, run : AgentRuns \cup {None}, approve : BOOLEAN,
        selected : Seq(Kinds), todo : Seq(Kinds), ids : Seq(1..MaxActions), rec : Recs \cup {None},
        seeded : BOOLEAN, sited : BOOLEAN, target : 0..MaxActions,
        status : ActionStatus]]
  /\ requests \in 0..MaxRequests
  /\ carried \in [AgentRuns -> [approve : BOOLEAN, selected : Seq(Kinds)]]

\* The proposals for an action among the first n of a list
Wanted(list, n) == {i \in 1..n : list[i] # Report}

\* "Explicit approval only": a run that says EXECUTED has carried out, one
\* action for each in order, the selection of its proposals that was approved,
\* also when two executions of it ran together and one of them was stopped.
ExecutedAsApproved ==
  \A r \in AgentRuns : agentRuns[r].approval = "EXECUTED" =>
    LET list == carried[r].selected
        executed == agentRuns[r].executed
    IN /\ r \in Careful => carried[r].approve
       /\ Len(executed) = Cardinality(Wanted(list, Len(list)))
       /\ \A i \in Wanted(list, Len(list)) :
            LET id == executed[Cardinality(Wanted(list, i))]
            IN IF list[i] = Plain THEN actions[id].by = r
               ELSE actions[id].rec = list[i]

\* The allowance is counted before the row is created, so requests that pass
\* the check together exceed it, but only by one for each other request that
\* was under way with them.
OvershootBounded == Cardinality(Counted) <= Allowance + Cardinality(ActionRequests) - 1

\* A recommendation seeds one action.  Requests that look together may each
\* create one; nobody who looks while one exists creates another.
SeedsBounded ==
  \A r \in Recs :
    Cardinality({a \in Live : actions[a].rec = r /\ actions[a].seeded})
      <= Cardinality(ActionRequests)
=============================================================================
