--------------------------- MODULE MCWorkspaceWork ---------------------------
(***************************************************************************)
(* Five parts of one workspace side by side: proposals, actions and agents,  *)
(* alerts, team, subscription.  They share no state, so a behaviour of the   *)
(* whole is one of each part with steps of the others in between.  Only one  *)
(* part, `focus`, moves in a behaviour here: the states are the sum and not  *)
(* the product of those of the parts, and each part goes through all of its  *)
(* own.                                                                     *)
(***************************************************************************)
EXTENDS ActionProposals, GrowthActions, WebsiteAlerts, TeamSeats,
        MCRazorpayBilling

CONSTANTS r1, k1, k2, p1, p2

VARIABLE focus

\* An agent that proposes one change of a recommendation after a plain one,
\* and one that needs a report first
MCProposalLists == {<<Plain, r1>>, <<Report, Plain>>}

\* Pages of the crawls: clean; both issues, one severe; a light one in one of
\* three pages
MCSites ==
  LET high(c) == [code |-> c, severity |-> "HIGH"]
      low(c) == [code |-> c, severity |-> "LOW"]
  IN {<<>>, <<<<high(k1)>>, <<low(k2)>>>>, <<<<low(k2)>>, <<>>, <<>>>>}

vars == <<proposalVars, growthVars, alertVars, teamVars, billingVars, focus>>

MCInit ==
  /\ focus \in {"proposals", "actions", "alerts", "team", "subscription"}
  /\ InitProposals /\ InitGrowth /\ InitAlerts /\ InitTeam
  /\ IF focus = "subscription" THEN InitOrPaid ELSE InitBilling

MCNext ==
  /\ UNCHANGED focus
  /\ \/ /\ focus = "proposals" /\ NextProposals
        /\ UNCHANGED <<growthVars, alertVars, teamVars, billingVars>>
     \/ /\ focus = "actions" /\ NextGrowth
        /\ UNCHANGED <<proposalVars, alertVars, teamVars, billingVars>>
     \/ /\ focus = "alerts" /\ NextAlerts
        /\ UNCHANGED <<proposalVars, growthVars, teamVars, billingVars>>
     \/ /\ focus = "team" /\ NextTeam
        /\ UNCHANGED <<proposalVars, growthVars, alertVars, billingVars>>
     \/ /\ focus = "subscription" /\ NextBilling
        /\ UNCHANGED <<proposalVars, growthVars, alertVars, teamVars>>

MCSpec == MCInit /\ [][MCNext]_vars

\* Two actors, x1 and x2 in every part, that no part tells apart, and two
\* people besides the owner
Symmetric == Permutations(ActionRequests) \cup Permutations({p1, p2})

\* Types of the work of the workspace; the subscription's are BillingTypeOK.
WorkspaceTypeOK == ProposalsTypeOK /\ GrowthTypeOK /\ AlertsTypeOK /\ TeamTypeOK
=============================================================================
