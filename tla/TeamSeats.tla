------------------------------ MODULE TeamSeats ------------------------------
(***************************************************************************)
(* The people of one workspace: invite, acceptInvite, updateRole and         *)
(* removeMember of backend/src/team/team.service.ts, register and            *)
(* registerWithInvite of backend/src/auth/auth.service.ts, and               *)
(* enforceCreation of billing/billing.service.ts for the seats of the plan.  *)
(*                                                                          *)
(* One action is one round trip to the database; only the creation of a      *)
(* membership with the mark on its invitation, and of an account with both,  *)
(* is a transaction.  A person is an email address; passwords are left out.  *)
(***************************************************************************)
EXTENDS Integers, Sequences, FiniteSets

CONSTANTS
  People,       \* email addresses
  Owner,        \* who registered the workspace
  TeamRequests, \* requests that may be under way together
  Seats,        \* maxUsers of the plan
  MaxInvites,   \* bound on the invitations ever created
  MaxTeamRequests \* bound on the requests ever begun

ASSUME TeamAssumption ==
  /\ IsFiniteSet(People) /\ Owner \in People
  /\ IsFiniteSet(TeamRequests)
  /\ Seats \in Nat \ {0} /\ MaxInvites \in Nat /\ MaxTeamRequests \in Nat

VARIABLES
  accounts,    \* people with a User row
  seat,        \* each person's OrganizationMember row; id 0 for none
  invites,     \* OrganizationInvite rows by creation
  teamRequest, \* what each request has read so far
  seatIds,     \* membership rows created so far
  teamBegun,   \* requests begun so far
  admitted,    \* history: memberships each invitation has led to
  overlapped   \* history: requests during which another changed seats or
               \* invitations

teamVars == <<accounts, seat, invites, teamRequest, seatIds, teamBegun, admitted,
              overlapped>>

Roles == {"ADMIN", "MEMBER"}
NoSeat == [id |-> 0, role |-> "MEMBER"]
Uncounted == 0 - 1
Free == [step |-> "free", who |-> Owner, role |-> "MEMBER", invite |-> 0,
         id |-> 0, members |-> Uncounted, pending |-> Uncounted]

InitTeam ==
  /\ accounts = {Owner}
  /\ seat = [p \in People |-> IF p = Owner THEN [id |-> 1, role |-> "OWNER"]
                              ELSE NoSeat]
  /\ invites = <<>>
  /\ teamRequest = [q \in TeamRequests |-> Free]
  /\ seatIds = 1 /\ teamBegun = 0
  /\ admitted = <<>> /\ overlapped = {}

Members == {p \in People : seat[p].id # 0}
\* acceptedAt null, expiresAt in the future
Pending(i) == i \in DOMAIN invites /\ invites[i].status = "pending"
PendingInvites == {i \in DOMAIN invites : Pending(i)}

-----------------------------------------------------------------------------
Answer(q) == teamRequest' = [teamRequest EXCEPT ![q] = Free]
GoOn(q, step) == teamRequest' = [teamRequest EXCEPT ![q].step = step]

BeginTeam(q) ==
  /\ teamRequest[q] = Free /\ teamBegun < MaxTeamRequests
  /\ teamBegun' = teamBegun + 1
  /\ overlapped' = overlapped \ {q}

\* A change of seats or invitations, as the other requests under way see it
Disturb(q) ==
  overlapped' = {o \in TeamRequests \ {q} : teamRequest[o] # Free}

\* requireAdmin: the role at the begin of the request
Admin(p) == seat[p].id # 0 /\ seat[p].role \in {"OWNER", "ADMIN"}

-----------------------------------------------------------------------------
(* Invitations                                                              *)

BeginInvite(q, p, email, role) ==
  /\ BeginTeam(q) /\ Admin(p)
  /\ teamRequest' = [teamRequest EXCEPT ![q] =
                       [@ EXCEPT !.step = "count", !.who = email, !.role = role]]
  /\ UNCHANGED <<accounts, seat, invites, seatIds, admitted>>

\* The two counts are issued together and may be answered in either order.
CountMembers(q) ==
  /\ teamRequest[q].step = "count" /\ teamRequest[q].members = Uncounted
  /\ teamRequest' = [teamRequest EXCEPT ![q].members = Cardinality(Members)]
  /\ UNCHANGED <<accounts, seat, invites, seatIds, teamBegun, admitted, overlapped>>

CountInvites(q) ==
  /\ teamRequest[q].step = "count" /\ teamRequest[q].pending = Uncounted
  /\ teamRequest' =
       [teamRequest EXCEPT ![q].pending = Cardinality(PendingInvites)]
  /\ UNCHANGED <<accounts, seat, invites, seatIds, teamBegun, admitted, overlapped>>

\* Fault: only the members are compared with the limit.
SeatFreeByMembers(members, pending) == members < Seats
\* enforceCreation(USERS, members + pendingInvites)
SeatFree(members, pending) == members + pending < Seats

\* The limit, and then whether the address belongs to a member
EnforceSeats(q) ==
  /\ teamRequest[q].step = "count"
  /\ teamRequest[q].members # Uncounted /\ teamRequest[q].pending # Uncounted
  /\ IF /\ SeatFree(teamRequest[q].members, teamRequest[q].pending)
        /\ teamRequest[q].who \notin Members
     THEN teamRequest' = [teamRequest EXCEPT ![q] =
            [@ EXCEPT !.step = "double", !.members = Uncounted,
                      !.pending = Uncounted]]
     ELSE Answer(q)
  /\ UNCHANGED <<accounts, seat, invites, seatIds, teamBegun, admitted, overlapped>>

\* Whether an invitation to the address is open
FindOpenInvite(q) ==
  /\ teamRequest[q].step = "double"
  /\ IF \E i \in PendingInvites : invites[i].email = teamRequest[q].who
     THEN Answer(q) ELSE GoOn(q, "insert")
  /\ UNCHANGED <<accounts, seat, invites, seatIds, teamBegun, admitted, overlapped>>

CreateInvite(q) ==
  /\ teamRequest[q].step = "insert" /\ Len(invites) < MaxInvites
  /\ invites' = Append(invites, [email |-> teamRequest[q].who,
                                 role |-> teamRequest[q].role,
                                 status |-> "pending", sent |-> FALSE])
  /\ admitted' = Append(admitted, 0)
  /\ teamRequest' = [teamRequest EXCEPT ![q] =
                       [@ EXCEPT !.step = "send", !.invite = Len(invites) + 1]]
  /\ Disturb(q)
  /\ UNCHANGED <<accounts, seat, seatIds, teamBegun>>

\* The email carries the token; when it cannot be sent the row is deleted.
SendInvite(q) ==
  /\ teamRequest[q].step = "send"
  /\ \/ invites' = [invites EXCEPT ![teamRequest[q].invite].sent = TRUE]
     \/ invites' = [invites EXCEPT ![teamRequest[q].invite].status = "deleted"]
  /\ Answer(q)
  /\ Disturb(q)
  /\ UNCHANGED <<accounts, seat, seatIds, teamBegun, admitted>>

Expire(i) ==
  /\ Pending(i)
  /\ invites' = [invites EXCEPT ![i].status = "expired"]
  /\ overlapped' = {o \in TeamRequests : teamRequest[o] # Free}
  /\ UNCHANGED <<accounts, seat, teamRequest, seatIds, teamBegun, admitted>>

-----------------------------------------------------------------------------
(* Accounts and acceptance                                                  *)

\* register: an account with a workspace of its own
Register(p) ==
  /\ p \notin accounts
  /\ accounts' = accounts \cup {p}
  /\ UNCHANGED <<seat, invites, teamRequest, seatIds, teamBegun, admitted, overlapped>>

\* Fault: an accepted invitation is still good.
UsableTwice(i) == invites[i].status \in {"pending", "accepted"}
\* Not accepted, not expired
Usable(i) == invites[i].status = "pending"

\* acceptInvite of somebody with an account, registerWithInvite of somebody
\* without: the checks on the invitation
ReadInvite(q, i) ==
  /\ BeginTeam(q) /\ i \in DOMAIN invites /\ invites[i].sent /\ Usable(i)
  /\ LET p == invites[i].email
     IN teamRequest' = [teamRequest EXCEPT ![q] =
          [@ EXCEPT !.who = p, !.invite = i, !.role = invites[i].role,
                    !.step = IF p \in accounts THEN "member" ELSE "account"]]
  /\ UNCHANGED <<accounts, seat, invites, seatIds, admitted>>

FindMembership(q) ==
  /\ teamRequest[q].step = "member"
  /\ GoOn(q, IF teamRequest[q].who \in Members THEN "mark" ELSE "admit")
  /\ UNCHANGED <<accounts, seat, invites, seatIds, teamBegun, admitted, overlapped>>

\* acceptedAt is set, by the id and whatever it was.
Accepted(i) == invites' = [invites EXCEPT ![i].status = "accepted"]

MarkAccepted(q) ==
  /\ teamRequest[q].step = "mark"
  /\ Accepted(teamRequest[q].invite)
  /\ Answer(q)
  /\ Disturb(q)
  /\ UNCHANGED <<accounts, seat, seatIds, teamBegun, admitted>>

\* The transaction; a person has one membership of a workspace at most.
Admit(q) ==
  /\ teamRequest[q].step \in {"admit", "account"}
  /\ teamRequest[q].step = "account" => teamRequest[q].who \notin accounts
  /\ teamRequest[q].who \notin Members
  /\ LET p == teamRequest[q].who
         i == teamRequest[q].invite
     IN /\ accounts' = accounts \cup {p}
        /\ seat' = [seat EXCEPT ![p] = [id |-> seatIds + 1,
                                        role |-> teamRequest[q].role]]
        /\ admitted' = [admitted EXCEPT ![i] = @ + 1]
        /\ Accepted(i)
  /\ seatIds' = seatIds + 1
  /\ Answer(q)
  /\ Disturb(q)
  /\ UNCHANGED teamBegun

\* A unique key refuses the transaction, or a statement fails.
RequestFails(q) ==
  /\ teamRequest[q].step \in {"admit", "account", "double", "member"}
  /\ Answer(q)
  /\ UNCHANGED <<accounts, seat, invites, seatIds, teamBegun, admitted, overlapped>>

-----------------------------------------------------------------------------
(* Roles and removal                                                        *)

BeginManage(q, p, id, role) ==
  /\ BeginTeam(q) /\ Admin(p)
  /\ \E m \in Members : seat[m].id = id /\ seat[m].role # "OWNER"
  /\ teamRequest' = [teamRequest EXCEPT ![q] =
                       [@ EXCEPT !.step = "manage", !.id = id, !.role = role]]
  /\ UNCHANGED <<accounts, seat, invites, seatIds, admitted>>

\* update or delete by the id of the membership, which may be gone
ManageMember(q) ==
  /\ teamRequest[q].step = "manage"
  /\ \/ \E m \in Members :
          /\ seat[m].id = teamRequest[q].id
          /\ \/ seat' = [seat EXCEPT ![m].role = teamRequest[q].role]
             \/ seat' = [seat EXCEPT ![m] = NoSeat]
     \/ /\ \A m \in Members : seat[m].id # teamRequest[q].id
        /\ UNCHANGED seat
  /\ Answer(q)
  /\ Disturb(q)
  /\ UNCHANGED <<accounts, invites, seatIds, teamBegun, admitted>>

NextTeam ==
  \/ \E q \in TeamRequests :
       \/ CountMembers(q) \/ CountInvites(q) \/ EnforceSeats(q)
       \/ FindOpenInvite(q) \/ CreateInvite(q) \/ SendInvite(q)
       \/ FindMembership(q) \/ MarkAccepted(q) \/ Admit(q) \/ RequestFails(q)
       \/ ManageMember(q)
       \/ \E i \in 1..MaxInvites : ReadInvite(q, i)
       \/ \E p, email \in People, role \in Roles : BeginInvite(q, p, email, role)
       \/ \E p \in People, id \in 1..seatIds, role \in Roles :
            BeginManage(q, p, id, role)
  \/ \E i \in 1..MaxInvites : Expire(i)
  \/ \E p \in People : Register(p)

SpecTeam == InitTeam /\ [][NextTeam]_teamVars

-----------------------------------------------------------------------------
(* Properties                                                               *)

InviteStatus == {"pending", "accepted", "expired", "deleted"}
TeamSteps == {"free", "count", "double", "insert", "send", "member", "account",
              "mark", "admit", "manage"}

\* Types of the rows, the requests and the histories.
TeamTypeOK ==
  /\ accounts \subseteq People
  /\ seat \in [People -> [id : 0..seatIds, role : Roles \cup {"OWNER"}]]
  /\ invites \in Seq([email : People, role : Roles, status : InviteStatus,
                      sent : BOOLEAN])
  /\ Len(invites) <= MaxInvites
  /\ teamRequest \in [TeamRequests ->
       [step : TeamSteps, who : People, role : Roles, invite : 0..MaxInvites,
        id : 0..seatIds, members : Nat \cup {Uncounted},
        pending : Nat \cup {Uncounted}]]
  /\ seatIds \in Nat \ {0} /\ teamBegun \in 0..MaxTeamRequests
  /\ admitted \in Seq(Nat) /\ Len(admitted) = Len(invites)
  /\ overlapped \subseteq TeamRequests

Taken == Cardinality(Members) + Cardinality(PendingInvites)

\* Seats are counted when somebody is invited and taken when the invitation is
\* accepted.  Members and open invitations exceed the plan only by a step of a
\* request that another one overlapped: an invitation whose counts were no
\* longer true, or an acceptance that had read an invitation still open.
SeatsExceededOnlyByOverlap ==
  [][Taken' > Taken /\ Taken' > Seats =>
       \E q \in overlapped : teamRequest[q].step \in {"insert", "admit", "account"}
                              /\ teamRequest'[q] # teamRequest[q]]_teamVars

\* An invitation admits its addressee once: after a removal it can only be
\* used again by a request that had read it while it was open.
ReadmittedOnlyByOverlap ==
  [][\A i \in DOMAIN admitted : admitted'[i] > admitted[i] /\ admitted[i] > 0 =>
       \E q \in overlapped : teamRequest[q].invite = i
                              /\ teamRequest'[q] # teamRequest[q]]_teamVars
=============================================================================
