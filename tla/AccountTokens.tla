---------------------------- MODULE AccountTokens ----------------------------
(***************************************************************************)
(* The email links of one account (backend/src/auth/auth.service.ts):        *)
(* issueVerificationEmail behind register and resendVerification,            *)
(* verifyEmail, forgotPassword, resetPassword, and updatePassword, which     *)
(* writes the same password.                                                *)
(*                                                                          *)
(* One action is one round trip to the database, an array transaction being  *)
(* one.  A token is its row's place; its hash, and bcrypt, are left out.     *)
(***************************************************************************)
EXTENDS Integers, Sequences, FiniteSets

CONSTANTS
  Requests,    \* requests for this account that may be under way together
  MaxTokens,   \* bound on the tokens ever created
  MaxBegun     \* bound on the requests ever begun

ASSUME TokensAssumption ==
  /\ IsFiniteSet(Requests)
  /\ MaxTokens \in Nat /\ MaxBegun \in Nat

VARIABLES
  tokens,     \* AuthToken rows by creation; retired: the row was deleted
  verified,   \* emailVerifiedAt is set
  password,   \* the token that set the password, 0: the account's owner
  req,        \* what each request has read so far
  reqsBegun,  \* requests begun so far
  uses,       \* history: times each token took effect
  overlapped  \* history: requests during which another created or used a link

tokenVars == <<tokens, verified, password, req, reqsBegun, uses, overlapped>>

Kind == {"VERIFY", "RESET"}
Ready == [step |-> "ready", kind |-> "VERIFY", token |-> 0]

InitTokens ==
  /\ tokens = <<>> /\ uses = <<>> /\ overlapped = {}
  /\ verified = FALSE /\ password = 0
  /\ req = [q \in Requests |-> Ready]
  /\ reqsBegun = 0

BeginReq(q) ==
  /\ req[q] = Ready /\ reqsBegun < MaxBegun
  /\ reqsBegun' = reqsBegun + 1

Step(q, step) == req' = [req EXCEPT ![q].step = step]
Done(q) == req' = [req EXCEPT ![q] = Ready]

\* The request ends, having created or used a link while the others go on.
DoneWithLink(q) ==
  /\ Done(q)
  /\ overlapped' = {o \in Requests \ {q} : req[o] # Ready}

Present(t) == t \in DOMAIN tokens /\ tokens[t].status # "retired"
Outstanding(kind) ==
  {t \in DOMAIN tokens : tokens[t].kind = kind /\ tokens[t].status \in {"sent", "expired"}}

\* deleteMany of the unused tokens of a kind
Retire(these) ==
  [t \in DOMAIN tokens |-> IF t \in these THEN [tokens[t] EXCEPT !.status = "retired"]
                           ELSE tokens[t]]

-----------------------------------------------------------------------------
(* Issuing a link                                                           *)

\* forgotPassword; register and resendVerification of an unverified account
AskForLink(q, kind) ==
  /\ BeginReq(q)
  /\ kind = "VERIFY" => ~verified
  /\ req' = [req EXCEPT ![q] = [@ EXCEPT !.step = "retire", !.kind = kind]]
  /\ UNCHANGED <<tokens, verified, password, uses, overlapped>>

\* Fault: only the tokens that have expired are deleted.
PriorExpired(kind) == {t \in Outstanding(kind) : tokens[t].status = "expired"}
\* userId, type, usedAt null
Prior(kind) == Outstanding(kind)

RetirePrior(q) ==
  /\ req[q].step = "retire"
  /\ tokens' = Retire(Prior(req[q].kind))
  /\ Step(q, "issue")
  /\ UNCHANGED <<verified, password, reqsBegun, uses, overlapped>>

\* The row is created and the link sent; an email that fails keeps the row.
IssueToken(q) ==
  /\ req[q].step = "issue" /\ Len(tokens) < MaxTokens
  /\ tokens' = Append(tokens, [kind |-> req[q].kind, status |-> "sent"])
  /\ uses' = Append(uses, 0)
  /\ DoneWithLink(q)
  /\ UNCHANGED <<verified, password, reqsBegun>>

Expiry(t) ==
  /\ t \in DOMAIN tokens /\ tokens[t].status = "sent"
  /\ tokens' = [tokens EXCEPT ![t].status = "expired"]
  /\ UNCHANGED <<verified, password, req, reqsBegun, uses, overlapped>>

-----------------------------------------------------------------------------
(* Using a link                                                             *)

\* Right type, not used, not expired
Valid(t, kind) ==
  t \in DOMAIN tokens /\ tokens[t].kind = kind /\ tokens[t].status = "sent"

\* The token is read; for a reset the new password is hashed after it.
ReadToken(q, t, kind) ==
  /\ BeginReq(q) /\ Valid(t, kind)
  /\ req' = [req EXCEPT ![q] =
               [@ EXCEPT !.step = "use", !.token = t, !.kind = kind]]
  /\ UNCHANGED <<tokens, verified, password, uses, overlapped>>

\* Fault: the token is marked where it is unused (updateMany), which a deleted
\* row does not refuse.
MarkableAlways(t) == TRUE
\* update by id throws on a deleted row and takes the transaction back.
Markable(t) == Present(t)

MarkUsed(t) ==
  uses' = [uses EXCEPT ![t] = @ + 1]

VerifyEmail(q) ==
  /\ req[q].step = "use" /\ req[q].kind = "VERIFY" /\ Markable(req[q].token)
  /\ verified' = TRUE
  /\ tokens' = [tokens EXCEPT ![req[q].token].status = "used"]
  /\ MarkUsed(req[q].token)
  /\ DoneWithLink(q)
  /\ UNCHANGED <<password, reqsBegun>>

\* usedAt, and deleteMany of the other unused reset tokens
AfterReset(t) ==
  [Retire(Outstanding("RESET") \ {t}) EXCEPT ![t].status = "used"]

ResetPassword(q) ==
  /\ req[q].step = "use" /\ req[q].kind = "RESET" /\ Markable(req[q].token)
  /\ password' = req[q].token
  /\ tokens' = AfterReset(req[q].token)
  /\ MarkUsed(req[q].token)
  /\ DoneWithLink(q)
  /\ UNCHANGED <<verified, reqsBegun>>

UseRefused(q) ==
  /\ req[q].step = "use" /\ ~Markable(req[q].token)
  /\ Done(q) /\ overlapped' = overlapped \ {q}
  /\ UNCHANGED <<tokens, verified, password, reqsBegun, uses>>

\* updatePassword: the current password is compared and the new one hashed
\* before it is written.
ComparePassword(q) ==
  /\ BeginReq(q)
  /\ req' = [req EXCEPT ![q] = [@ EXCEPT !.step = "change"]]
  /\ UNCHANGED <<tokens, verified, password, uses, overlapped>>

UpdatePassword(q) ==
  /\ req[q].step = "change"
  /\ password' = 0
  /\ Done(q) /\ overlapped' = overlapped \ {q}
  /\ UNCHANGED <<tokens, verified, reqsBegun, uses>>

NextTokens ==
  \/ \E q \in Requests :
       \/ RetirePrior(q) \/ IssueToken(q)
       \/ VerifyEmail(q) \/ ResetPassword(q) \/ UseRefused(q)
       \/ ComparePassword(q) \/ UpdatePassword(q)
       \/ \E kind \in Kind :
            \/ AskForLink(q, kind)
            \/ \E t \in 1..MaxTokens : ReadToken(q, t, kind)
  \/ \E t \in 1..MaxTokens : Expiry(t)

SpecTokens == InitTokens /\ [][NextTokens]_tokenVars

-----------------------------------------------------------------------------
(* Properties                                                               *)

\* Types of the rows, the requests and the history.
TokensTypeOK ==
  /\ tokens \in Seq([kind : Kind, status : {"sent", "expired", "used", "retired"}])
  /\ Len(tokens) <= MaxTokens
  /\ verified \in BOOLEAN /\ password \in 0..MaxTokens
  /\ req \in [Requests -> [step : {"ready", "retire", "issue", "use", "change"},
                           kind : Kind, token : 0..MaxTokens]]
  /\ reqsBegun \in 0..MaxBegun
  /\ uses \in Seq(Nat) /\ Len(uses) = Len(tokens)
  /\ overlapped \subseteq {q \in Requests : req[q] # Ready}

\* A link that a newer one or a completed reset has retired is dead: also the
\* request that had read it before, and hashed the password meanwhile, changes
\* neither the password nor the verification.
RetiredLinkIsDead ==
  [][\A t \in DOMAIN tokens : tokens[t].status = "retired" =>
       /\ tokens'[t].status = "retired" /\ uses'[t] = uses[t]
       /\ password' = t => password = t]_tokenVars

\* "Single active verification token per user" and "single active reset token
\* per user": at most one link of a kind can still be followed.
OneActiveLink ==
  \A kind \in Kind :
    Cardinality({t \in DOMAIN tokens : Valid(t, kind)}) <= 1

\* "Tokens are single-use": no link takes effect twice.
SingleUse == \A t \in DOMAIN uses : uses[t] <= 1

\* At least one of the two documented statements holds: whoever refutes this
\* has refuted both, in one behaviour.
OneActiveOrSingleUse == OneActiveLink \/ SingleUse

\* What the code does keep of the two: a link is created beside an unused one of
\* its kind, or takes effect again, only by a request that another one which
\* created or used a link overlapped.
LinksOnlyByOverlap ==
  [][LET acts(step) == {q \in Requests : req[q].step = step /\ req'[q] # req[q]}
     IN /\ \A kind \in Kind :
             (\E t \in DOMAIN tokens' \ DOMAIN tokens : tokens'[t].kind = kind)
               => Outstanding(kind) = {} \/ acts("issue") \cap overlapped # {}
        /\ \A t \in DOMAIN uses :
             uses[t] > 0 /\ uses'[t] > uses[t] => acts("use") \cap overlapped # {}
    ]_tokenVars
=============================================================================
