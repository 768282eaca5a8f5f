------------------------ MODULE AccountTokens_proofs ------------------------
(***************************************************************************)
(* Machine-checked theorems about AccountTokens, for any finite set of      *)
(* requests and any bounds that satisfy TokensAssumption.                   *)
(***************************************************************************)
EXTENDS AccountTokens, FiniteSetTheorems, SequenceTheorems, TLAPS

-----------------------------------------------------------------------------
(* The inductive invariant.                                                 *)

Row == [kind : Kind, status : {"sent", "expired", "used", "retired"}]

ReqType == [step : {"ready", "retire", "issue", "use", "change"},
            kind : Kind, token : 0..MaxTokens]

Shape ==
  /\ tokens \in Seq(Row) /\ Len(tokens) <= MaxTokens
  /\ verified \in BOOLEAN /\ password \in 0..MaxTokens
  /\ req \in [Requests -> ReqType]
  /\ reqsBegun \in 0..MaxBegun
  /\ uses \in Seq(Nat) /\ Len(uses) = Len(tokens)
  /\ overlapped \subseteq {q \in Requests : req[q] # Ready}

\* Only a link that exists is used, and one that may still be read has not been.
UsesFit ==
  /\ \A q \in Requests : req[q].step = "use" => req[q].token \in DOMAIN tokens
  /\ \A t \in DOMAIN tokens :
       tokens[t].status \in {"sent", "expired"} => uses[t] = 0

\* What a request that no other overlapped relies on is still so: it is about to
\* create the only link of its kind, or to use one that was never used.
StillTrue(q) ==
  /\ req[q].step = "issue" =>
       \A t \in DOMAIN tokens :
         tokens[t].kind = req[q].kind => tokens[t].status \notin {"sent", "expired"}
  /\ req[q].step = "use" => uses[req[q].token] = 0

Undisturbed == \A q \in Requests \ overlapped : StillTrue(q)

TInv == Shape /\ UsesFit /\ Undisturbed

-----------------------------------------------------------------------------
(* Sequences and finite sets.                                               *)

LEMMA TableIsSeq ==
  ASSUME NEW S, NEW n \in Nat, NEW f \in [1..n -> S]
  PROVE  f \in Seq(S) /\ Len(f) = n
<1>1. f \in Seq(S)
  BY SeqDef
<1>2. DOMAIN f = 1..Len(f) /\ Len(f) \in Nat
  BY <1>1, LenProperties
<1> QED
  BY <1>1, <1>2

LEMMA ShapeFacts ==
  ASSUME Shape
  PROVE  /\ Len(tokens) \in Nat /\ DOMAIN tokens = 1..Len(tokens)
         /\ DOMAIN uses = DOMAIN tokens
         /\ tokens \in [1..Len(tokens) -> Row] /\ uses \in [1..Len(tokens) -> Nat]
<1>1. /\ Len(tokens) \in Nat /\ DOMAIN tokens = 1..Len(tokens)
      /\ tokens \in [1..Len(tokens) -> Row]
  BY LenProperties DEF Shape
<1>2. DOMAIN uses = 1..Len(uses) /\ uses \in [1..Len(uses) -> Nat]
  BY LenProperties DEF Shape
<1> QED
  BY <1>1, <1>2 DEF Shape

-----------------------------------------------------------------------------
(* The steps                                                                *)

\* What Retire does, row by row
LEMMA RetireFacts ==
  ASSUME Shape, NEW these \in SUBSET DOMAIN tokens
  PROVE  /\ Retire(these) \in [1..Len(tokens) -> Row]
         /\ \A t \in DOMAIN tokens :
              /\ t \in these => Retire(these)[t].status = "retired"
              /\ t \notin these => Retire(these)[t] = tokens[t]
              /\ Retire(these)[t].kind = tokens[t].kind
<1>1. /\ Len(tokens) \in Nat /\ DOMAIN tokens = 1..Len(tokens)
      /\ tokens \in [1..Len(tokens) -> Row]
  BY ShapeFacts
<1> QED
  BY <1>1 DEF Retire, Row

LEMMA InitTInv == InitTokens => TInv
<1> SUFFICES ASSUME InitTokens PROVE TInv
  OBVIOUS
<1>1. tokens \in Seq(Row) /\ uses \in Seq(Nat) /\ Len(tokens) = 0 /\ Len(uses) = 0
      /\ DOMAIN tokens = {}
  BY EmptySeq DEF InitTokens
<1>2. Ready \in ReqType
  BY TokensAssumption DEF Ready, Kind, ReqType
<1>3. Shape
  <2>1. 0 \in 0..MaxTokens /\ 0 \in 0..MaxBegun /\ Len(tokens) <= MaxTokens
    BY <1>1, TokensAssumption
  <2>2. req \in [Requests -> ReqType]
    BY <1>2 DEF InitTokens
  <2>3. verified \in BOOLEAN /\ password = 0 /\ reqsBegun = 0 /\ overlapped = {}
    BY DEF InitTokens
  <2> QED
    BY <1>1, <2>1, <2>2, <2>3 DEF Shape
<1>4. \A q \in Requests : req[q].step = "ready"
  BY DEF InitTokens, Ready
<1> QED
  BY <1>1, <1>3, <1>4 DEF TInv, UsesFit, Undisturbed, StillTrue

\* A step of q that neither creates nor uses a link, in which unused links and uses
\* only become fewer: the others still rely on what is so.
LEMMA OthersUndisturbed ==
  ASSUME TInv, NEW q \in Requests, DOMAIN tokens' = DOMAIN tokens, uses' = uses,
         \A t \in DOMAIN tokens :
           /\ tokens'[t].kind = tokens[t].kind
           /\ tokens'[t].status \in {"sent", "expired"} =>
                tokens[t].status \in {"sent", "expired"},
         \A v \in Requests \ {q} : req'[v] = req[v],
         overlapped \ {q} \subseteq overlapped',
         q \notin overlapped' => StillTrue(q)',
         req'[q].step = "use" => req'[q].token \in DOMAIN tokens
  PROVE  UsesFit' /\ Undisturbed'
<1>1. UsesFit'
  BY DEF TInv, UsesFit
<1>2. ASSUME NEW v \in Requests \ overlapped', v # q PROVE StillTrue(v)'
  <2>1. v \in Requests \ overlapped /\ req'[v] = req[v]
    BY <1>2
  <2>2. StillTrue(v)
    BY <2>1 DEF TInv, Undisturbed
  <2> QED
    BY <2>1, <2>2 DEF StillTrue
<1> QED
  BY <1>1, <1>2 DEF Undisturbed

\* The steps of a request that leave rows and uses alone
LEMMA ReadsKeepTInv ==
  ASSUME TInv, NEW q \in Requests, NEW kind \in Kind, NEW t \in 0..MaxTokens,
         AskForLink(q, kind) \/ ReadToken(q, t, kind) \/ ComparePassword(q)
           \/ UseRefused(q) \/ UpdatePassword(q)
  PROVE  TInv'
<1>1. /\ req \in [Requests -> ReqType] /\ reqsBegun \in 0..MaxBegun
      /\ password \in 0..MaxTokens /\ 0 \in 0..MaxTokens /\ 0 \in Nat
      /\ MaxTokens \in Nat /\ MaxBegun \in Nat /\ Ready \in ReqType
      /\ overlapped \subseteq {v \in Requests : req[v] # Ready}
  BY TokensAssumption DEF TInv, Shape, Ready, ReqType, Kind
<1>2. /\ \A v \in Requests \ {q} : req'[v] = req[v]
      /\ req' \in [Requests -> ReqType] /\ reqsBegun' \in 0..MaxBegun
      /\ UNCHANGED <<tokens, uses, verified>> /\ password' \in 0..MaxTokens
      /\ overlapped \ {q} \subseteq overlapped'
      /\ \/ req'[q] = Ready /\ overlapped' = overlapped \ {q}
         \/ req'[q] # Ready /\ overlapped' = overlapped
      /\ req'[q].step \in {"ready", "retire", "change", "use"}
      /\ req'[q].step = "use" =>
           req'[q].token \in DOMAIN tokens /\ tokens[req'[q].token].status = "sent"
  <2>1. CASE AskForLink(q, kind)
    <3> DEFINE r == [req[q] EXCEPT !.step = "retire", !.kind = kind]
    <3>1. r \in ReqType /\ r.step = "retire"
      BY <1>1 DEF ReqType
    <3>2. req' = [req EXCEPT ![q] = r]
      BY <2>1 DEF AskForLink
    <3> HIDE DEF r
    <3>3. /\ reqsBegun' \in 0..MaxBegun
          /\ UNCHANGED <<tokens, uses, verified, password, overlapped>>
      BY <1>1, <2>1 DEF AskForLink, BeginReq
    <3> QED
      BY <1>1, <3>1, <3>2, <3>3 DEF Ready
  <2>2. CASE ReadToken(q, t, kind)
    <3> DEFINE r == [req[q] EXCEPT !.step = "use", !.token = t, !.kind = kind]
    <3>1. r \in ReqType /\ r.step = "use" /\ r.token = t
      BY <1>1 DEF ReqType
    <3>2. /\ req' = [req EXCEPT ![q] = r]
          /\ t \in DOMAIN tokens /\ tokens[t].status = "sent"
      BY <2>2 DEF ReadToken, Valid
    <3> HIDE DEF r
    <3>3. /\ reqsBegun' \in 0..MaxBegun /\ req[q] = Ready
          /\ UNCHANGED <<tokens, uses, verified, password, overlapped>>
      BY <1>1, <2>2 DEF ReadToken, BeginReq
    <3> QED
      BY <1>1, <3>1, <3>2, <3>3 DEF Ready
  <2>3. CASE ComparePassword(q)
    BY <1>1, <2>3 DEF ComparePassword, BeginReq, ReqType, Ready
  <2>4. CASE UseRefused(q) \/ UpdatePassword(q)
    BY <1>1, <2>4 DEF UseRefused, UpdatePassword, Done, Ready
  <2> QED
    BY <2>1, <2>2, <2>3, <2>4
<1>3. overlapped' \subseteq {v \in Requests : req'[v] # Ready}
  BY <1>1, <1>2
<1>4. Shape'
  BY <1>2, <1>3 DEF TInv, Shape
<1>5. StillTrue(q)'
  BY <1>2 DEF TInv, UsesFit, StillTrue
<1>6. UsesFit' /\ Undisturbed'
  BY <1>2, <1>5, OthersUndisturbed
<1> QED
  BY <1>4, <1>6 DEF TInv

LEMMA RetireKeepsTInv ==
  ASSUME TInv, NEW q \in Requests, RetirePrior(q)
  PROVE  TInv'
<1> DEFINE k == req[q].kind
<1>0. Shape
  BY DEF TInv
<1>1. /\ k \in Kind /\ tokens' = Retire(Outstanding(k)) /\ req[q].step = "retire"
      /\ req' = [req EXCEPT ![q].step = "issue"]
      /\ UNCHANGED <<verified, password, reqsBegun, uses, overlapped>>
  BY <1>0 DEF RetirePrior, Prior, Step, Shape, ReqType
<1>2. Outstanding(k) \in SUBSET DOMAIN tokens
  BY DEF Outstanding
<1>3. Len(tokens) \in Nat /\ DOMAIN tokens = 1..Len(tokens)
  BY <1>0, ShapeFacts
<1>4. /\ tokens' \in [1..Len(tokens) -> Row]
      /\ tokens' \in Seq(Row) /\ Len(tokens') = Len(tokens)
  BY <1>0, <1>1, <1>2, <1>3, RetireFacts, TableIsSeq
<1>5. \A t \in DOMAIN tokens :
        /\ t \in Outstanding(k) => tokens'[t].status = "retired"
        /\ t \notin Outstanding(k) => tokens'[t] = tokens[t]
        /\ tokens'[t].kind = tokens[t].kind
  BY <1>0, <1>1, <1>2, RetireFacts
<1>6. /\ req' \in [Requests -> ReqType]
      /\ \A v \in Requests \ {q} : req'[v] = req[v]
      /\ req'[q].step = "issue" /\ req'[q].kind = k /\ req'[q] # Ready
  BY <1>0, <1>1 DEF Shape, ReqType, Ready
<1>7. Shape'
  <2>1. overlapped' \subseteq {v \in Requests : req'[v] # Ready}
    BY <1>0, <1>1, <1>6 DEF Shape
  <2> QED
    BY <1>0, <1>1, <1>4, <1>6, <2>1 DEF Shape
<1>8. StillTrue(q)'
  <2>1. \A t \in DOMAIN tokens :
          tokens'[t].kind = k => tokens'[t].status \notin {"sent", "expired"}
    BY <1>5 DEF Outstanding
  <2> QED
    BY <1>3, <1>4, <1>6, <2>1 DEF StillTrue
<1>9. /\ DOMAIN tokens' = DOMAIN tokens
      /\ \A t \in DOMAIN tokens :
           /\ tokens'[t].kind = tokens[t].kind
           /\ tokens'[t].status \in {"sent", "expired"} =>
                tokens[t].status \in {"sent", "expired"}
  BY <1>3, <1>4, <1>5
<1>10. UsesFit' /\ Undisturbed'
  BY <1>1, <1>6, <1>8, <1>9, OthersUndisturbed
<1> QED
  BY <1>7, <1>10 DEF TInv

LEMMA ExpiryKeepsTInv ==
  ASSUME TInv, NEW t \in 1..MaxTokens, Expiry(t)
  PROVE  TInv'
<1>0. Shape
  BY DEF TInv
<1>1. /\ Len(tokens) \in Nat /\ DOMAIN tokens = 1..Len(tokens)
      /\ tokens \in [1..Len(tokens) -> Row]
  BY <1>0, ShapeFacts
<1>2. /\ tokens' = [tokens EXCEPT ![t].status = "expired"]
      /\ t \in DOMAIN tokens /\ tokens[t].status = "sent"
      /\ UNCHANGED <<verified, password, req, reqsBegun, uses, overlapped>>
  BY DEF Expiry
<1>3. /\ tokens' \in [1..Len(tokens) -> Row]
      /\ \A s \in DOMAIN tokens :
           /\ s # t => tokens'[s] = tokens[s]
           /\ tokens'[s].kind = tokens[s].kind
           /\ tokens'[t].status = "expired"
  BY <1>1, <1>2 DEF Row
<1>4. tokens' \in Seq(Row) /\ Len(tokens') = Len(tokens) /\ DOMAIN tokens' = DOMAIN tokens
  BY <1>1, <1>3, TableIsSeq
<1>5. Shape'
  BY <1>0, <1>2, <1>4 DEF Shape
<1>6. UsesFit'
  BY <1>2, <1>3, <1>4 DEF TInv, UsesFit
<1>7. Undisturbed'
  BY <1>2, <1>3, <1>4 DEF TInv, Undisturbed, StillTrue
<1> QED
  BY <1>5, <1>6, <1>7 DEF TInv

\* A request that created or used a link leaves only overlapped ones under way.
LEMMA RestOverlapped ==
  ASSUME Shape, NEW q \in Requests, DoneWithLink(q)
  PROVE  /\ req' \in [Requests -> ReqType]
         /\ \A v \in Requests \ {q} : req'[v] = req[v]
         /\ req'[q].step = "ready"
         /\ overlapped' \subseteq {v \in Requests : req'[v] # Ready}
         /\ Undisturbed'
<1>1. Ready \in ReqType /\ Ready.step = "ready"
  BY TokensAssumption DEF Ready, ReqType, Kind
<1>2. /\ req' = [req EXCEPT ![q] = Ready] /\ req \in [Requests -> ReqType]
      /\ overlapped' = {o \in Requests \ {q} : req[o] # Ready}
  BY DEF DoneWithLink, Done, Shape
<1>3. \A v \in Requests \ overlapped' : req'[v].step = "ready"
  BY <1>1, <1>2
<1>4. Undisturbed'
  BY <1>3 DEF Undisturbed, StillTrue
<1> QED
  BY <1>1, <1>2, <1>4

LEMMA IssueKeepsTInv ==
  ASSUME TInv, NEW q \in Requests, IssueToken(q)
  PROVE  TInv'
<1>0. Shape /\ UsesFit
  BY DEF TInv
<1>1. PICK n \in Nat : n = Len(tokens) + 1
  BY <1>0, ShapeFacts
<1> DEFINE row == [kind |-> req[q].kind, status |-> "sent"]
<1>2. /\ Len(tokens) \in Nat /\ DOMAIN tokens = 1..Len(tokens)
      /\ tokens \in [1..Len(tokens) -> Row]
      /\ DOMAIN uses = DOMAIN tokens /\ uses \in [1..Len(tokens) -> Nat]
      /\ MaxTokens \in Nat
  BY <1>0, ShapeFacts, TokensAssumption
<1>3. /\ Len(tokens) < MaxTokens
      /\ tokens' = Append(tokens, row) /\ uses' = Append(uses, 0)
      /\ DoneWithLink(q) /\ UNCHANGED <<verified, password, reqsBegun>>
  BY DEF IssueToken
<1>4. row \in Row
  BY <1>0 DEF Row, Shape, ReqType
<1>5. /\ tokens' \in Seq(Row) /\ Len(tokens') = n
      /\ DOMAIN tokens' = 1..n /\ tokens'[n] = row
      /\ \A t \in DOMAIN tokens : tokens'[t] = tokens[t]
  BY <1>0, <1>1, <1>2, <1>3, <1>4 DEF Shape
<1>6. /\ uses' \in Seq(Nat) /\ Len(uses') = n /\ uses'[n] = 0
      /\ \A t \in DOMAIN tokens : uses'[t] = uses[t]
  BY <1>0, <1>1, <1>2, <1>3 DEF Shape
<1>7. /\ req' \in [Requests -> ReqType]
      /\ \A v \in Requests \ {q} : req'[v] = req[v]
      /\ req'[q].step = "ready"
      /\ overlapped' \subseteq {v \in Requests : req'[v] # Ready}
      /\ Undisturbed'
  BY <1>0, <1>3, RestOverlapped
<1>8. Shape'
  <2>1. n <= MaxTokens
    BY <1>1, <1>2, <1>3
  <2> QED
    BY <1>0, <1>3, <1>5, <1>6, <1>7, <2>1 DEF Shape
<1>9. UsesFit'
  <2>1. \A t \in DOMAIN tokens' : t \in DOMAIN tokens \/ t = n
    BY <1>1, <1>2, <1>5
  <2>2. DOMAIN tokens \subseteq DOMAIN tokens'
    BY <1>1, <1>2, <1>5
  <2> QED
    BY <1>0, <1>5, <1>6, <1>7, <2>1, <2>2 DEF UsesFit
<1> QED
  BY <1>7, <1>8, <1>9 DEF TInv

\* A token takes effect for a request that held it, which is then done.
LEMMA UseKeepsTInv ==
  ASSUME TInv, NEW q \in Requests, VerifyEmail(q) \/ ResetPassword(q)
  PROVE  TInv'
<1> USE DEF TInv
<1>0. PICK t \in 0..MaxTokens : t = req[q].token
  BY DEF Shape, ReqType
<1>1. /\ Len(tokens) \in Nat /\ DOMAIN tokens = 1..Len(tokens)
      /\ tokens \in [1..Len(tokens) -> Row]
      /\ DOMAIN uses = DOMAIN tokens /\ uses \in [1..Len(tokens) -> Nat]
      /\ MaxTokens \in Nat
  BY ShapeFacts, TokensAssumption
<1>2. /\ req[q].step = "use" /\ t \in DOMAIN tokens
      /\ uses' = [uses EXCEPT ![t] = @ + 1]
      /\ DoneWithLink(q) /\ reqsBegun' = reqsBegun
      /\ verified' \in BOOLEAN /\ password' \in 0..MaxTokens
  BY <1>0 DEF VerifyEmail, ResetPassword, MarkUsed, UsesFit, Shape
<1>3. /\ tokens' \in [1..Len(tokens) -> Row]
      /\ tokens'[t].status = "used"
      /\ \A s \in DOMAIN tokens :
           /\ tokens'[s].kind = tokens[s].kind
           /\ s # t => tokens'[s].status \in {tokens[s].status, "retired"}
  <2>1. CASE VerifyEmail(q)
    BY <1>0, <1>1, <1>2, <2>1 DEF VerifyEmail, Row
  <2>2. CASE ResetPassword(q)
    <3> DEFINE others == Outstanding("RESET") \ {t}
    <3>1. tokens' = [Retire(others) EXCEPT ![t].status = "used"]
      BY <1>0, <2>2 DEF ResetPassword, AfterReset
    <3>2. others \in SUBSET DOMAIN tokens
      BY DEF Outstanding
    <3>3. /\ Retire(others) \in [1..Len(tokens) -> Row]
          /\ \A s \in DOMAIN tokens :
               /\ s \in others => Retire(others)[s].status = "retired"
               /\ s \notin others => Retire(others)[s] = tokens[s]
               /\ Retire(others)[s].kind = tokens[s].kind
      BY <3>2, RetireFacts
    <3> HIDE DEF others
    <3> QED
      BY <1>1, <1>2, <3>1, <3>3 DEF Row
  <2> QED
    BY <2>1, <2>2
<1>4. /\ tokens' \in Seq(Row) /\ Len(tokens') = Len(tokens)
      /\ DOMAIN tokens' = DOMAIN tokens
  BY <1>1, <1>3, TableIsSeq
<1>5. /\ uses' \in [1..Len(tokens) -> Nat] /\ uses'[t] = uses[t] + 1
      /\ \A s \in DOMAIN tokens : s # t => uses'[s] = uses[s]
  BY <1>1, <1>2
<1>6. uses' \in Seq(Nat) /\ Len(uses') = Len(tokens)
  BY <1>1, <1>5, TableIsSeq
<1>7. /\ req' \in [Requests -> ReqType]
      /\ \A v \in Requests \ {q} : req'[v] = req[v]
      /\ req'[q].step = "ready"
      /\ overlapped' \subseteq {v \in Requests : req'[v] # Ready}
      /\ Undisturbed'
  BY <1>2, RestOverlapped
<1>8. Shape'
  BY <1>2, <1>4, <1>6, <1>7 DEF Shape
<1>9. UsesFit'
  <2>1. ASSUME NEW s \in DOMAIN tokens, tokens'[s].status \in {"sent", "expired"}
        PROVE  uses'[s] = 0
    <3>1. s # t
      BY <1>3, <2>1
    <3>2. tokens[s].status \in {"sent", "expired"}
      BY <1>3, <2>1, <3>1
    <3> QED
      BY <1>5, <3>1, <3>2 DEF UsesFit
  <2>2. \A v \in Requests : req'[v].step = "use" => req'[v].token \in DOMAIN tokens
    BY <1>7 DEF UsesFit
  <2> QED
    BY <1>4, <2>1, <2>2 DEF UsesFit
<1> QED
  BY <1>7, <1>8, <1>9

LEMMA StepTInv == TInv /\ [NextTokens]_tokenVars => TInv'
<1> SUFFICES ASSUME TInv, [NextTokens]_tokenVars PROVE TInv'
  OBVIOUS
<1>1. ASSUME NEW q \in Requests,
             RetirePrior(q) \/ IssueToken(q) \/ VerifyEmail(q) \/ ResetPassword(q)
      PROVE  TInv'
  BY <1>1, RetireKeepsTInv, IssueKeepsTInv, UseKeepsTInv
<1>2. ASSUME NEW q \in Requests, UseRefused(q) \/ ComparePassword(q) \/ UpdatePassword(q)
      PROVE  TInv'
  <2>1. 0 \in 0..MaxTokens /\ "RESET" \in Kind
    BY TokensAssumption DEF Kind
  <2> QED
    BY <1>2, <2>1, ReadsKeepTInv
<1>3. ASSUME NEW q \in Requests, NEW kind \in Kind, AskForLink(q, kind)
      PROVE  TInv'
  <2>1. 0 \in 0..MaxTokens
    BY TokensAssumption
  <2> QED
    BY <1>3, <2>1, ReadsKeepTInv
<1>4. ASSUME NEW q \in Requests, NEW kind \in Kind, NEW t \in 1..MaxTokens,
             ReadToken(q, t, kind)
      PROVE  TInv'
  <2>1. t \in 0..MaxTokens
    BY TokensAssumption
  <2> QED
    BY <1>4, <2>1, ReadsKeepTInv
<1>5. ASSUME NEW t \in 1..MaxTokens, Expiry(t) PROVE TInv'
  BY <1>5, ExpiryKeepsTInv
<1>6. CASE UNCHANGED tokenVars
  BY <1>6 DEF tokenVars, TInv, Shape, UsesFit, Undisturbed, StillTrue
<1> QED
  BY <1>1, <1>2, <1>3, <1>4, <1>5, <1>6 DEF NextTokens

-----------------------------------------------------------------------------
(* The theorems.                                                            *)

LEMMA TokensInv == SpecTokens => []TInv
BY InitTInv, StepTInv, PTL DEF SpecTokens

\* What a step may not do to a retired token
StillDead ==
  \A t \in DOMAIN tokens : tokens[t].status = "retired" =>
    /\ tokens'[t].status = "retired" /\ uses'[t] = uses[t]
    /\ password' = t => password = t

LEMMA StepDead == TInv /\ [NextTokens]_tokenVars => StillDead
<1> SUFFICES ASSUME TInv, [NextTokens]_tokenVars PROVE StillDead
  OBVIOUS
<1> USE DEF TInv
<1>1. /\ Len(tokens) \in Nat /\ DOMAIN tokens = 1..Len(tokens)
      /\ tokens \in [1..Len(tokens) -> Row]
      /\ DOMAIN uses = DOMAIN tokens /\ uses \in [1..Len(tokens) -> Nat]
  BY ShapeFacts
<1>2. ASSUME NEW q \in Requests, RetirePrior(q) PROVE StillDead
  <2>1. Outstanding(req[q].kind) \in SUBSET DOMAIN tokens
    BY DEF Outstanding
  <2> QED
    BY <1>2, <2>1, RetireFacts DEF RetirePrior, Prior, StillDead
<1>3. ASSUME NEW q \in Requests, IssueToken(q) PROVE StillDead
  <2>1. [kind |-> req[q].kind, status |-> "sent"] \in Row
    BY DEF Shape, Row, ReqType
  <2>2. \A s \in DOMAIN tokens : tokens'[s] = tokens[s] /\ uses'[s] = uses[s]
    BY <1>1, <1>3, <2>1 DEF IssueToken, Shape
  <2> QED
    BY <1>3, <2>2 DEF IssueToken, StillDead
<1>4. ASSUME NEW s \in 1..MaxTokens, Expiry(s) PROVE StillDead
  BY <1>1, <1>4 DEF Expiry, StillDead
<1>5. ASSUME NEW q \in Requests, VerifyEmail(q) PROVE StillDead
  BY <1>1, <1>5 DEF VerifyEmail, Markable, Present, MarkUsed, StillDead
<1>6. ASSUME NEW q \in Requests, ResetPassword(q) PROVE StillDead
  <2> DEFINE s == req[q].token  others == Outstanding("RESET") \ {s}
  <2>1. /\ tokens' = [Retire(others) EXCEPT ![s].status = "used"]
        /\ uses' = [uses EXCEPT ![s] = @ + 1] /\ password' = s
        /\ s \in DOMAIN tokens /\ tokens[s].status # "retired"
    BY <1>6 DEF ResetPassword, AfterReset, MarkUsed, Markable, Present
  <2>2. others \in SUBSET DOMAIN tokens
    BY DEF Outstanding
  <2>3. /\ Retire(others) \in [1..Len(tokens) -> Row]
        /\ \A r \in DOMAIN tokens :
             /\ r \in others => Retire(others)[r].status = "retired"
             /\ r \notin others => Retire(others)[r] = tokens[r]
    BY <2>2, RetireFacts
  <2> HIDE DEF s, others
  <2> QED
    BY <1>1, <2>1, <2>3 DEF StillDead
<1>7. ASSUME NEW q \in Requests, UpdatePassword(q) PROVE StillDead
  <2>1. 0 \notin DOMAIN tokens
    BY <1>1
  <2> QED
    BY <1>7, <2>1 DEF UpdatePassword, StillDead
<1>8. ASSUME NEW q \in Requests, NEW kind \in Kind, NEW s \in 1..MaxTokens,
             ReadToken(q, s, kind)
      PROVE  StillDead
  BY <1>8 DEF ReadToken, StillDead
<1>9. ASSUME NEW q \in Requests, NEW kind \in Kind, AskForLink(q, kind) PROVE StillDead
  BY <1>9 DEF AskForLink, StillDead
<1>10. ASSUME NEW q \in Requests, UseRefused(q) \/ ComparePassword(q) PROVE StillDead
  BY <1>10 DEF UseRefused, ComparePassword, StillDead
<1>11. CASE UNCHANGED tokenVars
  BY <1>11 DEF tokenVars, StillDead
<1>12. CASE NextTokens
  BY <1>2, <1>3, <1>4, <1>5, <1>6, <1>7, <1>8, <1>9, <1>10, <1>12 DEF NextTokens
<1> QED
  BY <1>11, <1>12

\* A link is created beside another, or takes effect again, only by who was overlapped.
OnlyByOverlap ==
  LET acts(step) == {q \in Requests : req[q].step = step /\ req'[q] # req[q]}
  IN /\ \A kind \in Kind :
          (\E t \in DOMAIN tokens' \ DOMAIN tokens : tokens'[t].kind = kind)
            => Outstanding(kind) = {} \/ acts("issue") \cap overlapped # {}
     /\ \A t \in DOMAIN uses :
          uses[t] > 0 /\ uses'[t] > uses[t] => acts("use") \cap overlapped # {}

LEMMA StepOverlap == TInv /\ [NextTokens]_tokenVars => OnlyByOverlap
<1> SUFFICES ASSUME TInv, [NextTokens]_tokenVars PROVE OnlyByOverlap
  OBVIOUS
<1> USE DEF TInv
<1>1. /\ Len(tokens) \in Nat /\ DOMAIN tokens = 1..Len(tokens)
      /\ tokens \in [1..Len(tokens) -> Row]
      /\ DOMAIN uses = DOMAIN tokens /\ uses \in [1..Len(tokens) -> Nat]
  BY ShapeFacts
\* Steps that create no row and use no link
<1>2. ASSUME DOMAIN tokens' = DOMAIN tokens, uses' = uses PROVE OnlyByOverlap
  BY <1>1, <1>2 DEF OnlyByOverlap
<1>3. ASSUME NEW q \in Requests, RetirePrior(q) PROVE OnlyByOverlap
  <2>1. Outstanding(req[q].kind) \in SUBSET DOMAIN tokens
    BY DEF Outstanding
  <2>2. DOMAIN tokens' = DOMAIN tokens /\ uses' = uses
    BY <1>1, <1>3, <2>1, RetireFacts DEF RetirePrior, Prior
  <2> QED
    BY <1>2, <2>2
<1>4. ASSUME NEW s \in 1..MaxTokens, Expiry(s) PROVE OnlyByOverlap
  <2>1. DOMAIN tokens' = DOMAIN tokens /\ uses' = uses
    BY <1>4 DEF Expiry
  <2> QED
    BY <1>2, <2>1
<1>5. ASSUME NEW q \in Requests, IssueToken(q) PROVE OnlyByOverlap
  <2> DEFINE row == [kind |-> req[q].kind, status |-> "sent"]
  <2>1. /\ req[q].step = "issue" /\ tokens' = Append(tokens, row) /\ uses' = Append(uses, 0)
        /\ DoneWithLink(q)
    BY <1>5 DEF IssueToken
  <2>2. row \in Row
    BY DEF Shape, Row, ReqType
  <2>3. /\ \A t \in DOMAIN tokens' \ DOMAIN tokens : tokens'[t] = row
        /\ \A t \in DOMAIN uses : uses'[t] = uses[t]
    BY <1>1, <2>1, <2>2 DEF Shape
  <2>4. req'[q] # req[q]
    BY <2>1, RestOverlapped
  <2>5. q \notin overlapped => Outstanding(req[q].kind) = {}
    BY <2>1 DEF Undisturbed, StillTrue, Outstanding
  <2>6. ASSUME NEW kind \in Kind, NEW t \in DOMAIN tokens' \ DOMAIN tokens,
               tokens'[t].kind = kind, q \notin overlapped
        PROVE  Outstanding(kind) = {}
    BY <2>3, <2>5, <2>6
  <2>7. q \in {v \in Requests : req[v].step = "issue" /\ req'[v] # req[v]}
    BY <2>1, <2>4
  <2>8. \A t \in DOMAIN uses : ~(uses'[t] > uses[t])
    BY <1>1, <2>3
  <2> QED
    BY <2>6, <2>7, <2>8 DEF OnlyByOverlap
<1>6. ASSUME NEW q \in Requests, VerifyEmail(q) \/ ResetPassword(q) PROVE OnlyByOverlap
  <2> DEFINE t == req[q].token
  <2>1. /\ req[q].step = "use" /\ uses' = [uses EXCEPT ![t] = @ + 1] /\ DoneWithLink(q)
    BY <1>6 DEF VerifyEmail, ResetPassword, MarkUsed
  <2>2. DOMAIN tokens' = DOMAIN tokens
    <3>1. Outstanding("RESET") \ {t} \in SUBSET DOMAIN tokens
      BY DEF Outstanding
    <3>2. DOMAIN Retire(Outstanding("RESET") \ {t}) = DOMAIN tokens
      BY <1>1, <3>1, RetireFacts
    <3> QED
      BY <1>6, <3>2 DEF VerifyEmail, ResetPassword, AfterReset
  <2>3. req'[q] # req[q]
    BY <2>1, RestOverlapped
  <2>4. q \notin overlapped => uses[t] = 0
    BY <2>1 DEF Undisturbed, StillTrue
  <2>5. \A s \in DOMAIN uses : s # t => uses'[s] = uses[s]
    BY <2>1
  <2>6. \A s \in DOMAIN uses : uses[s] > 0 /\ uses'[s] > uses[s] => q \in overlapped
    BY <1>1, <2>4, <2>5
  <2> HIDE DEF t
  <2> QED
    BY <2>1, <2>2, <2>3, <2>6 DEF OnlyByOverlap
<1>7. ASSUME NEW q \in Requests, NEW kind \in Kind, NEW s \in 1..MaxTokens,
             \/ AskForLink(q, kind) \/ ReadToken(q, s, kind)
             \/ UseRefused(q) \/ ComparePassword(q) \/ UpdatePassword(q)
      PROVE  OnlyByOverlap
  <2>1. DOMAIN tokens' = DOMAIN tokens /\ uses' = uses
    BY <1>7 DEF AskForLink, ReadToken, UseRefused, ComparePassword, UpdatePassword
  <2> QED
    BY <1>2, <2>1
<1>8. CASE UNCHANGED tokenVars
  BY <1>2, <1>8 DEF tokenVars
<1>9. CASE NextTokens
  <2>1. ASSUME NEW q \in Requests, UseRefused(q) \/ ComparePassword(q) \/ UpdatePassword(q)
        PROVE  OnlyByOverlap
    <3>1. DOMAIN tokens' = DOMAIN tokens /\ uses' = uses
      BY <2>1 DEF UseRefused, ComparePassword, UpdatePassword
    <3> QED
      BY <1>2, <3>1
  <2>2. ASSUME NEW q \in Requests, NEW kind \in Kind, AskForLink(q, kind) PROVE OnlyByOverlap
    <3>1. DOMAIN tokens' = DOMAIN tokens /\ uses' = uses
      BY <2>2 DEF AskForLink
    <3> QED
      BY <1>2, <3>1
  <2> QED
    BY <1>3, <1>4, <1>5, <1>6, <1>7, <1>9, <2>1, <2>2 DEF NextTokens
<1> QED
  BY <1>8, <1>9

\* Rows, requests, what links set and the histories keep their types, and every
\* overlapped request is under way.
THEOREM TypeCorrectTokens == SpecTokens => []TokensTypeOK
<1>1. TInv => TokensTypeOK
  BY DEF TInv, Shape, TokensTypeOK, Row, ReqType
<1> QED
  BY <1>1, TokensInv, PTL

\* issueVerificationEmail, forgotPassword, verifyEmail, resetPassword: for any number
\* of requests, a second open link of a kind, or a second effect of a link, is the
\* work of a request that another one overlapped.
THEOREM LinksNeedOverlap == SpecTokens => LinksOnlyByOverlap
BY TokensInv, StepOverlap, PTL DEF SpecTokens, LinksOnlyByOverlap, OnlyByOverlap

\* A link that was retired does nothing any more, for whoever had read it.
THEOREM RetiredLinksStayDead == SpecTokens => RetiredLinkIsDead
BY TokensInv, StepDead, PTL DEF SpecTokens, RetiredLinkIsDead, StillDead
=============================================================================
