---------------------------- MODULE SessionProofs ----------------------------
(***************************************************************************)
(* What Session promises, proved for any number of calls and of tokens:    *)
(* one refresh at a time, a refresh token that outlives the id tokens it   *)
(* is exchanged for, and no write for a user who has left the group once   *)
(* the tokens of that time have expired.                                   *)
(*                                                                         *)
(* The inductive invariant adds one fact to TypeOK and OneRefresh: a token *)
(* that claims the group, in the tab or in a call, was minted while the    *)
(* user was in it.                                                         *)
(***************************************************************************)
EXTENDS Session, TLAPS

AnyToken == [num : Nat, admin : BOOLEAN]

\* What a token was minted with, when m tokens are minted, the user is (a) in
\* the group, and the last to claim it from an earlier membership is token l.
Vouched(t, m, a, l) ==
    t # None =>
        /\ t.num <= m
        /\ t.admin => a \/ t.num <= l

Claims ==
    /\ Vouched(id, minted, admin, lastAdmin)
    /\ \A c \in Call : Vouched(calls[c].token, minted, admin, lastAdmin)

IInv == TypeOK /\ OneRefresh /\ Claims

-----------------------------------------------------------------------------
(* Lemmas. *)

\* A fresh token is a token, and vouched for in the state after its minting.
LEMMA Minting ==
    ASSUME TypeOK, minted < MaxTokens
    PROVE  /\ NewToken \in Token
           /\ minted + 1 \in 0..MaxTokens
           /\ minted \in Nat /\ minted <= minted + 1
           /\ expired \in 0..(minted + 1) /\ lastAdmin \in 0..(minted + 1)
           /\ Vouched(NewToken, minted + 1, admin, lastAdmin)
  <1>1. minted \in Nat /\ MaxTokens \in Nat /\ admin \in BOOLEAN
    BY MaxTokensAssumption DEF TypeOK
  <1>2. NewToken.num = minted + 1 /\ NewToken.admin = admin
    BY DEF NewToken
  <1>3. minted + 1 \in 1..MaxTokens
    BY <1>1
  <1>4. NewToken \in Token
    BY <1>1, <1>3 DEF NewToken, Token
  <1>5. Vouched(NewToken, minted + 1, admin, lastAdmin)
    BY <1>1, <1>2 DEF Vouched
  <1>6. minted + 1 \in 0..MaxTokens /\ minted <= minted + 1
    BY <1>1
  <1>7. expired \in 0..(minted + 1) /\ lastAdmin \in 0..(minted + 1)
    BY <1>1 DEF TypeOK
  <1> QED BY <1>1, <1>4, <1>5, <1>6, <1>7

\* A token stays vouched for when more are minted.
LEMMA StaysVouched ==
    ASSUME NEW t \in Token \union {None}, NEW m \in Nat, NEW a, NEW l,
           Vouched(t, m, a, l)
    PROVE  Vouched(t, m + 1, a, l)
  <1>1. CASE t = None
    BY <1>1 DEF Vouched
  <1>2. CASE t # None
    <2>1. t \in Token
      BY <1>2
    <2>2. t.num \in Nat
      BY <2>1, MaxTokensAssumption DEF Token
    <2> QED BY <1>2, <2>2 DEF Vouched
  <1> QED BY <1>1, <1>2

-----------------------------------------------------------------------------
(* The calls a step leaves, by the form of the step. *)

\* Settling the calls of C, which are the waiting ones or none of them.
LEMMA Settling ==
    ASSUME TypeOK, Claims, NEW C \in SUBSET Call,
           calls' = [c \in Call |-> IF c \in C THEN Settled ELSE calls[c]]
    PROVE  /\ calls' \in [Call -> CallState]
           /\ \A c \in Call : Vouched(calls'[c].token, minted, admin, lastAdmin)
           /\ Waiters' = Waiters \ C
  <1>1. calls \in [Call -> CallState]
    BY DEF TypeOK
  <1>2. Settled \in CallState /\ Settled.stage = "idle" /\ Settled.token = None
    BY DEF Settled, CallState
  <1>3. calls' \in [Call -> CallState]
    BY <1>1, <1>2
  <1>4. \A c \in Call : Vouched(calls'[c].token, minted, admin, lastAdmin)
    <2>1. TAKE c \in Call
    <2>2. CASE c \in C
      BY <1>2, <2>2 DEF Vouched
    <2>3. CASE c \notin C
      BY <2>3 DEF Claims
    <2> QED BY <2>2, <2>3
  <1>5. Waiters' = Waiters \ C
    BY <1>2 DEF Waiters
  <1> QED BY <1>3, <1>4, <1>5

\* Settling one call.
LEMMA SettlingOne ==
    ASSUME TypeOK, Claims, NEW c \in Call, calls[c].stage # "waiting",
           \/ calls' = [calls EXCEPT ![c] = Settled]
           \/ calls' = [d \in Call |-> IF d \in {c} THEN Settled ELSE calls[d]]
    PROVE  /\ calls' \in [Call -> CallState]
           /\ \A d \in Call : Vouched(calls'[d].token, minted, admin, lastAdmin)
           /\ Waiters' = Waiters
  <1>1. calls' = [d \in Call |-> IF d \in {c} THEN Settled ELSE calls[d]]
    BY DEF TypeOK
  <1>2. /\ calls' \in [Call -> CallState]
        /\ \A d \in Call : Vouched(calls'[d].token, minted, admin, lastAdmin)
        /\ Waiters' = Waiters \ {c}
    BY <1>1, Settling
  <1>3. c \notin Waiters
    BY DEF Waiters
  <1> QED BY <1>2, <1>3

-----------------------------------------------------------------------------
(* The steps. *)

LEMMA InitInv == Init => IInv
  <1> SUFFICES ASSUME Init PROVE IInv
    OBVIOUS
  <1>1. Settled \in CallState /\ Settled.stage = "idle" /\ Settled.token = None
    BY DEF Settled, CallState
  <1>2. TypeOK
    <2>1. calls \in [Call -> CallState] /\ id \in Token \union {None}
      BY <1>1 DEF Init
    <2>2. /\ asked \in 0..1 /\ minted \in 0..MaxTokens
          /\ expired \in 0..minted /\ lastAdmin \in 0..minted
      BY MaxTokensAssumption DEF Init
    <2>3. /\ refresh \in BOOLEAN /\ inFlight \in BOOLEAN /\ busy \in BOOLEAN
          /\ admin \in BOOLEAN /\ refreshable \in BOOLEAN
      BY DEF Init
    <2> QED BY <2>1, <2>2, <2>3 DEF Init, TypeOK
  <1>3. OneRefresh
    BY <1>1 DEF Init, OneRefresh, Waiters
  <1>4. Claims
    BY <1>1 DEF Init, Claims, Vouched
  <1> QED BY <1>2, <1>3, <1>4 DEF IInv

\* Signing in mints a token for the tab.
LEMMA SignedInInv == IInv /\ SignedIn => IInv'
  <1> SUFFICES ASSUME TypeOK, OneRefresh, Claims, SignedIn PROVE IInv'
    BY DEF IInv
  <1> USE DEF SignedIn
  <1>1. minted < MaxTokens
    OBVIOUS
  <1>2. /\ NewToken \in Token
        /\ minted + 1 \in 0..MaxTokens
        /\ minted \in Nat
        /\ expired \in 0..(minted + 1) /\ lastAdmin \in 0..(minted + 1)
        /\ Vouched(NewToken, minted + 1, admin, lastAdmin)
    BY <1>1, Minting
  <1>3. TypeOK'
    BY <1>2 DEF TypeOK
  <1>4. OneRefresh'
    BY DEF OneRefresh, Waiters
  <1>5. \A c \in Call : Vouched(calls[c].token, minted + 1, admin, lastAdmin)
    <2>1. TAKE c \in Call
    <2>2. calls[c].token \in Token \union {None}
      BY DEF TypeOK, CallState
    <2> QED BY <1>2, <2>2, StaysVouched DEF Claims
  <1>6. Claims'
    BY <1>2, <1>5 DEF Claims
  <1> QED BY <1>3, <1>4, <1>6 DEF IInv

\* A document that loads has no call and no refresh.
LEMMA LoadedInv ==
    ASSUME NEW next \in {"login", "app"}, IInv, Loaded(next)
    PROVE  IInv'
  <1> USE DEF Loaded
  <1>1. Settled \in CallState /\ Settled.stage = "idle" /\ Settled.token = None
    BY DEF Settled, CallState
  <1>2. TypeOK'
    <2>1. calls' \in [Call -> CallState]
      BY <1>1
    <2>2. page' \in {"login", "challenge", "app", "leaving"} /\ asked' \in 0..1
      OBVIOUS
    <2>3. inFlight' \in BOOLEAN /\ busy' \in BOOLEAN
      OBVIOUS
    <2> QED BY <2>1, <2>2, <2>3 DEF IInv, TypeOK, cognito
  <1>3. OneRefresh'
    BY <1>1 DEF OneRefresh, Waiters
  <1>4. Claims'
    BY <1>1 DEF IInv, Claims, Vouched, cognito
  <1> QED BY <1>2, <1>3, <1>4 DEF IInv

\* A call that goes out carries the tab's token.
LEMMA SendInv ==
    ASSUME NEW c \in Call, NEW write \in BOOLEAN, IInv, Send(c, write)
    PROVE  IInv'
  <1> DEFINE sent == [stage |-> "sent", write |-> write, token |-> id]
  <1>1. calls' = [calls EXCEPT ![c] = sent] /\ calls[c] = Settled
    BY DEF Send
  <1>2. sent \in CallState /\ sent.stage = "sent" /\ sent.token = id
    BY DEF IInv, TypeOK, CallState
  <1>3. TypeOK'
    <2>1. calls' \in [Call -> CallState]
      BY <1>1, <1>2 DEF IInv, TypeOK
    <2> QED BY <2>1 DEF Send, IInv, TypeOK, cognito
  <1>4. OneRefresh'
    <2>1. calls[c].stage = "idle"
      BY <1>1 DEF Settled
    <2>2. Waiters' = Waiters
      BY <1>1, <1>2, <2>1 DEF Waiters, IInv, TypeOK
    <2> QED BY <2>2 DEF Send, IInv, OneRefresh
  <1>5. Claims'
    <2>1. \A d \in Call : calls'[d].token = IF d = c THEN id ELSE calls[d].token
      BY <1>1, <1>2 DEF IInv, TypeOK
    <2> QED BY <2>1 DEF Send, IInv, Claims, cognito
  <1> QED BY <1>3, <1>4, <1>5 DEF IInv

\* An answer other than 401 settles its call.
LEMMA SettleInv ==
    ASSUME NEW c \in Call, IInv, InFlight(c), Settle(c)
    PROVE  IInv'
  <1>1. calls[c].stage # "waiting"
    BY DEF InFlight
  <1>2. /\ calls' \in [Call -> CallState]
        /\ \A d \in Call : Vouched(calls'[d].token, minted, admin, lastAdmin)
        /\ Waiters' = Waiters
    BY <1>1, SettlingOne DEF IInv, Settle
  <1>3. TypeOK'
    BY <1>2 DEF IInv, TypeOK, Settle, cognito
  <1>4. OneRefresh'
    BY <1>2 DEF IInv, OneRefresh, Settle
  <1>5. Claims'
    BY <1>2 DEF IInv, Claims, Settle, cognito
  <1> QED BY <1>3, <1>4, <1>5 DEF IInv

\* A bounce of calls C, with what becomes of the refresh.
LEMMA BounceInv ==
    ASSUME NEW C \in SUBSET Call, IInv, Bounce(C),
           UNCHANGED <<busy, cognito>>,
           \/ Waiters \intersect C = {} /\ UNCHANGED <<inFlight, asked>>
           \/ Waiters = C /\ inFlight' = FALSE /\ asked' = 0
    PROVE  IInv'
  <1>1. /\ calls' \in [Call -> CallState]
        /\ \A d \in Call : Vouched(calls'[d].token, minted, admin, lastAdmin)
        /\ Waiters' = Waiters \ C
    BY Settling DEF IInv, Bounce
  <1>2. TypeOK'
    <2>1. /\ page' \in {"login", "challenge", "app", "leaving"}
          /\ id' \in Token \union {None}
      BY DEF Bounce
    <2>2. refresh' \in BOOLEAN
      BY DEF Bounce
    <2>3. inFlight' \in BOOLEAN
      BY DEF IInv, TypeOK
    <2>4. asked' \in 0..1
      BY DEF IInv, TypeOK
    <2> QED BY <1>1, <2>1, <2>2, <2>3, <2>4 DEF IInv, TypeOK, cognito
  <1>3. OneRefresh'
    BY <1>1 DEF IInv, OneRefresh
  <1>4. Claims'
    BY <1>1 DEF IInv, Claims, Bounce, Vouched, cognito
  <1> QED BY <1>2, <1>3, <1>4 DEF IInv

\* A 401 waits for the one refresh, starts it, or bounces.
LEMMA UnauthorizedInv ==
    ASSUME NEW c \in Call, IInv, Unauthorized(c)
    PROVE  IInv'
  <1>1. c \notin Waiters /\ calls[c].stage = "sent" /\ UNCHANGED <<busy, cognito>>
    BY DEF Unauthorized, Waiters
  <1>2. CASE ~inFlight /\ ~refresh
    <2>1. Bounce({c}) /\ UNCHANGED <<inFlight, asked>>
      BY <1>2 DEF Unauthorized
    <2>2. Waiters \intersect {c} = {}
      BY <1>1
    <2> QED BY <1>1, <2>1, <2>2, BounceInv
  <1>3. CASE ~(~inFlight /\ ~refresh)
    <2> DEFINE waiting == [calls[c] EXCEPT !.stage = "waiting"]
    <2>1. /\ calls' = [calls EXCEPT ![c].stage = "waiting"]
          /\ inFlight' = TRUE
          /\ asked' = IF inFlight THEN asked ELSE asked + 1
          /\ UNCHANGED <<page, id, refresh>>
      BY <1>3 DEF Unauthorized
    <2>2. /\ waiting \in CallState /\ waiting.stage = "waiting"
          /\ waiting.token = calls[c].token
      BY DEF IInv, TypeOK, CallState
    <2>3. calls' = [calls EXCEPT ![c] = waiting]
      BY <2>1
    <2>4. calls' \in [Call -> CallState] /\ calls'[c] = waiting
      BY <2>2, <2>3 DEF IInv, TypeOK
    <2>5. asked' = 1
      BY <2>1 DEF IInv, OneRefresh
    <2>6. TypeOK'
      BY <1>1, <2>1, <2>4, <2>5 DEF IInv, TypeOK, cognito
    <2>7. OneRefresh'
      <3>1. c \in Waiters'
        BY <2>2, <2>4 DEF Waiters
      <3> QED BY <2>1, <2>5, <3>1 DEF OneRefresh
    <2>8. Claims'
      <3>1. \A d \in Call : calls'[d].token = calls[d].token
        BY <2>2, <2>3 DEF IInv, TypeOK
      <3> QED BY <1>1, <2>1, <3>1 DEF IInv, Claims, cognito
    <2> QED BY <2>6, <2>7, <2>8 DEF IInv
  <1> QED BY <1>2, <1>3

\* A 401 after the retry bounces its call alone.
LEMMA UnauthorizedAgainInv ==
    ASSUME NEW c \in Call, IInv, UnauthorizedAgain(c)
    PROVE  IInv'
  <1>1. Waiters \intersect {c} = {}
    BY DEF UnauthorizedAgain, Waiters
  <1>2. Bounce({c}) /\ UNCHANGED <<busy, cognito>> /\ UNCHANGED <<inFlight, asked>>
    BY DEF UnauthorizedAgain
  <1> QED BY <1>1, <1>2, BounceInv

\* A refresh mints one token, for the tab and for every call that waits.
LEMMA RefreshedInv == IInv /\ Refreshed => IInv'
  <1> SUFFICES ASSUME IInv, Refreshed PROVE IInv'
    OBVIOUS
  <1>1. minted < MaxTokens
    BY DEF Refreshed
  <1>2. /\ NewToken \in Token
        /\ minted + 1 \in 0..MaxTokens
        /\ minted \in Nat
        /\ expired \in 0..(minted + 1) /\ lastAdmin \in 0..(minted + 1)
        /\ Vouched(NewToken, minted + 1, admin, lastAdmin)
    BY <1>1, Minting DEF IInv
  <1>3. asked = 1 /\ asked' = 0
    BY DEF Refreshed, IInv, OneRefresh
  <1>4. \A c \in Call :
            /\ calls'[c] \in CallState
            /\ calls'[c].stage # "waiting"
            /\ Vouched(calls'[c].token, minted + 1, admin, lastAdmin)
    <2>1. TAKE c \in Call
    <2>2. calls[c] \in CallState /\ calls[c].token \in Token \union {None}
      BY DEF IInv, TypeOK, CallState
    <2>3. CASE c \in Waiters
      <3>1. calls'[c] = [calls[c] EXCEPT !.stage = "retried", !.token = NewToken]
        BY <2>3 DEF Refreshed, Retried
      <3>2. NewToken \in Token \union {None}
        BY <1>2
      <3>3. /\ calls'[c] \in CallState /\ calls'[c].stage = "retried"
            /\ calls'[c].token = NewToken
        BY <2>2, <3>1, <3>2 DEF CallState
      <3> QED BY <1>2, <3>3
    <2>4. CASE c \notin Waiters
      <3>1. calls'[c] = calls[c]
        BY <2>4 DEF Refreshed, Retried
      <3>2. calls[c].stage # "waiting"
        BY <2>4 DEF Waiters
      <3>3. Vouched(calls[c].token, minted + 1, admin, lastAdmin)
        BY <1>2, <2>2, StaysVouched DEF IInv, Claims
      <3> QED BY <2>2, <3>1, <3>2, <3>3
    <2> QED BY <2>3, <2>4
  <1>5. TypeOK'
    <2>1. calls' \in [Call -> CallState]
      BY <1>4 DEF Refreshed, Retried
    <2>2. id' \in Token \union {None} /\ asked' \in 0..1
      BY <1>2, <1>3 DEF Refreshed
    <2>3. inFlight' \in BOOLEAN
      BY DEF Refreshed
    <2>4. /\ minted' \in 0..MaxTokens
          /\ expired' \in 0..minted' /\ lastAdmin' \in 0..minted'
      BY <1>2 DEF Refreshed
    <2> QED BY <2>1, <2>2, <2>3, <2>4 DEF Refreshed, IInv, TypeOK
  <1>6. OneRefresh'
    BY <1>3, <1>4 DEF Refreshed, OneRefresh, Waiters
  <1>7. Claims'
    BY <1>2, <1>4 DEF Refreshed, Claims
  <1> QED BY <1>5, <1>6, <1>7 DEF IInv

\* A refresh that fails bounces every call that waits.
LEMMA RefreshFailedInv == IInv /\ RefreshFailed => IInv'
  <1> SUFFICES ASSUME IInv, RefreshFailed PROVE IInv'
    OBVIOUS
  <1>1. asked' = 0 /\ inFlight' = FALSE
    BY DEF RefreshFailed, IInv, OneRefresh
  <1>2. Waiters \in SUBSET Call
    BY DEF Waiters
  <1> QED BY <1>1, <1>2, BounceInv DEF RefreshFailed

\* What happens at Cognito; leaving the group dates the tokens that claim it.
LEMMA CognitoInv == IInv /\ (Expire \/ Revoke \/ ChangeGroup) => IInv'
  <1> SUFFICES ASSUME IInv, Expire \/ Revoke \/ ChangeGroup PROVE IInv'
    OBVIOUS
  <1>1. UNCHANGED <<tab, minted>>
    BY DEF Expire, Revoke, ChangeGroup, tab
  <1>2. TypeOK'
    <2>1. admin' \in BOOLEAN
      BY DEF Expire, Revoke, ChangeGroup, IInv, TypeOK
    <2>2. refreshable' \in BOOLEAN
      BY DEF Expire, Revoke, ChangeGroup, IInv, TypeOK
    <2>3. minted' \in 0..MaxTokens /\ minted \in Nat
      BY <1>1, MaxTokensAssumption DEF IInv, TypeOK
    <2>4. expired' \in 0..minted'
      BY <1>1, <2>3 DEF Expire, Revoke, ChangeGroup, IInv, TypeOK
    <2>5. lastAdmin' \in 0..minted'
      BY <1>1, <2>3 DEF Expire, Revoke, ChangeGroup, IInv, TypeOK
    <2> QED BY <1>1, <2>1, <2>2, <2>3, <2>4, <2>5 DEF IInv, TypeOK, tab
  <1>3. OneRefresh'
    BY <1>1 DEF IInv, OneRefresh, Waiters, tab
  <1>4. ASSUME NEW t, Vouched(t, minted, admin, lastAdmin)
        PROVE  Vouched(t, minted, admin', lastAdmin')
    BY <1>4 DEF Expire, Revoke, ChangeGroup, Vouched, IInv, TypeOK
  <1>5. Claims'
    BY <1>1, <1>4 DEF IInv, Claims, tab
  <1> QED BY <1>2, <1>3, <1>5 DEF IInv

LEMMA NextInv == IInv /\ [Next]_vars => IInv'
  <1> SUFFICES ASSUME IInv, [Next]_vars PROVE IInv'
    OBVIOUS
  <1>1. CASE \/ Submit
             \/ \E next \in {"challenge", "login"} :
                    /\ page' = next /\ busy' = FALSE
                    /\ UNCHANGED <<id, refresh, inFlight, asked, calls, cognito>>
             \/ /\ busy' = FALSE
                /\ UNCHANGED <<page, id, refresh, inFlight, asked, calls, cognito>>
    <2>1. UNCHANGED <<id, refresh, inFlight, asked, calls, cognito>>
      BY <1>1 DEF Submit
    <2>2. page' \in {page, "challenge", "login"} /\ busy' \in BOOLEAN
      BY <1>1 DEF Submit
    <2>3. TypeOK'
      BY <2>1, <2>2 DEF IInv, TypeOK, cognito
    <2>4. OneRefresh' /\ Claims'
      BY <2>1 DEF IInv, OneRefresh, Waiters, Claims, cognito
    <2> QED BY <2>3, <2>4 DEF IInv
  <1>2. CASE LoginAnswered
    BY <1>1, <1>2, SignedInInv DEF LoginAnswered
  <1>3. CASE ChallengeAnswered
    BY <1>1, <1>3, SignedInInv DEF ChallengeAnswered
  <1>4. CASE Open
    <2>1. \E next \in {"login", "app"} : Loaded(next)
      BY <1>4 DEF Open
    <2> QED BY <2>1, LoadedInv
  <1>5. CASE Bounced
    BY <1>5, LoadedInv DEF Bounced
  <1>6. ASSUME NEW c \in Call, NEW write \in BOOLEAN, Send(c, write) PROVE IInv'
    BY <1>6, SendInv
  <1>7. ASSUME NEW c \in Call, Answered(c) PROVE IInv'
    BY <1>7, SettleInv, UnauthorizedInv, UnauthorizedAgainInv
       DEF Answered, Served, Refused, Failed
  <1>8. CASE RefreshAnswered
    BY <1>8, RefreshedInv, RefreshFailedInv DEF RefreshAnswered
  <1>9. CASE Expire \/ Revoke \/ ChangeGroup
    BY <1>9, CognitoInv
  <1>10. CASE UNCHANGED vars
    BY <1>10 DEF IInv, TypeOK, OneRefresh, Waiters, Claims, vars, tab, cognito
  <1> QED BY <1>1, <1>2, <1>3, <1>4, <1>5, <1>6, <1>7, <1>8, <1>9, <1>10 DEF Next

LEMMA Invariance == Spec => []IInv
  BY InitInv, NextInv, PTL DEF Spec

-----------------------------------------------------------------------------
(* Theorems. *)

\* However many calls come back 401 at once, one refresh is asked for, and it
\* is under way exactly while some call waits for it (auth.ts:58 tryRefresh).
THEOREM RefreshIsShared == Spec => []OneRefresh
  BY Invariance, PTL DEF IInv

\* Tokens are counted in the order of their minting, and every call carries one
\* or none, in each of its stages.
THEOREM TypesHold == Spec => []TypeOK
  BY Invariance, PTL DEF IInv

\* No refresh costs the refresh token (auth.ts:73): of all the steps, only the
\* bounce gives it up.
THEOREM RefreshOutlives == Spec => RefreshKept
  <1>1. [Next]_vars => (refresh /\ ~refresh' => page' = "leaving")
    <2> SUFFICES ASSUME [Next]_vars, refresh, ~refresh'
                 PROVE  page' = "leaving"
      OBVIOUS
    <2> USE DEF Bounce, cognito, tab
    <2>1. CASE Submit \/ LoginAnswered \/ ChallengeAnswered
      BY <2>1 DEF Submit, LoginAnswered, ChallengeAnswered, SignedIn
    <2>2. CASE Open \/ Bounced
      BY <2>2 DEF Open, Bounced, Loaded
    <2>3. ASSUME NEW c \in Call, NEW write \in BOOLEAN, Send(c, write)
          PROVE  page' = "leaving"
      BY <2>3 DEF Send
    <2>4. ASSUME NEW c \in Call, Answered(c) PROVE page' = "leaving"
      BY <2>4 DEF Answered, Served, Refused, Failed, Settle, Unauthorized,
                  UnauthorizedAgain
    <2>5. CASE RefreshAnswered
      BY <2>5 DEF RefreshAnswered, Refreshed, RefreshFailed
    <2>6. CASE Expire \/ Revoke \/ ChangeGroup \/ UNCHANGED vars
      BY <2>6 DEF Expire, Revoke, ChangeGroup, vars
    <2> QED BY <2>1, <2>2, <2>3, <2>4, <2>5, <2>6 DEF Next
  <1> QED BY <1>1, PTL DEF Spec, RefreshKept

\* A write is served only to a user who is in the admin group, or to a token
\* of the time when he was that has not expired: a membership that has ended
\* is not prolonged by a refresh, a retry or a reload (permissions.py:22).
THEOREM DemotionHolds == Spec => DemotedCannotWrite
  <1>1. IInv => (\A c \in Call :
                    Served(c) /\ calls[c].write => admin \/ lastAdmin > expired)
    <2> SUFFICES ASSUME IInv, NEW c \in Call, Served(c), calls[c].write
                 PROVE  admin \/ lastAdmin > expired
      OBVIOUS
    <2>1. calls[c].token # None /\ calls[c].token.num > expired
      BY DEF Served, Verifies
    <2>2. calls[c].token.admin
      BY DEF Served, Permits
    <2>3. admin \/ calls[c].token.num <= lastAdmin
      BY <2>1, <2>2 DEF IInv, Claims, Vouched
    <2>4. calls[c].token \in Token
      BY <2>1 DEF IInv, TypeOK, CallState
    <2>5. /\ calls[c].token.num \in Nat /\ minted \in Nat
          /\ expired \in Nat /\ lastAdmin \in Nat
      BY <2>4, MaxTokensAssumption DEF IInv, TypeOK, Token
    <2> QED BY <2>1, <2>3, <2>5
  <1> QED BY <1>1, Invariance, PTL DEF DemotedCannotWrite

\* A refresh that is still to be answered after a bounce is of a page that is
\* being left.
LateRefresh == asked > 0 /\ ~refresh => page = "leaving"

LEMMA LateRefreshKept == TypeOK /\ LateRefresh /\ [Next]_vars => LateRefresh'
  <1> SUFFICES ASSUME TypeOK, LateRefresh, [Next]_vars PROVE LateRefresh'
    OBVIOUS
  <1> USE DEF LateRefresh, Bounce, cognito, tab
  <1>1. CASE Submit \/ LoginAnswered \/ ChallengeAnswered
    BY <1>1 DEF Submit, LoginAnswered, ChallengeAnswered, SignedIn
  <1>2. CASE Open \/ Bounced
    BY <1>2 DEF Open, Bounced, Loaded
  <1>3. ASSUME NEW c \in Call, NEW write \in BOOLEAN, Send(c, write)
        PROVE  LateRefresh'
    BY <1>3 DEF Send
  <1>4. ASSUME NEW c \in Call, Answered(c) PROVE LateRefresh'
    BY <1>4 DEF Answered, Served, Refused, Failed, Settle, Unauthorized,
                UnauthorizedAgain
  <1>5. CASE RefreshAnswered
    BY <1>5 DEF RefreshAnswered, Refreshed, RefreshFailed, TypeOK
  <1>6. CASE Expire \/ Revoke \/ ChangeGroup \/ UNCHANGED vars
    BY <1>6 DEF Expire, Revoke, ChangeGroup, vars
  <1> QED BY <1>1, <1>2, <1>3, <1>4, <1>5, <1>6 DEF Next

\* Once /login is loaded, no answer of the session before stores a token
\* (auth.ts:75): only a sign-in does.
THEOREM BounceIsFinal == Spec => BouncedForGood
  <1>1. Init => LateRefresh
    BY DEF Init, LateRefresh
  <1>2. LateRefresh /\ [Next]_vars =>
            [~refresh /\ ~refresh' /\ id' # id => page = "leaving" \/ id' = None]_vars
    <2> SUFFICES ASSUME LateRefresh, Next, ~refresh, ~refresh', id' # id
                 PROVE  page = "leaving" \/ id' = None
      OBVIOUS
    <2> USE DEF Bounce, cognito, tab
    <2>1. CASE Submit \/ LoginAnswered \/ ChallengeAnswered
      BY <2>1 DEF Submit, LoginAnswered, ChallengeAnswered, SignedIn
    <2>2. CASE Open \/ Bounced
      BY <2>2 DEF Open, Bounced, Loaded
    <2>3. ASSUME NEW c \in Call, NEW write \in BOOLEAN, Send(c, write)
          PROVE  page = "leaving" \/ id' = None
      BY <2>3 DEF Send
    <2>4. ASSUME NEW c \in Call, Answered(c)
          PROVE  page = "leaving" \/ id' = None
      BY <2>4 DEF Answered, Served, Refused, Failed, Settle, Unauthorized,
                  UnauthorizedAgain
    <2>5. CASE RefreshAnswered
      BY <2>5 DEF RefreshAnswered, Refreshed, RefreshFailed, LateRefresh
    <2>6. CASE Expire \/ Revoke \/ ChangeGroup
      BY <2>6 DEF Expire, Revoke, ChangeGroup
    <2> QED BY <2>1, <2>2, <2>3, <2>4, <2>5, <2>6 DEF Next
  <1>3. IInv => TypeOK
    BY DEF IInv
  <1> QED BY <1>1, <1>2, <1>3, LateRefreshKept, Invariance, PTL DEF Spec, BouncedForGood
=============================================================================
