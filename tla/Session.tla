------------------------------- MODULE Session -------------------------------
(***************************************************************************)
(* The signed-in session of one browser tab: the tokens that auth.ts keeps *)
(* in sessionStorage, the API calls in flight that share one refresh when  *)
(* they come back 401 (api.ts), the sign-in pages, and the server that     *)
(* verifies the id token and gates writes by the group it names.           *)
(*                                                                         *)
(* Between two answers the page's code runs to its end, so an answer and   *)
(* everything the page does about it is one action.  An id token is the    *)
(* number of its minting and the admin claim it was minted with; all live  *)
(* equally long, so they expire in order.  Cognito issues one refresh      *)
(* token per sign-in; `refreshable` is whether it still accepts the latest.*)
(***************************************************************************)
EXTENDS Naturals

CONSTANTS
    Call,       \* API calls of the pages
    MaxTokens,  \* bound on the id tokens minted
    None        \* no token

ASSUME MaxTokensAssumption == MaxTokens \in Nat
ASSUME NoneAssumption == None \notin [num : Nat, admin : BOOLEAN]

VARIABLES
    page,       \* what the tab shows; "leaving" until location.replace loads
    id,         \* cachedId, and its copy in sessionStorage
    refresh,    \* whether cachedRefresh is set
    inFlight,   \* whether refreshInFlight is set
    asked,      \* refresh requests under way
    busy,       \* a sign-in, or a new password, was submitted
    calls,      \* [Call -> the call's progress]
    admin,      \* the user is in the admin group now
    minted,     \* id tokens minted so far
    expired,    \* how many of them have expired
    refreshable,\* Cognito accepts the refresh token
    lastAdmin   \* history: tokens minted before the user last left the group

tab == <<page, id, refresh, inFlight, asked, busy, calls>>
cognito == <<admin, minted, expired, refreshable, lastAdmin>>
vars == <<tab, cognito>>

Token == [num : 1..MaxTokens, admin : BOOLEAN]

CallState == [stage : {"idle", "sent", "waiting", "retried"},
              write : BOOLEAN, token : Token \union {None}]

\* Every type of the state.
TypeOK ==
    /\ page \in {"login", "challenge", "app", "leaving"}
    /\ id \in Token \union {None}
    /\ refresh \in BOOLEAN /\ inFlight \in BOOLEAN /\ busy \in BOOLEAN
    /\ asked \in 0..1
    /\ calls \in [Call -> CallState]
    /\ admin \in BOOLEAN /\ refreshable \in BOOLEAN
    /\ minted \in 0..MaxTokens /\ expired \in 0..minted /\ lastAdmin \in 0..minted

Settled == [stage |-> "idle", write |-> FALSE, token |-> None]

Waiters == {c \in Call : calls[c].stage = "waiting"}

Init ==
    /\ page = "login" /\ id = None /\ refresh = FALSE
    /\ inFlight = FALSE /\ asked = 0 /\ busy = FALSE
    /\ calls = [c \in Call |-> Settled]
    /\ admin \in BOOLEAN
    /\ minted = 0 /\ expired = 0 /\ refreshable = FALSE /\ lastAdmin = 0

-----------------------------------------------------------------------------
(* The server. *)

\* Cognito mints a token with the groups of the moment.
NewToken == [num |-> minted + 1, admin |-> admin]

\* CognitoJWTAuthentication, while the signing keys can be fetched.
Verifies(token) == token # None /\ token.num > expired

\* IsAdminOrReadOnly.
Permits(call) == call.write => call.token.admin

-----------------------------------------------------------------------------
(* Signing in. *)

Submit ==
    /\ page \in {"login", "challenge"} /\ ~busy
    /\ busy' = TRUE
    /\ UNCHANGED <<page, id, refresh, inFlight, asked, calls, cognito>>

\* setTokens(id_token, refresh_token), then on to the application.
SignedIn ==
    /\ minted < MaxTokens
    /\ minted' = minted + 1
    /\ id' = NewToken /\ refresh' = TRUE /\ refreshable' = TRUE
    /\ page' = "app" /\ busy' = FALSE
    /\ UNCHANGED <<inFlight, asked, calls, admin, expired, lastAdmin>>

\* The answer to a sign-in: tokens; the new-password challenge, which has a
\* page of its own; or a refusal, which the page shows.
LoginAnswered ==
    /\ page = "login" /\ busy
    /\ \/ SignedIn
       \/ \E next \in {"challenge", "login"} :
              /\ page' = next /\ busy' = FALSE
              /\ UNCHANGED <<id, refresh, inFlight, asked, calls, cognito>>

\* The answer to the new password: tokens, or a refusal.
ChallengeAnswered ==
    /\ page = "challenge" /\ busy
    /\ \/ SignedIn
       \/ /\ busy' = FALSE
          /\ UNCHANGED <<page, id, refresh, inFlight, asked, calls, cognito>>

-----------------------------------------------------------------------------
(* Documents. *)

\* A new document: what the last one had in flight is dropped, what is in
\* sessionStorage stays.
Loaded(next) ==
    /\ page' = next
    /\ inFlight' = FALSE /\ asked' = 0 /\ busy' = FALSE
    /\ calls' = [c \in Call |-> Settled]
    /\ UNCHANGED <<id, refresh, cognito>>

\* A page of the application is opened or reloaded: RequireAuth.
Open == Loaded(IF id = None THEN "login" ELSE "app")

\* Variant: the bounce is a client-side navigation.
BounceNavigates ==
    /\ page = "leaving"
    /\ page' = "login"
    /\ UNCHANGED <<id, refresh, inFlight, asked, busy, calls, cognito>>

\* window.location.replace('/login') takes effect.
Bounced == page = "leaving" /\ Loaded("login")

\* clearTokenAndRedirectToLogin, for the calls in C.
Bounce(C) ==
    /\ id' = None /\ refresh' = FALSE
    /\ page' = "leaving"
    /\ calls' = [c \in Call |-> IF c \in C THEN Settled ELSE calls[c]]

-----------------------------------------------------------------------------
(* API calls. *)

\* A call goes out with the token of the moment.
Send(c, write) ==
    /\ page \in {"app", "leaving"}
    /\ calls[c] = Settled
    /\ calls' = [calls EXCEPT ![c] = [stage |-> "sent", write |-> write, token |-> id]]
    /\ UNCHANGED <<page, id, refresh, inFlight, asked, busy, cognito>>

InFlight(c) == calls[c].stage \in {"sent", "retried"}

Settle(c) ==
    /\ calls' = [calls EXCEPT ![c] = Settled]
    /\ UNCHANGED <<page, id, refresh, inFlight, asked, busy, cognito>>

\* 2xx: the server has done what was asked.
Served(c) ==
    /\ InFlight(c)
    /\ Verifies(calls[c].token) /\ Permits(calls[c])
    /\ Settle(c)

\* 403: the token does not name the group.
Refused(c) ==
    /\ InFlight(c)
    /\ Verifies(calls[c].token) /\ ~Permits(calls[c])
    /\ Settle(c)

\* Any other error, or no answer at all.
Failed(c) == InFlight(c) /\ Settle(c)

\* Variant: every 401 asks for a refresh of its own.
UnauthorizedAlone(c) ==
    /\ calls[c].stage = "sent"
    /\ IF ~refresh
       THEN Bounce({c}) /\ UNCHANGED <<inFlight, asked>>
       ELSE /\ calls' = [calls EXCEPT ![c].stage = "waiting"]
            /\ inFlight' = TRUE /\ asked' = asked + 1
            /\ UNCHANGED <<page, id, refresh>>
    /\ UNCHANGED <<busy, cognito>>

\* 401 at the first attempt: no token, one that has expired, or no signing
\* keys to verify it with.  tryRefresh: wait for the refresh under way, or
\* start one; without a refresh token there is nothing to wait for.
Unauthorized(c) ==
    /\ calls[c].stage = "sent"
    /\ IF ~inFlight /\ ~refresh
       THEN Bounce({c}) /\ UNCHANGED <<inFlight, asked>>
       ELSE /\ calls' = [calls EXCEPT ![c].stage = "waiting"]
            /\ inFlight' = TRUE
            /\ asked' = IF inFlight THEN asked ELSE asked + 1
            /\ UNCHANGED <<page, id, refresh>>
    /\ UNCHANGED <<busy, cognito>>

\* 401 again, after the refresh.
UnauthorizedAgain(c) ==
    /\ calls[c].stage = "retried"
    /\ Bounce({c})
    /\ UNCHANGED <<inFlight, asked, busy, cognito>>

-----------------------------------------------------------------------------
(* The refresh. *)

\* Each call that waits is sent once more, with the new token.
Retried(token) ==
    [c \in Call |-> IF c \in Waiters
                    THEN [calls[c] EXCEPT !.stage = "retried", !.token = token]
                    ELSE calls[c]]

\* Variants: the refresh token is overwritten by the one that is not there;
\* the claims are those of the token before.
RefreshedWhole ==
    /\ asked > 0
    /\ refreshable /\ minted < MaxTokens
    /\ minted' = minted + 1
    /\ id' = NewToken /\ refresh' = FALSE
    /\ calls' = Retried(NewToken)
    /\ inFlight' = FALSE /\ asked' = asked - 1
    /\ UNCHANGED <<page, busy, admin, expired, refreshable, lastAdmin>>

RefreshedSameClaims ==
    LET token == [num |-> minted + 1,
                  admin |-> IF id = None THEN admin ELSE id.admin]
    IN /\ asked > 0
       /\ refreshable /\ minted < MaxTokens
       /\ minted' = minted + 1
       /\ id' = token
       /\ calls' = Retried(token)
       /\ inFlight' = FALSE /\ asked' = asked - 1
       /\ UNCHANGED <<page, refresh, busy, admin, expired, refreshable, lastAdmin>>

\* Cognito accepts the refresh token: a new id token, and no refresh token.
Refreshed ==
    /\ asked > 0
    /\ refreshable /\ minted < MaxTokens
    /\ minted' = minted + 1
    /\ id' = NewToken
    /\ calls' = Retried(NewToken)
    /\ inFlight' = FALSE /\ asked' = asked - 1
    /\ UNCHANGED <<page, refresh, busy, admin, expired, refreshable, lastAdmin>>

\* Variant: the calls that wait are not told.
RefreshFailedUntold ==
    /\ asked > 0
    /\ inFlight' = FALSE /\ asked' = asked - 1
    /\ UNCHANGED <<page, id, refresh, busy, calls, cognito>>

\* It is rejected, or the request fails: to tryRefresh the two are one, and
\* every call that waits bounces with its 401.
RefreshFailed ==
    /\ asked > 0
    /\ Bounce(Waiters)
    /\ inFlight' = FALSE /\ asked' = asked - 1
    /\ UNCHANGED <<busy, cognito>>

-----------------------------------------------------------------------------
(* Cognito. *)

Expire ==
    /\ expired < minted
    /\ expired' = expired + 1
    /\ UNCHANGED <<tab, admin, minted, refreshable, lastAdmin>>

Revoke ==
    /\ refreshable
    /\ refreshable' = FALSE
    /\ UNCHANGED <<tab, admin, minted, expired, lastAdmin>>

ChangeGroup ==
    /\ admin' = ~admin
    /\ lastAdmin' = IF admin THEN minted ELSE lastAdmin
    /\ UNCHANGED <<tab, minted, expired, refreshable>>

-----------------------------------------------------------------------------
Answered(c) ==
    \/ Served(c) \/ Refused(c) \/ Failed(c)
    \/ Unauthorized(c) \/ UnauthorizedAgain(c)

RefreshAnswered == Refreshed \/ RefreshFailed

Next ==
    \/ Submit \/ LoginAnswered \/ ChallengeAnswered
    \/ Open \/ Bounced
    \/ \E c \in Call : (\E write \in BOOLEAN : Send(c, write)) \/ Answered(c)
    \/ RefreshAnswered
    \/ Expire \/ Revoke \/ ChangeGroup

\* Every request the page has sent is answered or fails.
Spec ==
    /\ Init /\ [][Next]_vars
    /\ \A c \in Call : WF_vars(Answered(c))
    /\ WF_vars(RefreshAnswered)

-----------------------------------------------------------------------------
(* Safety and liveness. *)

\* "Multiple concurrent callers share a single in-flight fetch" (auth.ts:56):
\* there is one refresh request exactly while some call waits for it.
OneRefresh ==
    /\ asked = IF inFlight THEN 1 ELSE 0
    /\ inFlight <=> Waiters # {}

\* The refresh token outlives every refresh of the id token, which does not
\* return one (auth.ts:30-32, 73-76): only a bounce gives it up.
RefreshKept == [][refresh /\ ~refresh' => page' = "leaving"]_vars

\* A session that was bounced stays without a token, but for the answer of a
\* refresh asked before: once /login is loaded only a sign-in stores one.
BouncedForGood ==
    [][~refresh /\ ~refresh' /\ id' # id => page = "leaving" \/ id' = None]_vars

\* A user taken out of the admin group writes no more once the tokens minted
\* before have expired, whatever was refreshed, retried or reloaded since.
DemotedCannotWrite ==
    [][\A c \in Call : Served(c) /\ calls[c].write => admin \/ lastAdmin > expired]_vars

\* Every call ends: with its answer, an error, or the bounce.
CallsSettle == \A c \in Call : calls[c].stage # "idle" ~> calls[c].stage = "idle"
=============================================================================
