-------------------------------- MODULE Services --------------------------------
\* Five services that share nothing, in one specification: `service` says which one
\* this behaviour is about, and the variables of the others stay `Off`.  Variables of
\* the same name (`call`, `now`, ...) serve one service at a time.
EXTENDS Integers, Sequences, FiniteSets

CONSTANTS
    Off,
    TokenCalls, TokenSetups, Second, MaxToken, TokenTime, TokenEvents,
    RedisCalls, RedisRows, MaxLogins, MaxPasses, MaxRevokers, MaxFaults,
    Request, Sites, LimitTime,
    LoginCalls, Browsers, Subjects, Emails, Verified, Locals, Linked, Policies,
    MaxFlows, IdentityRows, LoginEvents, TtlSec, LoginTime,
    Tab, ClientCalls, TabOf, LogoutOn, MaxPair, ClientEvents

VARIABLES service, call, held, events, now

(* ---------------------------- StatelessTokens ---------------------------- *)
VARIABLES setup, minted, denied, epoch, consumed, answered, signedOut
tokenVars == <<setup, minted, denied, epoch, consumed, answered, signedOut>>

Tokens == INSTANCE StatelessTokens WITH
    Call <- TokenCalls, Setups <- TokenSetups, MaxTime <- TokenTime, MaxEvents <- TokenEvents

(* ----------------------------- RedisSessions ----------------------------- *)
VARIABLES row, keys, index, logins, revokers, faults, closed
redisVars == <<row, keys, index, logins, revokers, faults, closed>>

Redis == INSTANCE RedisSessions WITH Call <- RedisCalls, MaxRows <- RedisRows

(* ------------------------------- RateLimit ------------------------------- *)
VARIABLES site, counters, req, tally
limitVars == <<site, counters, req, tally>>

Limits == INSTANCE RateLimit WITH Deployments <- Sites, MaxTime <- LimitTime

(* ----------------------------- FederatedLogin ---------------------------- *)
VARIABLES policy, users, rows, removed, flows, cookie, codes, earned, entered
loginVars == <<policy, users, rows, removed, flows, cookie, codes, earned, entered>>

Logins == INSTANCE FederatedLogin WITH
    Call <- LoginCalls, MaxRows <- IdentityRows, MaxEvents <- LoginEvents, MaxTime <- LoginTime

(* ------------------------------ CookieClient ----------------------------- *)
VARIABLES logoutOn, pair, jar, fetch, flight, other, told, served
clientVars == <<logoutOn, pair, jar, fetch, flight, other, told, served>>

Client == INSTANCE CookieClient WITH Call <- ClientCalls, MaxEvents <- ClientEvents

ASSUME ServiceAssumptions ==
    Tokens!DeploymentsHold /\ Limits!SitesHold /\ Logins!TablesHold /\ Client!CallsHaveTabs

(* ------------------------------ One of them ------------------------------ *)
TokensOff ==
    /\ setup = Off /\ minted = Off /\ denied = Off /\ epoch = Off /\ consumed = Off
    /\ answered = Off /\ signedOut = Off
RedisOff ==
    /\ row = Off /\ keys = Off /\ index = Off /\ logins = Off /\ revokers = Off
    /\ faults = Off /\ closed = Off
LimitsOff ==
    /\ site = Off /\ counters = Off /\ req = Off /\ tally = Off
LoginsOff ==
    /\ policy = Off /\ users = Off /\ rows = Off /\ removed = Off /\ flows = Off
    /\ cookie = Off /\ codes = Off /\ earned = Off /\ entered = Off
ClientOff ==
    /\ logoutOn = Off /\ pair = Off /\ jar = Off /\ fetch = Off /\ flight = Off
    /\ other = Off /\ told = Off /\ served = Off

Init ==
    \/ /\ service = "tokens" /\ Tokens!Init
       /\ RedisOff /\ LimitsOff /\ LoginsOff /\ ClientOff
    \/ /\ service = "redis" /\ Redis!Init
       /\ events = Off /\ now = Off /\ TokensOff /\ LimitsOff /\ LoginsOff /\ ClientOff
    \/ /\ service = "limits" /\ Limits!Init
       /\ call = Off /\ held = Off /\ events = Off /\ TokensOff /\ RedisOff /\ LoginsOff /\ ClientOff
    \/ /\ service = "logins" /\ Logins!Init
       /\ held = Off /\ TokensOff /\ RedisOff /\ LimitsOff /\ ClientOff
    \/ /\ service = "client" /\ Client!Init
       /\ call = Off /\ held = Off /\ now = Off /\ TokensOff /\ RedisOff /\ LimitsOff /\ LoginsOff

Next ==
    \/ /\ service = "tokens" /\ Tokens!Next
       /\ UNCHANGED <<service, redisVars, limitVars, loginVars, clientVars>>
    \/ /\ service = "redis" /\ Redis!Next
       /\ UNCHANGED <<service, events, now, tokenVars, limitVars, loginVars, clientVars>>
    \/ /\ service = "limits" /\ Limits!Next
       /\ UNCHANGED <<service, call, held, events, tokenVars, redisVars, loginVars, clientVars>>
    \/ /\ service = "logins" /\ Logins!Next
       /\ UNCHANGED <<service, held, tokenVars, redisVars, limitVars, clientVars>>
    \/ /\ service = "client" /\ Client!Next
       /\ UNCHANGED <<service, call, held, now, tokenVars, redisVars, limitVars, loginVars>>

vars == <<service, call, held, events, now, tokenVars, redisVars, limitVars, loginVars, clientVars>>
Spec == Init /\ [][Next]_vars

(* ------------------------------- Properties ------------------------------ *)
\* StatelessTokens: a refresh token is answered with one pair, and nothing minted
\* before a sign-out is accepted after it.
SpentTokensStayDead ==
    service = "tokens" => Tokens!SignedOutMeansOut /\ Tokens!AnsweredIsSpent

\* RedisSessions: a revocation that returned has left no key of its sessions.
RevokedRowsAreGone == service = "redis" => Redis!RevokedRowsAreGone

\* RateLimit: a budget is not overdrawn, and nobody is rejected within one.
CountsAreKept == service = "limits" => Limits!CountsAreKept

\* FederatedLogin: an identity opens only the account it belongs to, and stays removed.
IdentitiesAreEarned == service = "logins" => Logins!IdentitiesAreEarned

\* CookieClient: one refresh of a tab at a time, and only a refresh token that is
\* dead logs a tab out.
TabsKeepTheirSession ==
    service = "client" => Client!OneRefreshAtATime /\ Client!LogoutMeansOver
=============================================================================
