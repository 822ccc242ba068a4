---------------------------- MODULE CookieClient ----------------------------
(***************************************************************************)
(* A browser that keeps its session in cookies: createAuthedFetch in each   *)
(* tab, the cookie jar the tabs share, and the refresh and logout routes of *)
(* AuthController with the guard in front.  Requests carry the cookies of   *)
(* the moment they are sent, are served some time later, or never, and the  *)
(* answers land in any order, each with the cookies it sets.                *)
(*                                                                         *)
(* The credential behind the routes is taken at its word: a refresh token   *)
(* works once, and a session that is revoked is dead (AuthCredential is     *)
(* where that is checked).  A pair of tokens is a number; cookies are sent  *)
(* on the paths their attributes name, so logout does not see the refresh   *)
(* token.                                                                   *)
(***************************************************************************)
EXTENDS Integers, FiniteSets, Sequences

CONSTANTS
    Tab, Call,
    TabOf,        \* Call -> Tab
    LogoutOn,     \* the values of the option logoutOn to try
    MaxPair,      \* bound: pairs minted
    MaxEvents     \* bound: expiries, revocations, sign-ins and sign-outs

VARIABLES
    logoutOn,     \* the option: constant
    pair,         \* the pairs minted: [session, access, refresh], the last two while they work
    jar,          \* the cookies: [access, refresh], 0 for none
    fetch,        \* calls of the wrapped fetch
    flight,       \* refreshInFlight of each tab, with the request it waits for
    other,        \* a sign-in or sign-out under way: one at a time
    told,         \* ghost: what each tab was told, per refresh
    served,       \* ghost: refreshes of each tab on the wire
    events

vars == <<logoutOn, pair, jar, fetch, flight, other, told, served, events>>

Nothing == [at |-> "none", token |-> 0, status |-> 0, new |-> 0]
NoCookies == [access |-> 0, refresh |-> 0]
Pairs == DOMAIN pair
Happens == events < MaxEvents /\ events' = events + 1
Mint(session) == Append(pair, [session |-> session, access |-> TRUE, refresh |-> TRUE])
\* writeCookies, clearCookies.
Written(n) == [access |-> n, refresh |-> n]

AuthFailure == {400, 401, 403}
Success == 200
Lost == 0
\* What a refresh may be answered besides success: 429 and 503 stand for what passes.
Passing == {429, 503}

Init ==
    /\ logoutOn \in LogoutOn
    /\ pair = <<[session |-> 1, access |-> FALSE, refresh |-> TRUE]>>
    /\ jar = Written(1)
    /\ fetch = [c \in Call |-> [at |-> "ready", token |-> 0, status |-> 0, retried |-> FALSE]]
    /\ flight = [t \in Tab |-> Nothing]
    /\ other = Nothing
    /\ told = [t \in Tab |-> <<>>]
    /\ served = [t \in Tab |-> 0]
    /\ events = 0

(* ------------------------------- The fetch ------------------------------- *)
Send(c) ==
    /\ fetch[c].at \in {"ready", "retry"}
    /\ fetch' = [fetch EXCEPT ![c].retried = fetch[c].at = "retry", ![c].at = "sent",
                     ![c].token = jar.access]
    /\ UNCHANGED <<logoutOn, pair, jar, flight, other, told, served, events>>

\* The guard: a route that needs a session answers 401 without a working token.
Guarded(c) ==
    /\ fetch[c].at = "sent"
    /\ fetch' = [fetch EXCEPT ![c].at = "answered",
                     ![c].status = IF fetch[c].token # 0 /\ pair[fetch[c].token].access
                                   THEN Success ELSE 401]
    /\ UNCHANGED <<logoutOn, pair, jar, flight, other, told, served, events>>

Answered(c) ==
    /\ fetch[c].at = "answered"
    /\ fetch[c].status = Success \/ fetch[c].retried
    /\ fetch' = [fetch EXCEPT ![c].at = "done"]
    /\ UNCHANGED <<logoutOn, pair, jar, flight, other, told, served, events>>

\* runRefresh: whoever finds no refresh under way starts one, the others wait for it.
\* Mutant: every failing call starts a refresh of its own.
JoinRefreshAlone(c) ==
    LET t == TabOf[c] IN
    /\ fetch[c].at = "answered" /\ fetch[c].status = 401 /\ ~fetch[c].retried
    /\ fetch' = [fetch EXCEPT ![c].at = "refreshing"]
    /\ flight' = [flight EXCEPT ![t] = [Nothing EXCEPT !.at = "sent", !.token = jar.refresh]]
    /\ served' = [served EXCEPT ![t] = @ + 1]
    /\ UNCHANGED <<logoutOn, pair, jar, other, told, events>>
JoinRefresh(c) ==
    LET t == TabOf[c] IN
    /\ fetch[c].at = "answered" /\ fetch[c].status = 401 /\ ~fetch[c].retried
    /\ fetch' = [fetch EXCEPT ![c].at = "refreshing"]
    /\ flight' = [flight EXCEPT ![t] =
           IF @.at = "none" THEN [Nothing EXCEPT !.at = "sent", !.token = jar.refresh] ELSE @]
    /\ served' = [served EXCEPT ![t] = IF flight[t].at = "none" THEN @ + 1 ELSE @]
    /\ UNCHANGED <<logoutOn, pair, jar, other, told, events>>

(* ------------------------------- The routes ------------------------------ *)
\* POST refresh: no cookie and a token that is refused answer 401, and only the
\* refused cookie is cleared; a limit or a failing store is 429 or 5xx.  An answer
\* that gets lost may be that of a refresh that was carried out.
Refresh(t) ==
    LET q == flight[t]
        works == q.token # 0 /\ pair[q.token].refresh
    IN /\ q.at = "sent"
       /\ \/ /\ works /\ Len(pair) < MaxPair
             /\ pair' = [Append(pair, [session |-> pair[q.token].session, access |-> TRUE, refresh |-> TRUE])
                         EXCEPT ![q.token].refresh = FALSE]
             /\ \E status \in {Success, Lost} :
                   flight' = [flight EXCEPT ![t].at = "answered", ![t].status = status, ![t].new = Len(pair) + 1]
          \/ /\ ~works
             /\ flight' = [flight EXCEPT ![t].at = "answered", ![t].status = 401]
             /\ UNCHANGED pair
          \/ \E status \in Passing \cup {Lost} :
                flight' = [flight EXCEPT ![t].at = "answered", ![t].status = status] /\ UNCHANGED pair
       /\ UNCHANGED <<logoutOn, jar, fetch, other, told, served, events>>

\* failed(): which failures end the session.
\* Mutant: every answer that is not a success does.
EndsSessionWhenAnswered(status) == status # Lost \/ logoutOn = "any-failure"
EndsSession(status) == status \in AuthFailure \/ logoutOn = "any-failure"

\* The answer lands: its cookies first, then everybody who waits goes on.
Settle(t) ==
    LET q == flight[t]
        waiting == {c \in Call : TabOf[c] = t /\ fetch[c].at = "refreshing"}
    IN /\ q.at = "answered"
       /\ jar' = IF q.status = Success THEN Written(q.new)
                 ELSE IF q.status = 401 /\ q.token # 0 THEN NoCookies ELSE jar
       /\ told' = [told EXCEPT ![t] = Append(@, [token |-> q.token, what |->
              IF q.status = Success THEN "nothing"
              ELSE IF EndsSession(q.status) THEN "logout" ELSE "retry later"])]
       /\ fetch' = [c \in Call |-> IF c \notin waiting THEN fetch[c]
                    ELSE [fetch[c] EXCEPT !.at = IF q.status = Success THEN "retry" ELSE "done"]]
       /\ flight' = [flight EXCEPT ![t] = Nothing]
       /\ served' = [served EXCEPT ![t] = @ - 1]
       /\ UNCHANGED <<logoutOn, pair, other, events>>

\* A login ends with a new session's cookies, wherever the browser was before.
SignIn ==
    /\ other.at = "none" /\ Happens /\ Len(pair) < MaxPair
    /\ pair' = Mint(Len(pair) + 1)
    /\ other' = [Nothing EXCEPT !.at = "cookies", !.new = Len(pair) + 1]
    /\ UNCHANGED <<logoutOn, jar, fetch, flight, told, served>>

Revoked(session) == [n \in Pairs |-> IF pair[n].session = session
                        THEN [pair[n] EXCEPT !.access = FALSE, !.refresh = FALSE] ELSE pair[n]]
\* POST logout: the session of the access token, or, where the store refuses, at least
\* the token; without a working token it is a 401 that clears nothing.
Logout ==
    /\ other.at = "none" /\ Happens
    /\ jar.access # 0 /\ pair[jar.access].access
    /\ pair' \in {Revoked(pair[jar.access].session), [pair EXCEPT ![jar.access].access = FALSE]}
    /\ other' = [Nothing EXCEPT !.at = "clear"]
    /\ UNCHANGED <<logoutOn, jar, fetch, flight, told, served>>

LandCookies ==
    /\ other.at # "none"
    /\ jar' = IF other.at = "clear" THEN NoCookies ELSE Written(other.new)
    /\ other' = Nothing
    /\ UNCHANGED <<logoutOn, pair, fetch, flight, told, served, events>>

\* An access token expires, or a session is revoked from elsewhere.
Expire(n) ==
    /\ pair[n].access /\ Happens
    /\ pair' = [pair EXCEPT ![n].access = FALSE]
    /\ UNCHANGED <<logoutOn, jar, fetch, flight, other, told, served>>
RevokeElsewhere(n) ==
    /\ pair[n].refresh /\ Happens
    /\ pair' = Revoked(pair[n].session)
    /\ UNCHANGED <<logoutOn, jar, fetch, flight, other, told, served>>

Next ==
    \/ \E c \in Call : Send(c) \/ Guarded(c) \/ Answered(c) \/ JoinRefresh(c)
    \/ \E t \in Tab : Refresh(t) \/ Settle(t)
    \/ SignIn \/ Logout \/ LandCookies
    \/ \E n \in Pairs : Expire(n) \/ RevokeElsewhere(n)

Spec == Init /\ [][Next]_vars

\* Every call is one of a tab's.
CallsHaveTabs == TabOf \in [Call -> Tab]

(* ------------------------------ Properties ------------------------------- *)
\* A tab sends one refresh at a time, however many of its calls fail together, and
\* nobody waits for a refresh that is not under way (client/index.ts:108-114).  This
\* is what AuthCredential's SingleFlight assumes of a client.
OneRefreshAtATime ==
    /\ \A t \in Tab : served[t] <= 1
    /\ \A c \in Call : fetch[c].at = "refreshing" => flight[TabOf[c]].at # "none"

\* Told to log out, the tab did present a refresh token that does not work, or none:
\* what passes (a lost answer, a limit, a failing server) never ends a session, not
\* even where answers overtake sign-ins and sign-outs (client/index.ts:79-87).
LogoutMeansOver ==
    \A t \in Tab : \A i \in DOMAIN told[t] :
        told[t][i].what = "logout" /\ logoutOn = "auth-failure"
            => told[t][i].token = 0 \/ ~pair[told[t][i].token].refresh

=============================================================================
