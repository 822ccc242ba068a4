----------------------------- MODULE AuthzServer -----------------------------
(***************************************************************************)
(* The authorization server: GET /auth/authorize, the consent and mint     *)
(* steps that end the login workflow, POST /auth/token with its two grants *)
(* and POST /auth/register.  Any number of calls are in flight, and between*)
(* two awaits of one the others run.  The stores are taken apart as the    *)
(* database ones are (read, then delete); the memory ones do the same in   *)
(* one step.  A code challenge stands for the application instance `app'   *)
(* that holds its verifier, the binding secret for the browser that has it.*)
(* Left out: discovery and key documents, scopes, nonces, token lifetimes, *)
(* rate limits and what the answers look like.                             *)
(***************************************************************************)
EXTENDS Naturals, FiniteSets, SequencesExt

CONSTANTS Calls,         \* HTTP requests in flight
          Browsers, Apps, Users,
          Registered,    \* clients of RegisteredClientPolicy ...
          Config,        \* ... and their configuration
          Dynamic,       \* the ids registrations are given
          None,          \* no value; as a client id, the loopback client
          Uris,          \* redirect URIs presented: [host, https, port, path, fragment]
          Bodies,        \* registration requests: [uris, method, grants]
          Handles, Codes,
          MaxClients,    \* maxClients
          MaxRotations,  \* bound: refreshes of a session
          Budgets        \* bound: calls of each kind, and faults

VARIABLES clients,       \* the dynamic registrations
          pending,       \* the authorizations asked for, by handle
          jar,           \* per browser: the handle its binding cookie is of
          runs,          \* the logins paused at the consent form: [handle, user]
          codes,         \* the codes minted
          redeemed,      \* ghost: the redemption of each code
          sessions,      \* the session each code was turned into
          blocked,       \* users locked or deactivated
          calls,         \* per call: its next step and what it has read
          budget         \* what remains of the bound

vars == <<clients, pending, jar, runs, codes, redeemed, sessions, blocked, calls, budget>>

ClientIds == Registered \cup Dynamic \cup {None}

NoCall == [at |-> "idle", app |-> None, browser |-> None, client |-> None, secret |-> FALSE,
           uri |-> None, handle |-> None, code |-> None, user |-> None, body |-> None,
           touched |-> FALSE]

(* -------------------------------- Types ---------------------------------- *)
Client == [uris : {body.uris : body \in Bodies}, secret : BOOLEAN, used : BOOLEAN,
           old : BOOLEAN, state : {"kept", "swept", "deleted"}]
Pending == [app : Apps, client : ClientIds, uri : Uris, browser : Browsers,
            touched : BOOLEAN, live : BOOLEAN]
Code == [handle : Handles, user : Users, browser : Browsers, row : {"fresh", "expired", "gone"}]
Redemption == [app : Apps, client : ClientIds, times : Nat]
Session == [client : ClientIds, by : SUBSET ClientIds, rotated : Nat, live : BOOLEAN]
Call == [at : {"idle", "touch", "create", "mint", "check", "code", "drop", "claim", "authenticate",
               "issue", "rotate", "sweep", "count", "store"},
         app : Apps \cup {None}, browser : Browsers \cup {None}, client : ClientIds,
         secret : BOOLEAN, uri : Uris \cup {None}, handle : Handles \cup {None},
         code : Codes \cup {None}, user : Users \cup {None}, body : Bodies \cup {None},
         touched : BOOLEAN]

\* No value is no id and no record.
ASSUME NoneAssumption ==
    /\ None \notin Registered \cup Dynamic \cup Handles
    /\ None \notin Client \cup Pending \cup Code \cup Redemption \cup Session
    /\ None \notin [app : Apps, client : ClientIds, browser : Browsers]
    /\ None \notin [handle : Handles, user : Users, browser : Browsers]

ASSUME BoundsAssumption ==
    /\ IsFiniteSet(Calls) /\ Calls # {} /\ IsFiniteSet(Dynamic)
    /\ MaxClients \in Nat /\ MaxRotations \in Nat

TypeOK ==
    /\ clients \in [Dynamic -> Client \cup {None}] /\ pending \in [Handles -> Pending \cup {None}]
    /\ jar \in [Browsers -> Handles \cup {None}] /\ runs \subseteq [handle : Handles, user : Users]
    /\ codes \in [Codes -> Code \cup {None}] /\ redeemed \in [Codes -> Redemption \cup {None}]
    /\ sessions \in [Codes -> Session \cup {None}] /\ blocked \subseteq Users
    /\ calls \in [Calls -> Call]

Idle(t) == calls[t].at = "idle"
At(t, step) == calls[t].at = step
Spend(kind) == budget[kind] > 0 /\ budget' = [budget EXCEPT ![kind] = @ - 1]
Begin(t, kind, call) ==
    /\ Idle(t) /\ Spend(kind)
    /\ calls' = [calls EXCEPT ![t] = call]
GoTo(t, step) ==
    /\ calls' = [calls EXCEPT ![t] = IF step = "idle" THEN NoCall ELSE [calls[t] EXCEPT !.at = step]]
    /\ UNCHANGED budget
Continue(t, condition, step) == GoTo(t, IF condition THEN step ELSE "idle")

(* ------------------------------ The clients ----------------------------- *)
Present(client) == clients[client] # None /\ clients[client].state = "kept"

\* isLoopbackRedirectUri; isAcceptableRedirectUri
Loopback(uri) == uri.host = "loopback"
Acceptable(uri) == ~uri.fragment /\ (Loopback(uri) \/ uri.https)

\* new URL(uri).href resolves the dot segments.
Normal(path) ==
    FoldLeft(LAMBDA done, segment :
                CASE segment # ".." -> Append(done, segment)
                  [] segment = ".." /\ done # <<>> -> Front(done)
                  [] OTHER -> done,
             <<>>, path)

\* RegisteredClientPolicy: a listed URI, or one under a listed prefix, which
\* ends at a segment boundary.
RegisteredUri(config, uri) ==
    \/ uri \in config.uris
    \/ \E prefix \in config.prefixes :
          /\ [uri EXCEPT !.path = prefix.path, !.fragment = FALSE] = prefix
          /\ IsPrefix(prefix.path, Normal(uri.path))

\* DynamicClientPolicy: a registered URI; a loopback one on any port.
DynamicUri(client, uri) ==
    \/ uri \in client.uris
    \/ /\ Loopback(uri) /\ ~uri.fragment
       /\ \E known \in client.uris : [uri EXCEPT !.port = known.port] = known

\* resolveClient of the composite policy: without a client id, the loopback one.
Resolves(client, uri) ==
    \/ client = None /\ Loopback(uri)
    \/ client \in Registered /\ RegisteredUri(Config[client], uri)
    \/ client \in Dynamic /\ Present(client) /\ DynamicUri(clients[client], uri)

WantsIdToken(client) == client \in Registered /\ Config[client].idToken
WantsAccessToken(client) == client \in Registered => Config[client].accessToken
Refreshable(client) == client # None

\* authenticateClient: a confidential client presents its secret, a dynamic
\* one must still be registered.
Authenticates(client, secret) ==
    \/ client \in Registered /\ (Config[client].secret => secret)
    \/ client \in Dynamic /\ Present(client) /\ (clients[client].secret => secret)

(* ----------------------- GET /auth/authorize ---------------------------- *)
Authorize(t) ==
    /\ \E app \in Apps, browser \in Browsers, client \in ClientIds, uri \in Uris :
          /\ Resolves(client, uri)
          /\ Begin(t, "authorize", [NoCall EXCEPT !.at = IF client \in Dynamic THEN "touch" ELSE "create",
                                                  !.app = app, !.browser = browser,
                                                  !.client = client, !.uri = uri])
    /\ UNCHANGED <<clients, pending, jar, runs, codes, redeemed, sessions, blocked>>

\* Best effort: the write may fail, the row may be gone.
Touch(t) ==
    /\ At(t, "touch")
    /\ \E failed \in BOOLEAN :
          LET found == Present(calls[t].client) /\ ~failed IN
          /\ clients' = IF found THEN [clients EXCEPT ![calls[t].client].used = TRUE] ELSE clients
          /\ calls' = [calls EXCEPT ![t].at = "create", ![t].touched = found]
    /\ UNCHANGED <<pending, jar, runs, codes, redeemed, sessions, blocked, budget>>

\* The authority is fixed here, and the browser gets the binding cookie.
Create(t) ==
    LET call == calls[t] IN
    /\ At(t, "create")
    /\ \E h \in Handles :
          /\ pending[h] = None
          /\ pending' = [pending EXCEPT ![h] =
                [app |-> call.app, client |-> call.client, uri |-> call.uri, browser |-> call.browser,
                 touched |-> call.touched, live |-> TRUE]]
          /\ jar' = [jar EXCEPT ![call.browser] = h]
    /\ GoTo(t, "idle")
    /\ UNCHANGED <<clients, runs, codes, redeemed, sessions, blocked>>

PendingExpires(h) ==
    /\ pending[h] # None
    /\ pending' = [pending EXCEPT ![h].live = FALSE]
    /\ Spend("fault")
    /\ UNCHANGED <<clients, jar, runs, codes, redeemed, sessions, blocked, calls>>

(* --------------- The end of the login: consent and code ------------------ *)
\* A login carrying the handle got to the consent form, in whatever browser.
Login(h, user) ==
    /\ pending[h] # None /\ user \notin blocked
    /\ runs' = runs \cup {[handle |-> h, user |-> user]}
    /\ UNCHANGED <<clients, pending, jar, codes, redeemed, sessions, blocked, calls, budget>>

\* authz-consent: a cookie that is not the handle's drops it, as a denial does.
Consent(t) ==
    /\ \E browser \in Browsers, run \in runs :
          /\ pending[run.handle].live
          /\ \E next \in IF jar[browser] = run.handle THEN {"mint", "drop"} ELSE {"drop"} :
                Begin(t, "consent", [NoCall EXCEPT !.at = next, !.browser = browser,
                                                   !.handle = run.handle, !.user = run.user])
    /\ UNCHANGED <<clients, pending, jar, runs, codes, redeemed, sessions, blocked>>

\* mint-authz-code: the request is read again, then the account is checked.
Mint(t) ==
    /\ At(t, "mint")
    /\ Continue(t, pending[calls[t].handle].live, "check")
    /\ UNCHANGED <<clients, pending, jar, runs, codes, redeemed, sessions, blocked>>

MintCheck(t) ==
    /\ At(t, "check")
    /\ GoTo(t, IF calls[t].user \in blocked THEN "drop" ELSE "code")
    /\ UNCHANGED <<clients, pending, jar, runs, codes, redeemed, sessions, blocked>>

MintCode(t) ==
    LET call == calls[t] IN
    /\ At(t, "code")
    /\ \E n \in Codes :
          /\ codes[n] = None
          /\ codes' = [codes EXCEPT ![n] = [handle |-> call.handle, user |-> call.user,
                                            browser |-> call.browser, row |-> "fresh"]]
    /\ GoTo(t, "drop")
    /\ UNCHANGED <<clients, pending, jar, runs, redeemed, sessions, blocked>>

Drop(t) ==
    /\ At(t, "drop")
    /\ pending' = [pending EXCEPT ![calls[t].handle].live = FALSE]
    /\ GoTo(t, "idle")
    /\ UNCHANGED <<clients, jar, runs, codes, redeemed, sessions, blocked>>

CodeExpires(n) ==
    /\ codes[n] # None /\ codes[n].row = "fresh"
    /\ codes' = [codes EXCEPT ![n].row = "expired"]
    /\ Spend("fault")
    /\ UNCHANGED <<clients, pending, jar, runs, redeemed, sessions, blocked, calls>>

(* --------------- POST /auth/token: authorization_code -------------------- *)
\* consume() reads the row ...
Token(t) ==
    /\ \E n \in Codes, app \in Apps, client \in ClientIds, secret \in BOOLEAN :
          /\ codes[n] # None /\ codes[n].row # "gone"
          /\ Begin(t, "token", [NoCall EXCEPT !.at = "claim", !.code = n, !.app = app,
                                              !.client = client, !.secret = secret])
    /\ UNCHANGED <<clients, pending, jar, runs, codes, redeemed, sessions, blocked>>

\* ... and only the call whose delete hits it goes on, to the verifier and the
\* client id, which must be those of the request.
Asked(n) == pending[codes[n].handle]
\* Mutant: consume() does not look at what its delete hit.
ClaimUncounted(t) ==
    LET call == calls[t]
        n == call.code
    IN  /\ At(t, "claim")
        /\ codes' = [codes EXCEPT ![n].row = "gone"]
        /\ Continue(t, /\ call.app = Asked(n).app /\ call.client = Asked(n).client
                       /\ WantsIdToken(call.client) \/ WantsAccessToken(call.client),
                    IF call.client = None THEN "issue" ELSE "authenticate")
        /\ UNCHANGED <<clients, pending, jar, runs, redeemed, sessions, blocked>>

Claim(t) ==
    LET call == calls[t]
        n == call.code
    IN  /\ At(t, "claim")
        /\ codes' = [codes EXCEPT ![n].row = "gone"]
        /\ Continue(t, /\ codes[n].row = "fresh"
                       /\ call.app = Asked(n).app /\ call.client = Asked(n).client
                       /\ WantsIdToken(call.client) \/ WantsAccessToken(call.client),
                    IF call.client = None THEN "issue" ELSE "authenticate")
        /\ UNCHANGED <<clients, pending, jar, runs, redeemed, sessions, blocked>>

Authenticate(t) ==
    /\ At(t, "authenticate")
    /\ Continue(t, Authenticates(calls[t].client, calls[t].secret), "issue")
    /\ UNCHANGED <<clients, pending, jar, runs, codes, redeemed, sessions, blocked>>

\* issue(), with a refresh token stamped with the client if there is one.
Issue(t) ==
    LET call == calls[t]
        n == call.code
    IN  /\ At(t, "issue")
        /\ redeemed' = [redeemed EXCEPT ![n] =
              [app |-> call.app, client |-> call.client,
               times |-> IF redeemed[n] = None THEN 1 ELSE redeemed[n].times + 1]]
        /\ sessions' = IF WantsAccessToken(call.client)
                       THEN [sessions EXCEPT ![n] =
                               [client |-> call.client, by |-> {}, rotated |-> 0, live |-> TRUE]]
                       ELSE sessions
        /\ GoTo(t, "idle")
        /\ UNCHANGED <<clients, pending, jar, runs, codes, blocked>>

(* ----------------- POST /auth/token: refresh_token ----------------------- *)
\* The client authenticates before its token is looked up.
Refresh(t) ==
    /\ \E n \in Codes, client \in ClientIds \ {None}, secret \in BOOLEAN :
          /\ sessions[n] # None /\ Authenticates(client, secret)
          /\ Begin(t, "refresh", [NoCall EXCEPT !.at = "rotate", !.code = n, !.client = client])
    /\ UNCHANGED <<clients, pending, jar, runs, codes, redeemed, sessions, blocked>>

\* refresh() with the client guard.  A token that was rotated before is not
\* found: the session is revoked, whoever presents it.
\* Mutant: the guard does not compare the client.
OwnsAny(client, session) == Refreshable(session.client)
Owns(client, session) == Refreshable(session.client) /\ session.client = client
Rotate(t) ==
    LET n == calls[t].code
        session == sessions[n]
    IN  /\ At(t, "rotate")
        /\ \/ /\ session.live /\ session.rotated > 0
              /\ sessions' = [sessions EXCEPT ![n].live = FALSE]
           \/ /\ session.live /\ Owns(calls[t].client, session) /\ session.rotated < MaxRotations
              /\ sessions' = [sessions EXCEPT ![n].rotated = @ + 1, ![n].by = @ \cup {calls[t].client}]
           \/ UNCHANGED sessions
        /\ GoTo(t, "idle")
        /\ UNCHANGED <<clients, pending, jar, runs, codes, redeemed, blocked>>

(* ------------------------- POST /auth/register --------------------------- *)
\* validateClientRegistration
Valid(body) ==
    /\ body.uris # {} /\ \A uri \in body.uris : Acceptable(uri)
    /\ body.method \in {"none", "client_secret_post"}
    /\ "authorization_code" \in body.grants

Register(t) ==
    /\ \E body \in Bodies :
          /\ Valid(body)
          /\ Begin(t, "register", [NoCall EXCEPT !.at = "sweep", !.body = body])
    /\ UNCHANGED <<clients, pending, jar, runs, codes, redeemed, sessions, blocked>>

\* deleteUnusedBefore
\* Mutant: used registrations go too.
Aged(client) == client.old
Stale(client) == client.old /\ ~client.used
Sweep(t) ==
    /\ At(t, "sweep")
    /\ clients' = [c \in Dynamic |-> IF Present(c) /\ Stale(clients[c])
                                     THEN [clients[c] EXCEPT !.state = "swept"] ELSE clients[c]]
    /\ GoTo(t, "count")
    /\ UNCHANGED <<pending, jar, runs, codes, redeemed, sessions, blocked>>

Kept == {c \in Dynamic : Present(c)}

Count(t) ==
    /\ At(t, "count")
    /\ Continue(t, Cardinality(Kept) < MaxClients, "store")
    /\ UNCHANGED <<clients, pending, jar, runs, codes, redeemed, sessions, blocked>>

Store(t) ==
    LET body == calls[t].body IN
    /\ At(t, "store")
    /\ \E c \in Dynamic :
          /\ clients[c] = None
          /\ clients' = [clients EXCEPT ![c] =
                [uris |-> body.uris, secret |-> body.method = "client_secret_post",
                 used |-> FALSE, old |-> FALSE, state |-> "kept"]]
    /\ GoTo(t, "idle")
    /\ UNCHANGED <<pending, jar, runs, codes, redeemed, sessions, blocked>>

(* ------------------------------ Elsewhere ------------------------------- *)
\* A registration gets older than unusedClientTtlMs, or is deleted.
Age(c) ==
    /\ Present(c)
    /\ \E change \in {[clients[c] EXCEPT !.old = TRUE], [clients[c] EXCEPT !.state = "deleted"]} :
          clients' = [clients EXCEPT ![c] = change]
    /\ Spend("fault")
    /\ UNCHANGED <<pending, jar, runs, codes, redeemed, sessions, blocked, calls>>

\* A user is locked, which ends no session; the sessions are revoked, which
\* consumes no code.
Block(user) ==
    /\ \/ blocked' = blocked \cup {user} /\ UNCHANGED sessions
       \/ /\ sessions' = [n \in Codes |-> IF sessions[n] # None /\ codes[n].user = user
                                          THEN [sessions[n] EXCEPT !.live = FALSE] ELSE sessions[n]]
          /\ UNCHANGED blocked
    /\ Spend("fault")
    /\ UNCHANGED <<clients, pending, jar, runs, codes, redeemed, calls>>

\* A store failed, or the process died.
Fail(t) ==
    /\ ~Idle(t) /\ Spend("fault")
    /\ calls' = [calls EXCEPT ![t] = NoCall]
    /\ UNCHANGED <<clients, pending, jar, runs, codes, redeemed, sessions, blocked>>

Init ==
    /\ clients = [c \in Dynamic |-> None] /\ pending = [h \in Handles |-> None]
    /\ jar = [b \in Browsers |-> None] /\ runs = {}
    /\ codes = [n \in Codes |-> None] /\ redeemed = [n \in Codes |-> None]
    /\ sessions = [n \in Codes |-> None] /\ blocked = {}
    /\ calls = [t \in Calls |-> NoCall] /\ budget \in Budgets

Step(t) ==
    \/ Authorize(t) \/ Touch(t) \/ Create(t)
    \/ Consent(t) \/ Mint(t) \/ MintCheck(t) \/ MintCode(t) \/ Drop(t)
    \/ Token(t) \/ Claim(t) \/ Authenticate(t) \/ Issue(t)
    \/ Refresh(t) \/ Rotate(t)
    \/ Register(t) \/ Sweep(t) \/ Count(t) \/ Store(t)
    \/ Fail(t)

Next ==
    \/ \E t \in Calls : Step(t)
    \/ \E h \in Handles : PendingExpires(h) \/ \E user \in Users : Login(h, user)
    \/ \E n \in Codes : CodeExpires(n)
    \/ \E c \in Dynamic : Age(c)
    \/ \E user \in Users : Block(user)

Spec == Init /\ [][Next]_vars

(* ------------------------------ Properties ------------------------------ *)
\* The grants as their abstract specification sees them.
Grants == INSTANCE GrantAuthority WITH
    asked <- [h \in Handles |-> IF pending[h] = None THEN None
                 ELSE [app |-> pending[h].app, client |-> pending[h].client, browser |-> pending[h].browser]],
    granted <- [n \in Codes |-> IF codes[n] = None THEN None
                 ELSE [handle |-> codes[n].handle, user |-> codes[n].user, browser |-> codes[n].browser]]

\* Whatever calls overlap, fail or are repeated: a code comes from the browser
\* that asked, and is turned into tokens once, for the verifier and the client
\* id that asked (authz-consent, consume, the token endpoint).
ImplementsGrants == Grants!Spec

\* A session is refreshed only by the client whose request it goes back to, and
\* never without one (the guard on metadata.authzClientId).
SessionsStayWithTheirClient ==
    \A n \in Codes : sessions[n] # None => sessions[n].by \subseteq {pending[codes[n].handle].client} \ {None}

\* A registration is not collected as unused once an authorization request of
\* it was stamped, however the sweep and the requests interleave; and the
\* registrations that overlap pass maxClients by no more than the calls in
\* flight (the count and the insert are two calls to the store).
UsedClientsStay ==
    /\ \A h \in Handles :
           pending[h] # None /\ pending[h].touched => clients[pending[h].client].state # "swept"
    /\ Cardinality(Kept) < MaxClients + Cardinality(Calls)
=============================================================================
