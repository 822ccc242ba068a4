-------------------------- MODULE Authorization_proofs ---------------------------
(***************************************************************************)
(* Proofs about the authorization server (AuthzServer) and about the       *)
(* sessions' table behind it (DatabaseSessions), for every value of their  *)
(* constants; the table's also take SetupsHold: any number of requests in  *)
(* flight, deployments, legacy rows, tokens and passes.                    *)
(***************************************************************************)
EXTENDS Authorization, Integers, FiniteSetTheorems, TLAPS

(* ----------------------- The authorization server ---------------------- *)

(* --------------------------- The invariant ------------------------------- *)
\* What a call in flight has read still stands.
CallHolds(job) ==
    /\ job.at \in {"touch", "create"} =>
          /\ job.app \in Apps /\ job.browser \in Browsers /\ job.uri \in Uris
          /\ job.at = "touch" => job.client \in Dynamic
          /\ job.touched => /\ job.client \in Dynamic /\ clients[job.client] # None
                             /\ clients[job.client].used /\ clients[job.client].state # "swept"
    /\ job.at \in {"mint", "check", "code", "drop"} =>
          job.handle \in Handles /\ pending[job.handle] # None
    /\ job.at \in {"mint", "check", "code"} =>
          /\ job.user \in Users /\ job.browser \in Browsers
          /\ pending[job.handle].browser = job.browser
    /\ job.at = "claim" => job.app \in Apps
    /\ job.at \in {"claim", "authenticate", "issue"} => job.code \in Codes /\ codes[job.code] # None
    /\ job.at \in {"authenticate", "issue"} =>
          /\ codes[job.code].row = "gone"
          /\ job.app = Asked(job.code).app /\ job.client = Asked(job.code).client
    /\ job.at = "rotate" => /\ job.code \in Codes /\ sessions[job.code] # None
                             /\ job.client # None
    /\ job.at \in {"sweep", "count", "store"} => job.body \in Bodies

CallsHold == \A t \in Calls : CallHolds(calls[t])

\* The binding cookie is of a request its browser made; a login belongs to a request.
RequestsHold ==
    /\ \A b \in Browsers : jar[b] # None => pending[jar[b]] # None /\ pending[jar[b]].browser = b
    /\ \A run \in runs : pending[run.handle] # None

\* A request that was stamped keeps its client registered as used.
StampsHold ==
    \A h \in Handles : pending[h] # None /\ pending[h].touched =>
        /\ pending[h].client \in Dynamic /\ clients[pending[h].client] # None
        /\ clients[pending[h].client].used /\ clients[pending[h].client].state # "swept"

\* A code goes back to a request and its browser.
CodesHold ==
    \A n \in Codes : codes[n] # None =>
        pending[codes[n].handle] # None /\ pending[codes[n].handle].browser = codes[n].browser

\* A session goes back to a code, and is its client's.
SessionsHold ==
    \A n \in Codes : sessions[n] # None =>
        /\ codes[n] # None /\ sessions[n].client = Asked(n).client
        /\ sessions[n].by \subseteq {Asked(n).client} \ {None}

\* A code is redeemed by the one call whose delete hit its row.
Redeeming(t) == calls[t].at \in {"authenticate", "issue"}
RedemptionsHold ==
    /\ \A n \in Codes : redeemed[n] # None => codes[n] # None /\ codes[n].row = "gone"
    /\ \A t \in Calls : Redeeming(t) => redeemed[calls[t].code] = None
    /\ \A t, u \in Calls : Redeeming(t) /\ Redeeming(u) /\ calls[t].code = calls[u].code => t = u

Inv == /\ TypeOK /\ CallsHold /\ RequestsHold /\ StampsHold /\ CodesHold
       /\ SessionsHold /\ RedemptionsHold

\* The registrations about to be stored count.
Storing == {t \in Calls : At(t, "store")}
LimitHolds == Cardinality(Kept) + Cardinality(Storing) < MaxClients + Cardinality(Calls)

(* ---------------------------- Only a call moves -------------------------- *)
stores == <<clients, pending, jar, runs, codes, redeemed, sessions>>

LEMMA NoneIsNothing ==
  /\ None \notin Registered /\ None \notin Dynamic /\ None \notin Handles
  /\ None \notin Client /\ None \notin Pending /\ None \notin Code
  /\ None \notin Redemption /\ None \notin Session
  BY NoneAssumption

LEMMA NoCallHolds == NoCall \in Call /\ NoCall.at = "idle" /\ CallHolds(NoCall)
  BY DEF NoCall, Call, CallHolds, ClientIds

\* A step that writes to no store keeps the invariant if what the call goes on with holds.
LEMMA CallMoves ==
  ASSUME Inv, NEW t \in Calls, NEW k \in Call, CallHolds(k), UNCHANGED stores, blocked' \subseteq Users,
         calls' = [calls EXCEPT ![t] = k],
         k.at \in {"authenticate", "issue"} => Redeeming(t) /\ k.code = calls[t].code
  PROVE  Inv'
<1> USE DEF Inv
<1>1. TypeOK'
  BY DEF TypeOK, stores
<1>2. CallsHold'
  <2> SUFFICES ASSUME NEW u \in Calls PROVE CallHolds(calls[u])'
    BY DEF CallsHold
  <2>1. CallHolds(calls'[u])
    BY DEF CallsHold, TypeOK
  <2> QED BY <2>1 DEF CallHolds, Asked, stores
<1>3. RequestsHold' /\ StampsHold' /\ CodesHold' /\ SessionsHold'
  BY DEF RequestsHold, StampsHold, CodesHold, SessionsHold, Asked, stores
<1>4. RedemptionsHold'
  BY DEF RedemptionsHold, Redeeming, TypeOK, stores
<1> QED
  BY <1>1, <1>2, <1>3, <1>4

\* The steps of a call that read the stores and write to none.
LEMMA ReadingStep ==
  ASSUME Inv, NEW t \in Calls,
         \/ Authorize(t) \/ Consent(t) \/ Mint(t) \/ MintCheck(t) \/ Token(t)
         \/ Authenticate(t) \/ Refresh(t) \/ Register(t) \/ Count(t) \/ Fail(t)
  PROVE  Inv'
<1>0. /\ calls[t] \in Call /\ CallHolds(calls[t]) /\ blocked \subseteq Users /\ UNCHANGED <<stores, blocked>>
      /\ NoCall \in Call /\ NoCall.at = "idle" /\ CallHolds(NoCall)
  BY NoCallHolds DEF Inv, TypeOK, CallsHold, stores, Authorize, Consent, Mint, MintCheck, Token,
     Authenticate, Refresh, Register, Count, Fail, GoTo, Continue, Begin
<1>1. ASSUME NEW step \in {"check", "code", "drop", "issue", "store", "idle"}, GoTo(t, step),
             step \in {"check", "code", "drop"} => calls[t].at \in {"mint", "check"},
             step = "issue" => calls[t].at = "authenticate", step = "store" => calls[t].body \in Bodies
      PROVE  Inv'
  <2> DEFINE k == IF step = "idle" THEN NoCall ELSE [calls[t] EXCEPT !.at = step]
  <2>1. k \in Call
    BY <1>0, <1>1 DEF Call
  <2>2. CallHolds(k)
    BY <1>0, <1>1 DEF CallHolds, Call
  <2>3. k.at \in {"authenticate", "issue"} => Redeeming(t) /\ k.code = calls[t].code
    BY <1>0, <1>1 DEF Call, Redeeming
  <2>4. calls' = [calls EXCEPT ![t] = k]
    BY <1>1 DEF GoTo
  <2> QED BY <1>0, <2>1, <2>2, <2>3, <2>4, CallMoves
<1>2. ASSUME NEW k \in Call, calls' = [calls EXCEPT ![t] = k], CallHolds(k),
             k.at \notin {"authenticate", "issue"}
      PROVE  Inv'
  BY <1>0, <1>2, CallMoves
<1>3. CASE Authorize(t)
  <2>1. PICK app \in Apps, browser \in Browsers, client \in ClientIds, uri \in Uris :
           calls' = [calls EXCEPT ![t] =
              [NoCall EXCEPT !.at = IF client \in Dynamic THEN "touch" ELSE "create",
                             !.app = app, !.browser = browser, !.client = client, !.uri = uri]]
    BY <1>3 DEF Authorize, Begin
  <2> DEFINE k == [NoCall EXCEPT !.at = IF client \in Dynamic THEN "touch" ELSE "create",
                                 !.app = app, !.browser = browser, !.client = client, !.uri = uri]
  <2>2. k \in Call /\ CallHolds(k) /\ k.at \notin {"authenticate", "issue"}
    BY DEF NoCall, Call, CallHolds
  <2> QED BY <1>2, <2>1, <2>2
<1>4. CASE Consent(t)
  <2>1. PICK browser \in Browsers, run \in runs :
           \E next \in IF jar[browser] = run.handle THEN {"mint", "drop"} ELSE {"drop"} :
              calls' = [calls EXCEPT ![t] = [NoCall EXCEPT !.at = next, !.browser = browser,
                                                !.handle = run.handle, !.user = run.user]]
    BY <1>4 DEF Consent, Begin
  <2>2. PICK next \in IF jar[browser] = run.handle THEN {"mint", "drop"} ELSE {"drop"} :
              calls' = [calls EXCEPT ![t] = [NoCall EXCEPT !.at = next, !.browser = browser,
                                                !.handle = run.handle, !.user = run.user]]
    BY <2>1
  <2> DEFINE k == [NoCall EXCEPT !.at = next, !.browser = browser, !.handle = run.handle,
                                 !.user = run.user]
  <2>3. run.handle \in Handles /\ run.user \in Users /\ pending[run.handle] # None
    BY DEF Inv, TypeOK, RequestsHold
  <2>4. next = "mint" => pending[run.handle].browser = browser
    BY <2>3, NoneIsNothing DEF Inv, TypeOK, RequestsHold
  <2>5. k \in Call /\ CallHolds(k) /\ k.at \notin {"authenticate", "issue"}
    BY <2>3, <2>4 DEF NoCall, Call, CallHolds, ClientIds
  <2> QED BY <1>2, <2>2, <2>5
<1>5. CASE Token(t)
  <2>1. PICK n \in Codes, app \in Apps, client \in ClientIds, secret \in BOOLEAN :
           /\ codes[n] # None
           /\ Begin(t, "token", [NoCall EXCEPT !.at = "claim", !.code = n, !.app = app,
                                               !.client = client, !.secret = secret])
    BY <1>5 DEF Token
  <2> DEFINE k == [NoCall EXCEPT !.at = "claim", !.code = n, !.app = app, !.client = client,
                                 !.secret = secret]
  <2>2. k \in Call /\ CallHolds(k) /\ k.at \notin {"authenticate", "issue"}
    BY <2>1 DEF NoCall, Call, CallHolds
  <2> QED BY <1>2, <2>1, <2>2 DEF Begin
<1>6. CASE Refresh(t)
  <2>1. PICK n \in Codes, client \in ClientIds \ {None} :
           /\ sessions[n] # None
           /\ calls' = [calls EXCEPT ![t] = [NoCall EXCEPT !.at = "rotate", !.code = n, !.client = client]]
    BY <1>6 DEF Refresh, Begin
  <2> DEFINE k == [NoCall EXCEPT !.at = "rotate", !.code = n, !.client = client]
  <2>2. k \in Call /\ CallHolds(k) /\ k.at \notin {"authenticate", "issue"}
    BY <2>1 DEF NoCall, Call, CallHolds
  <2> QED BY <1>2, <2>1, <2>2
<1>7. CASE Register(t)
  <2>1. PICK body \in Bodies : calls' = [calls EXCEPT ![t] = [NoCall EXCEPT !.at = "sweep", !.body = body]]
    BY <1>7 DEF Register, Begin
  <2> DEFINE k == [NoCall EXCEPT !.at = "sweep", !.body = body]
  <2>2. k \in Call /\ CallHolds(k) /\ k.at \notin {"authenticate", "issue"}
    BY DEF NoCall, Call, CallHolds, ClientIds
  <2> QED BY <1>2, <2>1, <2>2
<1>8. CASE Fail(t)
  BY <1>0, <1>2, <1>8 DEF Fail
<1>9. CASE Mint(t)
  BY <1>1, <1>9 DEF Mint, Continue, At
<1>10. CASE MintCheck(t)
  BY <1>1, <1>10 DEF MintCheck, At
<1>11. CASE Authenticate(t)
  BY <1>1, <1>11 DEF Authenticate, Continue, At
<1>12. CASE Count(t)
  BY <1>0, <1>1, <1>12 DEF Count, Continue, At, CallHolds
<1> QED
  BY <1>3, <1>4, <1>5, <1>6, <1>7, <1>8, <1>9, <1>10, <1>11, <1>12

(* ------------------------- A step writes to a store ---------------------- *)
\* What no step takes back.
Grows ==
    /\ \A h \in Handles : pending[h] # None =>
          /\ pending'[h] # None /\ pending'[h].app = pending[h].app
          /\ pending'[h].client = pending[h].client /\ pending'[h].browser = pending[h].browser
          /\ pending'[h].touched = pending[h].touched
    /\ \A n \in Codes : codes[n] # None =>
          /\ codes'[n] # None /\ codes'[n].handle = codes[n].handle /\ codes'[n].user = codes[n].user
          /\ codes'[n].browser = codes[n].browser
          /\ codes[n].row = "gone" => codes'[n].row = "gone"
    /\ \A n \in Codes : sessions[n] # None =>
          sessions'[n] # None /\ sessions'[n].client = sessions[n].client
    /\ \A c \in Dynamic : clients[c] # None /\ clients[c].used /\ clients[c].state # "swept" =>
          clients'[c] # None /\ clients'[c].used /\ clients'[c].state # "swept"

LEMMA CallStays ==
  ASSUME Inv, Grows, NEW u \in Calls, calls'[u] = calls[u]
  PROVE  CallHolds(calls[u])'
<1>1. CallHolds(calls[u]) /\ calls[u] \in Call
  BY DEF Inv, CallsHold, TypeOK
<1>2. \A n \in Codes : codes[n] # None => codes[n].handle \in Handles /\ pending[codes[n].handle] # None
  BY NoneIsNothing DEF Inv, TypeOK, Code, CodesHold
<1> QED
  BY <1>1, <1>2 DEF CallHolds, Grows, Asked

LEMMA RequestsStay ==
  ASSUME Inv, Grows, UNCHANGED <<jar, runs>>
  PROVE  RequestsHold'
  BY DEF Inv, TypeOK, RequestsHold, Grows

LEMMA StampsStay ==
  ASSUME Inv, Grows, \A h \in Handles : pending'[h] # None => pending[h] # None
  PROVE  StampsHold'
  BY DEF Inv, TypeOK, StampsHold, Grows

LEMMA CodesStay ==
  ASSUME Inv, Grows, \A n \in Codes : codes'[n] # None => codes[n] # None
  PROVE  CodesHold'
  BY NoneIsNothing DEF Inv, TypeOK, Code, CodesHold, Grows

LEMMA SessionsStay ==
  ASSUME Inv, Grows,
         \A n \in Codes : sessions'[n] # None =>
            sessions[n] # None /\ sessions'[n].by \subseteq sessions[n].by \cup ({sessions[n].client} \ {None})
  PROVE  SessionsHold'
<1> SUFFICES ASSUME NEW n \in Codes, sessions'[n] # None
             PROVE  /\ codes'[n] # None /\ sessions'[n].client = Asked(n)'.client
                    /\ sessions'[n].by \subseteq {Asked(n)'.client} \ {None}
  BY DEF SessionsHold
<1>1. codes[n] # None /\ codes[n].handle \in Handles /\ pending[codes[n].handle] # None
  BY NoneIsNothing DEF Inv, TypeOK, Code, CodesHold, SessionsHold
<1>2. Asked(n)'.client = Asked(n).client /\ codes'[n] # None
  BY <1>1 DEF Grows, Asked
<1> QED
  BY <1>2 DEF Inv, SessionsHold, Grows

LEMMA RedemptionsStay ==
  ASSUME Inv, Grows, redeemed' = redeemed,
         \A t \in Calls : Redeeming(t)' => Redeeming(t) /\ calls'[t].code = calls[t].code
  PROVE  RedemptionsHold'
  BY DEF Inv, RedemptionsHold, Grows

\* Authorize's write to the registration.
LEMMA TouchStep ==
  ASSUME Inv, NEW t \in Calls, Touch(t)
  PROVE  Inv' /\ Grows
<1> DEFINE client == calls[t].client
<1>1. /\ client \in Dynamic /\ calls[t] \in Call /\ CallHolds(calls[t])
      /\ UNCHANGED <<pending, jar, runs, codes, redeemed, sessions, blocked>>
  BY DEF Inv, CallsHold, CallHolds, TypeOK, Touch, At
<1>2. PICK found \in BOOLEAN :
         /\ found => clients[client] # None /\ clients[client].state = "kept"
         /\ clients' = IF found THEN [clients EXCEPT ![client].used = TRUE] ELSE clients
         /\ calls' = [calls EXCEPT ![t].at = "create", ![t].touched = found]
  BY DEF Touch, Present
<1>3. /\ clients' \in [Dynamic -> Client \cup {None}] /\ Grows
      /\ found => clients'[client] # None /\ clients'[client].used /\ clients'[client].state # "swept"
  <2>1. CASE found
    <3>1. clients[client] \in Client
      BY <1>1, <1>2, <2>1 DEF Inv, TypeOK
    <3>2. [clients[client] EXCEPT !.used = TRUE] \in Client
      BY <3>1 DEF Client
    <3> QED BY <1>1, <1>2, <2>1, <3>1, <3>2, NoneIsNothing DEF Inv, TypeOK, Grows, Client
  <2>2. CASE ~found
    BY <1>1, <1>2, <2>2 DEF Inv, TypeOK, Grows
  <2> QED BY <2>1, <2>2
<1>4. /\ calls'[t] \in Call /\ CallHolds(calls[t])' /\ ~Redeeming(t)'
      /\ \A u \in Calls : u # t => calls'[u] = calls[u]
      /\ calls' \in [Calls -> Call]
  <2>1. calls'[t] = [calls[t] EXCEPT !.at = "create", !.touched = found]
    BY <1>1, <1>2 DEF Inv, TypeOK
  <2>2. calls'[t] \in Call /\ calls' \in [Calls -> Call]
    <3>1. [calls[t] EXCEPT !.at = "create", !.touched = found] \in Call
      BY <1>1 DEF Call
    <3> QED BY <1>2, <2>1, <3>1 DEF Inv, TypeOK
  <2>3. calls[t].at = "touch"
    BY DEF Touch, At
  <2> QED BY <1>1, <1>2, <1>3, <2>1, <2>2, <2>3 DEF Inv, TypeOK, Call, CallHolds, Redeeming
<1>5. TypeOK'
  BY <1>1, <1>3, <1>4 DEF Inv, TypeOK
<1>6. CallsHold'
  BY <1>3, <1>4, CallStays DEF CallsHold
<1> QED
  BY <1>1, <1>3, <1>4, <1>5, <1>6, RequestsStay, StampsStay, CodesStay, SessionsStay, RedemptionsStay
  DEF Inv, Redeeming

\* A call goes on with what it has read, or ends.
LEMMA GoToMoves ==
  ASSUME TypeOK, NEW t \in Calls,
         NEW step \in {"idle", "drop", "authenticate", "issue", "count"}, GoTo(t, step)
  PROVE  /\ calls' \in [Calls -> Call]
         /\ \A u \in Calls : u # t => calls'[u] = calls[u]
         /\ calls'[t] = IF step = "idle" THEN NoCall ELSE [calls[t] EXCEPT !.at = step]
         /\ calls'[t].at = step
<1> DEFINE k == IF step = "idle" THEN NoCall ELSE [calls[t] EXCEPT !.at = step]
<1>1. k \in Call /\ k.at = step
  <2>1. CASE step = "idle"
    BY <2>1, NoCallHolds
  <2>2. CASE step # "idle"
    <3>1. calls[t] \in Call
      BY DEF TypeOK
    <3> QED BY <2>2, <3>1 DEF Call
  <2> QED BY <2>1, <2>2
<1>2. calls' = [calls EXCEPT ![t] = k]
  BY DEF GoTo
<1> QED
  BY <1>1, <1>2 DEF TypeOK

LEMMA CallEnds ==
  ASSUME Inv, Grows, NEW t \in Calls, GoTo(t, "idle")
  PROVE  /\ calls' \in [Calls -> Call] /\ CallsHold'
         /\ \A u \in Calls : Redeeming(u)' => u # t /\ Redeeming(u) /\ calls'[u] = calls[u]
<1>1. /\ calls' \in [Calls -> Call] /\ calls'[t] = NoCall
      /\ \A u \in Calls : u # t => calls'[u] = calls[u]
  BY GoToMoves DEF Inv
<1>2. CallHolds(calls[t])'
  BY <1>1, NoCallHolds DEF CallHolds
<1>3. CallsHold'
  BY <1>1, <1>2, CallStays DEF CallsHold
<1> QED
  BY <1>1, <1>3, NoCallHolds DEF Redeeming

\* A step that no call takes.
LEMMA CallsRest ==
  ASSUME Inv, Grows, calls' = calls
  PROVE  /\ calls' \in [Calls -> Call] /\ CallsHold'
         /\ \A u \in Calls : Redeeming(u)' => Redeeming(u) /\ calls'[u] = calls[u]
<1>1. \A u \in Calls : CallHolds(calls[u])'
  BY CallStays
<1> QED
  BY <1>1 DEF Inv, TypeOK, CallsHold, Redeeming

\* Authorize's insert of the request, with its binding cookie.
LEMMA CreateStep ==
  ASSUME Inv, NEW t \in Calls, Create(t)
  PROVE  /\ Inv' /\ Grows
         /\ \E h \in Handles, app \in Apps, client \in ClientIds, browser \in Browsers :
               /\ pending[h] = None /\ pending'[h] # None /\ pending'[h].app = app
               /\ pending'[h].client = client /\ pending'[h].browser = browser
               /\ \A i \in Handles : i # h => pending'[i] = pending[i]
<1> DEFINE k == calls[t]
           new == [app |-> k.app, client |-> k.client, uri |-> k.uri, browser |-> k.browser,
                   touched |-> k.touched, live |-> TRUE]
<1>1. PICK h \in Handles :
         /\ pending[h] = None /\ pending' = [pending EXCEPT ![h] = new]
         /\ jar' = [jar EXCEPT ![k.browser] = h]
  BY DEF Create
<1>2. /\ UNCHANGED <<clients, runs, codes, redeemed, sessions, blocked>> /\ GoTo(t, "idle")
      /\ k \in Call /\ CallHolds(k) /\ k.at = "create"
  BY DEF Inv, CallsHold, TypeOK, Create, At
<1>3. new \in Pending /\ new # None /\ k.browser \in Browsers /\ new.browser = k.browser
  <2>1. k.app \in Apps /\ k.browser \in Browsers /\ k.uri \in Uris
    BY <1>2 DEF CallHolds
  <2>2. k.client \in ClientIds /\ k.touched \in BOOLEAN
    BY <1>2 DEF Call
  <2>3. new \in Pending
    BY <2>1, <2>2 DEF Pending
  <2> QED BY <2>1, <2>3, NoneIsNothing
<1> HIDE DEF new
<1>4. Grows
  BY <1>1, <1>2 DEF Inv, TypeOK, Grows
<1>5. TypeOK'
  BY <1>1, <1>2, <1>3, <1>4, CallEnds DEF Inv, TypeOK
<1>6. RequestsHold'
  BY <1>1, <1>2, <1>3, NoneIsNothing DEF Inv, TypeOK, RequestsHold
<1>7. StampsHold'
  <2>1. new.touched = k.touched /\ new.client = k.client
    BY DEF new
  <2>2. k.touched => /\ k.client \in Dynamic /\ clients[k.client] # None /\ clients[k.client].used
                     /\ clients[k.client].state # "swept"
    BY <1>2 DEF CallHolds
  <2> QED BY <1>1, <1>2, <2>1, <2>2 DEF Inv, TypeOK, StampsHold
<1>8. Inv'
  BY <1>1, <1>2, <1>4, <1>5, <1>6, <1>7, CallEnds, CodesStay, SessionsStay, RedemptionsStay
  DEF Inv
<1>9. pending'[h] = new /\ \A i \in Handles : i # h => pending'[i] = pending[i]
  BY <1>1 DEF Inv, TypeOK
<1>10. /\ k.app \in Apps /\ k.client \in ClientIds /\ k.browser \in Browsers
       /\ new.app = k.app /\ new.client = k.client /\ new.browser = k.browser
  BY <1>2 DEF CallHolds, Call, new
<1> QED
  BY <1>1, <1>3, <1>4, <1>8, <1>9, <1>10

\* A code is minted for the request the browser made.
LEMMA MintCodeStep ==
  ASSUME Inv, NEW t \in Calls, MintCode(t)
  PROVE  /\ Inv' /\ Grows
         /\ \E n \in Codes, h \in Handles, user \in Users :
               /\ codes[n] = None /\ codes'[n] # None /\ pending[h] # None
               /\ codes'[n].handle = h /\ codes'[n].user = user
               /\ codes'[n].browser = pending[h].browser
               /\ \A m \in Codes : m # n => codes'[m] = codes[m]
<1> DEFINE k == calls[t]
           new == [handle |-> k.handle, user |-> k.user, browser |-> k.browser, row |-> "fresh"]
<1>1. PICK n \in Codes : codes[n] = None /\ codes' = [codes EXCEPT ![n] = new]
  BY DEF MintCode
<1>2. /\ UNCHANGED <<clients, pending, jar, runs, redeemed, sessions, blocked>> /\ GoTo(t, "drop")
      /\ k \in Call /\ CallHolds(k) /\ k.at = "code"
  BY DEF Inv, CallsHold, TypeOK, MintCode, At
<1>3. /\ new \in Code /\ new # None /\ new.handle = k.handle /\ new.browser = k.browser
      /\ new.handle \in Handles /\ pending[new.handle] # None /\ pending[new.handle].browser = new.browser
  BY <1>2, NoneIsNothing DEF CallHolds, Call, Code
<1> HIDE DEF new
<1>4. Grows
  BY <1>1, <1>2 DEF Inv, TypeOK, Grows
<1>5. /\ calls' \in [Calls -> Call] /\ calls'[t] = [k EXCEPT !.at = "drop"]
      /\ \A u \in Calls : u # t => calls'[u] = calls[u]
  BY <1>2, GoToMoves DEF Inv
<1>6. TypeOK'
  BY <1>1, <1>2, <1>3, <1>5 DEF Inv, TypeOK
<1>7. CallHolds(calls[t])' /\ ~Redeeming(t)'
  BY <1>2, <1>5 DEF CallHolds, Call, Redeeming
<1>8. CallsHold'
  BY <1>4, <1>5, <1>7, CallStays DEF CallsHold
<1>9. CodesHold'
  BY <1>1, <1>2, <1>3 DEF Inv, TypeOK, CodesHold
<1>10. Inv'
  BY <1>1, <1>2, <1>4, <1>5, <1>6, <1>7, <1>8, <1>9, RequestsStay, StampsStay, SessionsStay,
     RedemptionsStay
  DEF Inv, Redeeming
<1>11. codes'[n] = new /\ \A m \in Codes : m # n => codes'[m] = codes[m]
  BY <1>1 DEF Inv, TypeOK
<1>12. k.user \in Users /\ new.user = k.user
  BY <1>2 DEF CallHolds, new
<1> QED
  BY <1>1, <1>3, <1>4, <1>10, <1>11, <1>12

\* A request is used up, or expires.
LEMMA PendingEnds ==
  ASSUME Inv, NEW h \in Handles, pending[h] # None, pending' = [pending EXCEPT ![h].live = FALSE],
         UNCHANGED <<clients, codes, sessions>>
  PROVE  Grows /\ pending' \in [Handles -> Pending \cup {None}]
         /\ \A i \in Handles : pending'[i] # None => pending[i] # None
<1>1. pending[h] \in Pending /\ [pending[h] EXCEPT !.live = FALSE] \in Pending
  BY DEF Inv, TypeOK, Pending
<1>2. pending'[h] = [pending[h] EXCEPT !.live = FALSE] /\ \A i \in Handles : i # h => pending'[i] = pending[i]
  BY DEF Inv, TypeOK
<1>3. pending' \in [Handles -> Pending \cup {None}]
  BY <1>1 DEF Inv, TypeOK
<1> QED
  BY <1>1, <1>2, <1>3, NoneIsNothing DEF Grows, Pending

LEMMA DropStep ==
  ASSUME Inv, NEW t \in Calls, Drop(t)
  PROVE  Inv' /\ Grows
<1> DEFINE h == calls[t].handle
<1>1. /\ h \in Handles /\ pending[h] # None /\ pending' = [pending EXCEPT ![h].live = FALSE]
      /\ UNCHANGED <<clients, jar, runs, codes, redeemed, sessions, blocked>> /\ GoTo(t, "idle")
  BY DEF Inv, CallsHold, CallHolds, TypeOK, Drop, At
<1>2. Grows /\ pending' \in [Handles -> Pending \cup {None}]
      /\ \A i \in Handles : pending'[i] # None => pending[i] # None
  BY <1>1, PendingEnds
<1>3. TypeOK'
  BY <1>1, <1>2, CallEnds DEF Inv, TypeOK
<1> QED
  BY <1>1, <1>2, <1>3, CallEnds, RequestsStay, StampsStay, CodesStay, SessionsStay, RedemptionsStay
  DEF Inv

\* A code's row is deleted or expires.
LEMMA RowChanges ==
  ASSUME Inv, NEW n \in Codes, codes[n] # None, NEW row \in {"expired", "gone"},
         row = "gone" \/ codes[n].row = "fresh",
         codes' = [codes EXCEPT ![n].row = row],
         UNCHANGED <<clients, pending, sessions>>
  PROVE  /\ Grows /\ codes' \in [Codes -> Code \cup {None}] /\ codes'[n].row = row
         /\ \A m \in Codes : codes'[m] # None => codes[m] # None
<1>1. codes[n] \in Code /\ [codes[n] EXCEPT !.row = row] \in Code
  BY DEF Inv, TypeOK, Code
<1>2. codes'[n] = [codes[n] EXCEPT !.row = row] /\ \A m \in Codes : m # n => codes'[m] = codes[m]
  BY DEF Inv, TypeOK
<1>3. codes' \in [Codes -> Code \cup {None}]
  BY <1>1 DEF Inv, TypeOK
<1> QED
  BY <1>1, <1>2, <1>3, NoneIsNothing DEF Grows, Code

\* The delete of a row hits it once: from then on one call redeems the code.
LEMMA ClaimStep ==
  ASSUME Inv, NEW t \in Calls, Claim(t)
  PROVE  Inv' /\ Grows
<1> DEFINE k == calls[t]
           n == k.code
           right == /\ codes[n].row = "fresh" /\ k.app = Asked(n).app /\ k.client = Asked(n).client
                    /\ WantsIdToken(k.client) \/ WantsAccessToken(k.client)
           next == IF right THEN IF k.client = None THEN "issue" ELSE "authenticate" ELSE "idle"
<1>1. /\ n \in Codes /\ codes[n] # None /\ k \in Call /\ CallHolds(k) /\ k.at = "claim"
      /\ codes' = [codes EXCEPT ![n].row = "gone"] /\ GoTo(t, next)
      /\ UNCHANGED <<clients, pending, jar, runs, redeemed, sessions, blocked>>
  BY DEF Inv, CallsHold, CallHolds, TypeOK, Claim, At, Continue
<1>2. next \in {"idle", "authenticate", "issue"} /\ (next # "idle" => right)
  OBVIOUS
<1>3. /\ Grows /\ codes' \in [Codes -> Code \cup {None}] /\ codes'[n].row = "gone"
      /\ \A m \in Codes : codes'[m] # None => codes[m] # None
  BY <1>1, RowChanges
<1> HIDE DEF next
<1>4. /\ calls' \in [Calls -> Call] /\ calls'[t].at = next
      /\ calls'[t] = IF next = "idle" THEN NoCall ELSE [k EXCEPT !.at = next]
      /\ \A u \in Calls : u # t => calls'[u] = calls[u]
  BY <1>1, <1>2, GoToMoves DEF Inv
<1>5. TypeOK'
  BY <1>1, <1>3, <1>4 DEF Inv, TypeOK
<1>6. next # "idle" => /\ calls'[t].code = n /\ calls'[t].app = k.app /\ calls'[t].client = k.client
                       /\ right
  BY <1>1, <1>2, <1>4 DEF Call
<1>7. CallHolds(calls[t])'
  <2>1. CASE next = "idle"
    BY <1>4, <2>1, NoCallHolds DEF CallHolds
  <2>2. CASE next # "idle"
    <3>1. codes[n].handle \in Handles /\ pending[codes[n].handle] # None
      BY <1>1, NoneIsNothing DEF Inv, TypeOK, Code, CodesHold
    <3>2. /\ pending'[codes'[n].handle].app = Asked(n).app
          /\ pending'[codes'[n].handle].client = Asked(n).client
      BY <1>1, <1>3, <3>1 DEF Grows, Asked
    <3>3. codes'[n] # None
      BY <1>1, <1>3 DEF Grows
    <3> QED BY <1>1, <1>2, <1>3, <1>4, <1>6, <2>2, <3>2, <3>3 DEF CallHolds, Asked
  <2> QED BY <2>1, <2>2
<1>8. CallsHold'
  BY <1>3, <1>4, <1>7, CallStays DEF CallsHold
<1>9. RedemptionsHold'
  <2>1. next # "idle" => codes[n].row # "gone"
    BY <1>6
  <2>2. next # "idle" => redeemed[n] = None /\ \A u \in Calls : Redeeming(u) => calls[u].code # n
    BY <1>1, <2>1 DEF Inv, CallsHold, CallHolds, RedemptionsHold, Redeeming
  <2>3. \A u \in Calls : Redeeming(u)' => \/ u = t /\ next # "idle" /\ calls'[u].code = n
                                          \/ u # t /\ Redeeming(u) /\ calls'[u] = calls[u]
    BY <1>4, <1>6 DEF Redeeming
  <2>4. \A m \in Codes : redeemed'[m] # None => codes'[m] # None /\ codes'[m].row = "gone"
    BY <1>1, <1>3 DEF Inv, RedemptionsHold, Grows
  <2>5. \A u \in Calls : Redeeming(u)' => redeemed'[calls'[u].code] = None
    BY <1>1, <2>2, <2>3 DEF Inv, RedemptionsHold
  <2>6. \A u, v \in Calls : Redeeming(u)' /\ Redeeming(v)' /\ calls'[u].code = calls'[v].code => u = v
    BY <2>2, <2>3 DEF Inv, RedemptionsHold
  <2> QED BY <2>4, <2>5, <2>6 DEF RedemptionsHold, Redeeming
<1> QED
  BY <1>1, <1>3, <1>5, <1>8, <1>9, RequestsStay, StampsStay, CodesStay, SessionsStay DEF Inv

\* The code is turned into tokens.
LEMMA IssueStep ==
  ASSUME Inv, NEW t \in Calls, Issue(t)
  PROVE  /\ Inv' /\ Grows
         /\ calls[t].code \in Codes /\ codes[calls[t].code] # None /\ redeemed[calls[t].code] = None
         /\ redeemed' = [redeemed EXCEPT ![calls[t].code] =
               [app |-> Asked(calls[t].code).app, client |-> Asked(calls[t].code).client, times |-> 1]]
<1> DEFINE k == calls[t]
           n == k.code
           new == [app |-> k.app, client |-> k.client, times |-> 1]
           opened == [client |-> k.client, by |-> {}, rotated |-> 0, live |-> TRUE]
<1>1. /\ n \in Codes /\ codes[n] # None /\ k \in Call /\ Redeeming(t) /\ codes[n].row = "gone"
      /\ k.app = Asked(n).app /\ k.client = Asked(n).client /\ redeemed[n] = None
      /\ GoTo(t, "idle")
      /\ UNCHANGED <<clients, pending, jar, runs, codes, blocked>>
  BY DEF Inv, CallsHold, CallHolds, RedemptionsHold, Redeeming, TypeOK, Issue, At
<1>2. redeemed' = [redeemed EXCEPT ![n] = new]
  BY <1>1 DEF Issue
<1>3. sessions' = sessions \/ sessions' = [sessions EXCEPT ![n] = opened]
  BY DEF Issue
<1>4. codes[n].handle \in Handles /\ pending[codes[n].handle] \in Pending
  BY <1>1, NoneIsNothing DEF Inv, TypeOK, Code, CodesHold
<1>5. new \in Redemption /\ opened \in Session
  BY <1>1, <1>4 DEF Asked, Pending, Redemption, Session
<1>6. new # None /\ opened # None /\ opened.client = Asked(n).client /\ opened.by = {}
  BY <1>1, <1>5, NoneIsNothing
<1>7. Grows
  <2>1. \A m \in Codes : sessions[m] # None => sessions'[m] # None /\ sessions'[m].client = sessions[m].client
    BY <1>3, <1>6 DEF Inv, TypeOK, SessionsHold
  <2> QED BY <1>1, <2>1 DEF Grows
<1> HIDE DEF new, opened
<1>8. /\ calls' \in [Calls -> Call] /\ CallsHold'
      /\ \A u \in Calls : Redeeming(u)' => u # t /\ Redeeming(u) /\ calls'[u] = calls[u]
  BY <1>1, <1>7, CallEnds
<1>9. TypeOK'
  BY <1>1, <1>2, <1>3, <1>5, <1>8 DEF Inv, TypeOK
<1>10. SessionsHold'
  <2> SUFFICES ASSUME NEW m \in Codes, sessions'[m] # None
               PROVE  /\ codes[m] # None /\ sessions'[m].client = Asked(m).client
                      /\ sessions'[m].by \subseteq {Asked(m).client} \ {None}
    BY <1>1 DEF SessionsHold, Asked
  <2>1. CASE sessions'[m] = sessions[m]
    BY <2>1 DEF Inv, SessionsHold
  <2>2. CASE m = n /\ sessions'[m] = opened
    BY <1>1, <1>6, <2>2
  <2> QED BY <1>3, <2>1, <2>2 DEF Inv, TypeOK
<1>11. RedemptionsHold'
  <2>1. \A m \in Codes : redeemed'[m] # None => codes'[m] # None /\ codes'[m].row = "gone"
    BY <1>1, <1>2 DEF Inv, TypeOK, RedemptionsHold
  <2>2. \A u \in Calls : Redeeming(u)' => calls'[u].code # n
    BY <1>1, <1>8 DEF Inv, RedemptionsHold
  <2>3. \A u \in Calls : Redeeming(u)' => redeemed'[calls'[u].code] = None
    <3> SUFFICES ASSUME NEW u \in Calls, Redeeming(u)' PROVE redeemed'[calls'[u].code] = None
      OBVIOUS
    <3>1. Redeeming(u) /\ calls'[u] = calls[u] /\ calls[u].code \in Codes
      BY <1>8 DEF Inv, CallsHold, CallHolds, Redeeming
    <3> QED BY <1>2, <2>2, <3>1 DEF Inv, TypeOK, RedemptionsHold
  <2>4. \A u, v \in Calls : Redeeming(u)' /\ Redeeming(v)' /\ calls'[u].code = calls'[v].code => u = v
    BY <1>8 DEF Inv, RedemptionsHold
  <2> QED BY <2>1, <2>3, <2>4 DEF RedemptionsHold, Redeeming
<1> QED
  BY <1>1, <1>2, <1>7, <1>8, <1>9, <1>10, <1>11, RequestsStay, StampsStay, CodesStay DEF Inv, new

\* The client guard: only the client of the session is counted as a refresher.
LEMMA RotateStep ==
  ASSUME Inv, NEW t \in Calls, Rotate(t)
  PROVE  Inv' /\ Grows
<1> DEFINE n == calls[t].code
<1>1. /\ n \in Codes /\ sessions[n] # None /\ sessions[n] \in Session /\ GoTo(t, "idle")
      /\ UNCHANGED <<clients, pending, jar, runs, codes, redeemed, blocked>>
  BY DEF Inv, CallsHold, CallHolds, TypeOK, Rotate, At
<1>2. PICK next \in Session :
         /\ sessions' = [sessions EXCEPT ![n] = next]
         /\ next.client = sessions[n].client
         /\ next.by \subseteq sessions[n].by \cup ({sessions[n].client} \ {None})
  <2>1. CASE sessions' = [sessions EXCEPT ![n].live = FALSE]
    <3> DEFINE next == [sessions[n] EXCEPT !.live = FALSE]
    <3>1. next \in Session /\ next.client = sessions[n].client /\ next.by = sessions[n].by
      BY <1>1 DEF Session
    <3>2. sessions' = [sessions EXCEPT ![n] = next]
      BY <1>1, <2>1 DEF Inv, TypeOK
    <3> HIDE DEF next
    <3> QED BY <3>1, <3>2
  <2>2. CASE /\ Owns(calls[t].client, sessions[n])
             /\ sessions' = [sessions EXCEPT ![n].rotated = @ + 1, ![n].by = @ \cup {calls[t].client}]
    <3> DEFINE next == [sessions[n] EXCEPT !.rotated = @ + 1, !.by = @ \cup {calls[t].client}]
    <3>1. calls[t].client = sessions[n].client /\ sessions[n].client # None
      BY <2>2 DEF Owns, Refreshable
    <3>2. next \in Session /\ next.client = sessions[n].client
          /\ next.by = sessions[n].by \cup {sessions[n].client}
      <4>1. sessions[n].rotated + 1 \in Nat /\ sessions[n].by \cup {calls[t].client} \in SUBSET ClientIds
        BY <1>1, <3>1 DEF Session
      <4> QED BY <1>1, <3>1, <4>1 DEF Session
    <3>3. sessions' = [sessions EXCEPT ![n] = next]
      BY <1>1, <2>2 DEF Inv, TypeOK
    <3> HIDE DEF next
    <3> QED BY <3>1, <3>2, <3>3
  <2>3. CASE sessions' = sessions
    BY <1>1, <2>3 DEF Inv, TypeOK
  <2> QED BY <2>1, <2>2, <2>3 DEF Rotate
<1>3. Grows /\ sessions' \in [Codes -> Session \cup {None}]
  BY <1>1, <1>2, NoneIsNothing DEF Inv, TypeOK, Grows
<1>4. SessionsHold'
  BY <1>1, <1>2, <1>3, SessionsStay DEF Inv, TypeOK
<1>5. TypeOK'
  BY <1>1, <1>3, CallEnds DEF Inv, TypeOK
<1> QED
  BY <1>1, <1>3, <1>4, <1>5, CallEnds, RequestsStay, StampsStay, CodesStay, RedemptionsStay DEF Inv

\* The sweep leaves the registrations in use.
LEMMA SweepStep ==
  ASSUME Inv, NEW t \in Calls, Sweep(t)
  PROVE  Inv' /\ Grows
<1> DEFINE k == calls[t]
<1>1. /\ UNCHANGED <<pending, jar, runs, codes, redeemed, sessions, blocked>> /\ GoTo(t, "count")
      /\ k \in Call /\ CallHolds(k) /\ k.at = "sweep"
  BY DEF Inv, CallsHold, TypeOK, Sweep, At
<1>2. \A c \in Dynamic : clients'[c] = IF Present(c) /\ Stale(clients[c])
                                      THEN [clients[c] EXCEPT !.state = "swept"] ELSE clients[c]
  BY DEF Sweep
<1>3. \A c \in Dynamic : clients'[c] \in Client \cup {None}
  <2> SUFFICES ASSUME NEW c \in Dynamic PROVE clients'[c] \in Client \cup {None}
    OBVIOUS
  <2>1. Present(c) => clients[c] \in Client /\ [clients[c] EXCEPT !.state = "swept"] \in Client
    BY DEF Inv, TypeOK, Present, Client
  <2> QED BY <1>2, <2>1 DEF Inv, TypeOK
<1>4. Grows
  BY <1>1, <1>2 DEF Grows, Present, Stale
<1>5. clients' \in [Dynamic -> Client \cup {None}]
  BY <1>3 DEF Sweep
<1>6. /\ calls' \in [Calls -> Call] /\ calls'[t] = [k EXCEPT !.at = "count"]
      /\ \A u \in Calls : u # t => calls'[u] = calls[u]
  BY <1>1, GoToMoves DEF Inv
<1>7. CallHolds(calls[t])' /\ ~Redeeming(t)'
  BY <1>1, <1>6 DEF CallHolds, Call, Redeeming
<1>8. CallsHold'
  BY <1>4, <1>6, <1>7, CallStays DEF CallsHold
<1>9. TypeOK'
  BY <1>1, <1>5, <1>6 DEF Inv, TypeOK
<1> QED
  BY <1>1, <1>4, <1>6, <1>7, <1>8, <1>9, RequestsStay, StampsStay, CodesStay, SessionsStay,
     RedemptionsStay
  DEF Inv, Redeeming

LEMMA StoreStep ==
  ASSUME Inv, NEW t \in Calls, Store(t)
  PROVE  Inv' /\ Grows
<1> DEFINE body == calls[t].body
           new == [uris |-> body.uris, secret |-> body.method = "client_secret_post",
                   used |-> FALSE, old |-> FALSE, state |-> "kept"]
<1>1. PICK c \in Dynamic : clients[c] = None /\ clients' = [clients EXCEPT ![c] = new]
  BY DEF Store
<1>2. /\ UNCHANGED <<pending, jar, runs, codes, redeemed, sessions, blocked>> /\ GoTo(t, "idle")
      /\ body \in Bodies
  BY DEF Inv, CallsHold, CallHolds, Store, At
<1>3. new \in Client
  BY <1>2 DEF Client
<1> HIDE DEF new
<1>4. Grows /\ clients' \in [Dynamic -> Client \cup {None}]
  BY <1>1, <1>2, <1>3 DEF Inv, TypeOK, Grows
<1>5. TypeOK'
  BY <1>2, <1>4, CallEnds DEF Inv, TypeOK
<1> QED
  BY <1>2, <1>4, <1>5, CallEnds, RequestsStay, StampsStay, CodesStay, SessionsStay, RedemptionsStay
  DEF Inv

\* A registration ages or is deleted.
LEMMA AgeStep ==
  ASSUME Inv, NEW c \in Dynamic, Age(c)
  PROVE  Inv' /\ Grows
<1>1. PICK change \in {[clients[c] EXCEPT !.old = TRUE], [clients[c] EXCEPT !.state = "deleted"]} :
         clients' = [clients EXCEPT ![c] = change]
  BY DEF Age
<1>2. UNCHANGED <<pending, jar, runs, codes, redeemed, sessions, blocked, calls>>
  BY DEF Age
<1>3. clients[c] # None /\ clients[c].state = "kept" /\ clients[c] \in Client
  BY DEF Age, Present, Inv, TypeOK
<1>4. change \in Client /\ change.used = clients[c].used /\ change.state # "swept"
  BY <1>3 DEF Client
<1>5. Grows /\ clients' \in [Dynamic -> Client \cup {None}]
  BY <1>1, <1>2, <1>4, NoneIsNothing DEF Inv, TypeOK, Grows
<1> QED
  BY <1>2, <1>5, CallsRest, RequestsStay, StampsStay, CodesStay, SessionsStay, RedemptionsStay
  DEF Inv, TypeOK

\* What else ends without a call: requests, codes and sessions.
LEMMA OtherStep ==
  ASSUME Inv,
         \/ \E h \in Handles : PendingExpires(h) \/ \E user \in Users : Login(h, user)
         \/ \E n \in Codes : CodeExpires(n)
         \/ \E user \in Users : Block(user)
  PROVE  Inv' /\ Grows
<1>1. ASSUME NEW h \in Handles, PendingExpires(h) PROVE Inv' /\ Grows
  <2>1. /\ UNCHANGED <<clients, jar, runs, codes, redeemed, sessions, blocked, calls>>
        /\ pending[h] # None /\ pending' = [pending EXCEPT ![h].live = FALSE]
    BY <1>1 DEF PendingExpires
  <2>2. /\ Grows /\ pending' \in [Handles -> Pending \cup {None}]
        /\ \A i \in Handles : pending'[i] # None => pending[i] # None
    BY <2>1, PendingEnds
  <2> QED
    BY <2>1, <2>2, CallsRest, RequestsStay, StampsStay, CodesStay, SessionsStay, RedemptionsStay
    DEF Inv, TypeOK
<1>2. ASSUME NEW h \in Handles, NEW user \in Users, Login(h, user) PROVE Inv' /\ Grows
  <2>1. /\ UNCHANGED <<clients, pending, jar, codes, redeemed, sessions, blocked, calls>>
        /\ pending[h] # None /\ runs' = runs \cup {[handle |-> h, user |-> user]}
    BY <1>2 DEF Login
  <2>2. Grows
    BY <2>1 DEF Grows
  <2>3. RequestsHold'
    BY <2>1 DEF Inv, RequestsHold
  <2> QED
    BY <2>1, <2>2, <2>3, CallsRest, StampsStay, CodesStay, SessionsStay, RedemptionsStay
    DEF Inv, TypeOK
<1>3. ASSUME NEW n \in Codes, CodeExpires(n) PROVE Inv' /\ Grows
  <2>1. /\ UNCHANGED <<clients, pending, jar, runs, redeemed, sessions, blocked, calls>>
        /\ codes[n] # None /\ codes[n].row = "fresh" /\ codes' = [codes EXCEPT ![n].row = "expired"]
    BY <1>3 DEF CodeExpires
  <2>2. /\ Grows /\ codes' \in [Codes -> Code \cup {None}]
        /\ \A m \in Codes : codes'[m] # None => codes[m] # None
    BY <2>1, RowChanges
  <2> QED
    BY <2>1, <2>2, CallsRest, RequestsStay, StampsStay, CodesStay, SessionsStay, RedemptionsStay
    DEF Inv, TypeOK
<1>4. ASSUME NEW user \in Users, Block(user) PROVE Inv' /\ Grows
  <2>1. /\ UNCHANGED <<clients, pending, jar, runs, codes, redeemed, calls>> /\ blocked' \subseteq Users
    BY <1>4 DEF Block, Inv, TypeOK
  <2>2. /\ sessions' \in [Codes -> Session \cup {None}]
        /\ \A n \in Codes : sessions'[n] # None => sessions[n] # None /\ sessions'[n].by = sessions[n].by
        /\ \A n \in Codes : sessions[n] # None =>
              sessions'[n] # None /\ sessions'[n].client = sessions[n].client
    <3>1. CASE UNCHANGED sessions
      BY <3>1 DEF Inv, TypeOK
    <3>2. CASE sessions' = [n \in Codes |-> IF sessions[n] # None /\ codes[n].user = user
                                            THEN [sessions[n] EXCEPT !.live = FALSE] ELSE sessions[n]]
      <4>1. ASSUME NEW n \in Codes, sessions[n] # None
            PROVE  LET over == [sessions[n] EXCEPT !.live = FALSE]
                   IN /\ over \in Session /\ over # None
                      /\ over.client = sessions[n].client /\ over.by = sessions[n].by
        <5>1. sessions[n] \in Session
          BY <4>1 DEF Inv, TypeOK
        <5>2. [sessions[n] EXCEPT !.live = FALSE] \in Session
          BY <5>1 DEF Session
        <5> QED BY <5>1, <5>2, NoneIsNothing DEF Session
      <4> QED BY <3>2, <4>1 DEF Inv, TypeOK
    <3> QED BY <1>4, <3>1, <3>2 DEF Block
  <2>3. Grows
    BY <2>1, <2>2 DEF Grows
  <2> QED
    BY <2>1, <2>2, <2>3, CallsRest, RequestsStay, StampsStay, CodesStay, SessionsStay, RedemptionsStay
    DEF Inv, TypeOK
<1> QED
  BY <1>1, <1>2, <1>3, <1>4

(* ------------------------------- Theorems -------------------------------- *)
LEMMA InvInit == Init => Inv
<1> SUFFICES ASSUME Init PROVE Inv
  OBVIOUS
<1>1. TypeOK
  BY NoCallHolds DEF Init, TypeOK
<1>2. CallsHold
  BY NoCallHolds DEF Init, CallsHold
<1>3. RequestsHold /\ StampsHold /\ CodesHold /\ SessionsHold
  BY DEF Init, RequestsHold, StampsHold, CodesHold, SessionsHold
<1>4. RedemptionsHold
  BY NoCallHolds DEF Init, RedemptionsHold, Redeeming
<1> QED
  BY <1>1, <1>2, <1>3, <1>4 DEF Inv

LEMMA InvStep == Inv /\ [Next]_vars => Inv'
<1> SUFFICES ASSUME Inv, [Next]_vars PROVE Inv'
  OBVIOUS
<1>1. ASSUME NEW t \in Calls, Step(t) PROVE Inv'
  BY <1>1, ReadingStep, TouchStep, CreateStep, MintCodeStep, DropStep, ClaimStep, IssueStep,
     RotateStep, SweepStep, StoreStep
  DEF Step
<1>2. CASE UNCHANGED vars
  BY <1>2 DEF vars, Inv, TypeOK, CallsHold, CallHolds, RequestsHold, StampsHold, CodesHold,
              SessionsHold, RedemptionsHold, Redeeming, Asked
<1> QED
  BY <1>1, <1>2, OtherStep, AgeStep DEF Next

\* Every state of the authorization server is well typed, and what its calls have read,
\* its rows and its sessions say of one another is true.
THEOREM InvCorrect == Spec => []Inv
  BY InvInit, InvStep, PTL DEF Spec

\* A session is refreshed only by the client whose request it goes back to, for any number
\* of clients, codes and calls in flight.
THEOREM SessionsAreTheirClients == Spec => []SessionsStayWithTheirClient
<1>1. Inv => SessionsStayWithTheirClient
  BY DEF Inv, SessionsHold, SessionsStayWithTheirClient, Asked
<1> QED
  BY <1>1, InvCorrect, PTL

(* The registrations stored and about to be stored, which no step makes more by   *)
(* more than the room its count found.                                            *)
LEMMA FiniteCounts ==
  /\ IsFiniteSet(Kept) /\ Cardinality(Kept) \in Nat
  /\ IsFiniteSet(Storing) /\ Cardinality(Storing) \in Nat
  /\ Cardinality(Calls) \in Nat /\ Cardinality(Calls) > 0
<1>1. IsFiniteSet(Kept) /\ IsFiniteSet(Storing)
  <2>1. Kept \subseteq Dynamic /\ Storing \subseteq Calls
    BY DEF Kept, Storing
  <2> QED BY <2>1, BoundsAssumption, FS_Subset
<1>2. Cardinality(Calls) # 0
  BY BoundsAssumption, FS_EmptySet
<1> QED
  BY <1>1, <1>2, BoundsAssumption, FS_CardinalityType

LEMMA CountsShrink ==
  ASSUME LimitHolds, Kept' \subseteq Kept, Storing' \subseteq Storing
  PROVE  LimitHolds'
<1>1. Cardinality(Kept') <= Cardinality(Kept) /\ Cardinality(Storing') <= Cardinality(Storing)
      /\ Cardinality(Kept') \in Nat /\ Cardinality(Storing') \in Nat
  BY FiniteCounts, FS_Subset, FS_CardinalityType
<1> QED
  BY <1>1, FiniteCounts, BoundsAssumption DEF LimitHolds

LEMMA LimitStep == Inv /\ LimitHolds /\ [Next]_vars => LimitHolds'
<1> SUFFICES ASSUME Inv, LimitHolds, [Next]_vars PROVE LimitHolds'
  OBVIOUS
<1>1. ASSUME NEW t \in Calls, Count(t) PROVE LimitHolds'
  <2>1. Kept' = Kept /\ ~(t \in Storing)
    BY <1>1 DEF Count, Kept, Present, Storing, At
  <2>2. CASE Cardinality(Kept) < MaxClients
    <3>1. Storing' \subseteq Calls
      BY DEF Storing
    <3>2. Cardinality(Storing') <= Cardinality(Calls) /\ Cardinality(Storing') \in Nat
      BY <3>1, BoundsAssumption, FS_Subset, FS_CardinalityType
    <3> QED BY <2>1, <2>2, <3>2, FiniteCounts, BoundsAssumption DEF LimitHolds
  <2>3. CASE ~(Cardinality(Kept) < MaxClients)
    <3>1. calls' = [calls EXCEPT ![t] = NoCall]
      BY <1>1, <2>3 DEF Count, Continue, GoTo
    <3>2. Storing' \subseteq Storing
      BY <3>1, NoCallHolds DEF Storing, At, Inv, TypeOK
    <3> QED BY <2>1, <3>2, CountsShrink
  <2> QED BY <2>2, <2>3
<1>2. ASSUME NEW t \in Calls, Store(t) PROVE LimitHolds'
  <2>0. PICK c \in Dynamic : \E new : clients[c] = None /\ clients' = [clients EXCEPT ![c] = new]
    BY <1>2 DEF Store
  <2>1. PICK new : clients[c] = None /\ clients' = [clients EXCEPT ![c] = new]
    BY <2>0
  <2>2. Kept' \subseteq Kept \cup {c} /\ c \notin Kept
    BY <2>1 DEF Kept, Present, Inv, TypeOK
  <2>3. Storing' = Storing \ {t} /\ t \in Storing
    <3>1. calls' = [calls EXCEPT ![t] = NoCall] /\ calls[t].at = "store"
      BY <1>2 DEF Store, GoTo, At
    <3> QED BY <3>1, NoCallHolds DEF Storing, At, Inv, TypeOK
  <2>4. Cardinality(Storing') = Cardinality(Storing) - 1
    BY <2>3, FiniteCounts, FS_RemoveElement
  <2>5. Cardinality(Kept') <= Cardinality(Kept) + 1 /\ Cardinality(Kept') \in Nat
    <3>1. IsFiniteSet(Kept \cup {c}) /\ Cardinality(Kept \cup {c}) = Cardinality(Kept) + 1
      BY <2>2, FiniteCounts, FS_AddElement
    <3> QED BY <2>2, <3>1, FS_Subset, FS_CardinalityType
  <2> QED BY <2>4, <2>5, FiniteCounts, BoundsAssumption DEF LimitHolds
<1>3. ASSUME NEW t \in Calls, Sweep(t) PROVE LimitHolds'
  <2>1. Kept' \subseteq Kept
    <3> SUFFICES ASSUME NEW c \in Dynamic, Present(c)' PROVE Present(c)
      BY DEF Kept
    <3>1. Present(c) \/ clients'[c] = clients[c]
      BY <1>3 DEF Sweep
    <3> QED BY <3>1 DEF Present
  <2>2. Storing' \subseteq Storing
    <3>1. calls' = [calls EXCEPT ![t] = [calls[t] EXCEPT !.at = "count"]]
      BY <1>3 DEF Sweep, GoTo
    <3> QED BY <3>1 DEF Storing, At, Inv, TypeOK, Call
  <2> QED BY <2>1, <2>2, CountsShrink
<1>4. ASSUME NEW t \in Calls, Touch(t) PROVE LimitHolds'
  <2>1. Kept' \subseteq Kept
    BY <1>4 DEF Touch, Kept, Present, Inv, TypeOK, Client
  <2>2. Storing' \subseteq Storing
    BY <1>4 DEF Touch, Storing, At, Inv, TypeOK, Call
  <2> QED BY <2>1, <2>2, CountsShrink
<1>5. ASSUME NEW t \in Calls,
             \/ Authorize(t) \/ Create(t) \/ Consent(t) \/ Mint(t) \/ MintCheck(t) \/ MintCode(t)
             \/ Drop(t) \/ Token(t) \/ Claim(t) \/ Authenticate(t) \/ Issue(t) \/ Refresh(t)
             \/ Rotate(t) \/ Register(t) \/ Fail(t)
      PROVE  LimitHolds'
  <2>1. Kept' = Kept
    BY <1>5 DEF Kept, Present, Authorize, Create, Consent, Mint, MintCheck, MintCode, Drop, Token,
       Claim, Authenticate, Issue, Refresh, Rotate, Register, Fail
  <2>2. \E k : calls' = [calls EXCEPT ![t] = k] /\ k.at # "store"
    <3>1. ASSUME NEW step, GoTo(t, step), step # "store"
          PROVE  \E k : calls' = [calls EXCEPT ![t] = k] /\ k.at # "store"
      <4>1. calls[t] \in Call
        BY DEF Inv, TypeOK
      <4>2. NoCall.at # "store" /\ [calls[t] EXCEPT !.at = step].at # "store"
        BY <3>1, <4>1, NoCallHolds DEF Call
      <4> QED BY <3>1, <4>2 DEF GoTo
    <3>2. CASE Create(t) \/ Mint(t) \/ MintCheck(t) \/ MintCode(t) \/ Drop(t) \/ Claim(t)
               \/ Authenticate(t) \/ Issue(t) \/ Rotate(t)
      <4>1. \E step : GoTo(t, step) /\ step # "store"
        <5>1. CASE Create(t) \/ Mint(t) \/ MintCheck(t) \/ MintCode(t) \/ Drop(t)
          BY <5>1 DEF Create, Mint, MintCheck, MintCode, Drop, Continue
        <5>2. CASE Claim(t) \/ Authenticate(t) \/ Issue(t) \/ Rotate(t)
          BY <5>2 DEF Claim, Authenticate, Issue, Rotate, Continue
        <5> QED BY <3>2, <5>1, <5>2
      <4> QED BY <3>1, <4>1
    <3>3. ASSUME NEW kind, NEW k, Begin(t, kind, k), k.at # "store"
          PROVE  \E new : calls' = [calls EXCEPT ![t] = new] /\ new.at # "store"
      BY <3>3 DEF Begin
    <3>4. CASE Authorize(t)
      <4>1. PICK app \in Apps, browser \in Browsers, client \in ClientIds, uri \in Uris :
               Begin(t, "authorize", [NoCall EXCEPT !.at = IF client \in Dynamic THEN "touch" ELSE "create",
                                        !.app = app, !.browser = browser, !.client = client, !.uri = uri])
        BY <3>4 DEF Authorize
      <4> DEFINE new == [NoCall EXCEPT !.at = IF client \in Dynamic THEN "touch" ELSE "create",
                                       !.app = app, !.browser = browser, !.client = client, !.uri = uri]
      <4>2. new.at # "store"
        BY DEF NoCall
      <4> QED BY <3>3, <4>1, <4>2
    <3>5. CASE Consent(t)
      <4>1. PICK browser \in Browsers, run \in runs :
               \E next \in IF jar[browser] = run.handle THEN {"mint", "drop"} ELSE {"drop"} :
                  Begin(t, "consent", [NoCall EXCEPT !.at = next, !.browser = browser,
                                                     !.handle = run.handle, !.user = run.user])
        BY <3>5 DEF Consent
      <4>2. PICK next \in {"mint", "drop"} :
                  Begin(t, "consent", [NoCall EXCEPT !.at = next, !.browser = browser,
                                                     !.handle = run.handle, !.user = run.user])
        BY <4>1
      <4> DEFINE new == [NoCall EXCEPT !.at = next, !.browser = browser,
                                       !.handle = run.handle, !.user = run.user]
      <4>3. new.at # "store"
        BY DEF NoCall
      <4> QED BY <3>3, <4>2, <4>3
    <3>6. CASE Token(t)
      <4>1. PICK n \in Codes, app \in Apps, client \in ClientIds, secret \in BOOLEAN :
               Begin(t, "token", [NoCall EXCEPT !.at = "claim", !.code = n, !.app = app,
                                                !.client = client, !.secret = secret])
        BY <3>6 DEF Token
      <4> DEFINE new == [NoCall EXCEPT !.at = "claim", !.code = n, !.app = app,
                                       !.client = client, !.secret = secret]
      <4>2. new.at # "store"
        BY DEF NoCall
      <4> QED BY <3>3, <4>1, <4>2
    <3>7. CASE Refresh(t)
      <4>1. PICK n \in Codes, client \in ClientIds \ {None} :
               Begin(t, "refresh", [NoCall EXCEPT !.at = "rotate", !.code = n, !.client = client])
        BY <3>7 DEF Refresh
      <4> DEFINE new == [NoCall EXCEPT !.at = "rotate", !.code = n, !.client = client]
      <4>2. new.at # "store"
        BY DEF NoCall
      <4> QED BY <3>3, <4>1, <4>2
    <3>8. CASE Register(t)
      <4>1. PICK body \in Bodies : Begin(t, "register", [NoCall EXCEPT !.at = "sweep", !.body = body])
        BY <3>8 DEF Register
      <4> DEFINE new == [NoCall EXCEPT !.at = "sweep", !.body = body]
      <4>2. new.at # "store"
        BY DEF NoCall
      <4> QED BY <3>3, <4>1, <4>2
    <3>9. CASE Fail(t)
      BY <3>9, NoCallHolds DEF Fail
    <3> QED BY <1>5, <3>2, <3>4, <3>5, <3>6, <3>7, <3>8, <3>9
  <2>3. Storing' \subseteq Storing
    BY <2>2 DEF Storing, At, Inv, TypeOK
  <2> QED BY <2>1, <2>3, CountsShrink
<1>6. ASSUME NEW c \in Dynamic, Age(c) PROVE LimitHolds'
  BY <1>6, CountsShrink DEF Age, Kept, Present, Storing, At, Inv, TypeOK
<1>7. ASSUME UNCHANGED <<clients, calls>> PROVE LimitHolds'
  BY <1>7 DEF LimitHolds, Kept, Present, Storing, At
<1> QED
  BY <1>1, <1>2, <1>3, <1>4, <1>5, <1>6, <1>7
  DEF Next, Step, vars, PendingExpires, Login, CodeExpires, Block

\* A registration that was stamped as used is never collected, and overlapping
\* registrations pass maxClients by fewer than the calls in flight.
THEOREM UsedClientsAreKept == Spec => []UsedClientsStay
<1>1. Init => LimitHolds
  <2> SUFFICES ASSUME Init PROVE LimitHolds
    OBVIOUS
  <2>1. Kept = {} /\ Storing = {}
    BY NoCallHolds DEF Init, Kept, Present, Storing, At
  <2> QED BY <2>1, FiniteCounts, BoundsAssumption, FS_EmptySet DEF LimitHolds
<1>2. Inv /\ LimitHolds => UsedClientsStay
  BY FiniteCounts, BoundsAssumption DEF Inv, StampsHold, LimitHolds, UsedClientsStay
<1> QED
  BY <1>1, <1>2, InvCorrect, LimitStep, PTL DEF Spec

(* ------------------------------ Refinement ------------------------------- *)
\* A step that asks, mints and redeems nothing leaves the abstract state alone.
LEMMA GrantsStay ==
  ASSUME Inv, Inv', Grows, redeemed' = redeemed,
         \A h \in Handles : pending'[h] # None => pending[h] # None,
         \A n \in Codes : codes'[n] # None => codes[n] # None
  PROVE  UNCHANGED <<[h \in Handles |-> IF pending[h] = None THEN None
                        ELSE [app |-> pending[h].app, client |-> pending[h].client,
                              browser |-> pending[h].browser]],
                     [n \in Codes |-> IF codes[n] = None THEN None
                        ELSE [handle |-> codes[n].handle, user |-> codes[n].user,
                              browser |-> codes[n].browser]],
                     redeemed>>
  BY DEF Grows

\* Every step of the server is a step of the abstract grants, or leaves them alone.
LEMMA GrantStep == Inv /\ [Next]_vars =>
    [Grants!Next]_<<[h \in Handles |-> IF pending[h] = None THEN None
                        ELSE [app |-> pending[h].app, client |-> pending[h].client,
                              browser |-> pending[h].browser]],
                    [n \in Codes |-> IF codes[n] = None THEN None
                        ELSE [handle |-> codes[n].handle, user |-> codes[n].user,
                              browser |-> codes[n].browser]],
                    redeemed>>
<1> DEFINE asked == [h \in Handles |-> IF pending[h] = None THEN None
                        ELSE [app |-> pending[h].app, client |-> pending[h].client,
                              browser |-> pending[h].browser]]
           granted == [n \in Codes |-> IF codes[n] = None THEN None
                        ELSE [handle |-> codes[n].handle, user |-> codes[n].user,
                              browser |-> codes[n].browser]]
<1> SUFFICES ASSUME Inv, [Next]_vars PROVE [Grants!Next]_<<asked, granted, redeemed>>
  OBVIOUS
<1>0. Inv'
  BY InvStep
\* A request is an application's, of a client, made through a browser: no value it is not.
<1>1. ASSUME NEW h \in Handles, pending[h] # None
      PROVE  /\ asked[h] # None /\ asked[h].app = pending[h].app
             /\ asked[h].client = pending[h].client /\ asked[h].browser = pending[h].browser
  <2>1. pending[h] \in Pending
    BY <1>1 DEF Inv, TypeOK
  <2>2. asked[h] = [app |-> pending[h].app, client |-> pending[h].client, browser |-> pending[h].browser]
    BY <1>1
  <2>3. asked[h] \in [app : Apps, client : ClientIds, browser : Browsers]
    BY <2>1, <2>2 DEF Pending
  <2>4. None \notin [app : Apps, client : ClientIds, browser : Browsers]
    BY NoneAssumption
  <2> QED BY <2>2, <2>3, <2>4
<1>2. ASSUME NEW n \in Codes, codes[n] # None
      PROVE  granted[n] # None /\ granted[n].handle = codes[n].handle
  <2>1. codes[n] \in Code
    BY <1>2 DEF Inv, TypeOK
  <2>2. granted[n] = [handle |-> codes[n].handle, user |-> codes[n].user, browser |-> codes[n].browser]
    BY <1>2
  <2>3. granted[n] \in [handle : Handles, user : Users, browser : Browsers]
    BY <2>1, <2>2 DEF Code
  <2>4. None \notin [handle : Handles, user : Users, browser : Browsers]
    BY NoneAssumption
  <2> QED BY <2>2, <2>3, <2>4
<1>3. ASSUME NEW t \in Calls, Create(t) PROVE Grants!Next
  <2>1. PICK h \in Handles, app \in Apps, client \in ClientIds, browser \in Browsers :
           /\ pending[h] = None /\ pending'[h] # None /\ pending'[h].app = app
           /\ pending'[h].client = client /\ pending'[h].browser = browser
           /\ \A i \in Handles : i # h => pending'[i] = pending[i]
    BY <1>3, CreateStep
  <2>2. codes' = codes /\ redeemed' = redeemed
    BY <1>3 DEF Create
  <2>3. asked' = [asked EXCEPT ![h] = [app |-> app, client |-> client, browser |-> browser]]
    BY <2>1
  <2>4. asked[h] = None /\ granted' = granted
    BY <2>1, <2>2
  <2> HIDE DEF asked, granted
  <2>5. Grants!Ask(h)
    BY <2>2, <2>3, <2>4, Zenon DEF Grants!Ask, asked, granted
  <2> QED BY <2>5 DEF Grants!Next
<1>4. ASSUME NEW t \in Calls, MintCode(t) PROVE Grants!Next
  <2>1. PICK n \in Codes, h \in Handles, user \in Users :
           /\ codes[n] = None /\ codes'[n] # None /\ pending[h] # None
           /\ codes'[n].handle = h /\ codes'[n].user = user /\ codes'[n].browser = pending[h].browser
           /\ \A m \in Codes : m # n => codes'[m] = codes[m]
    BY <1>4, MintCodeStep
  <2>2. pending' = pending /\ redeemed' = redeemed
    BY <1>4 DEF MintCode
  <2>3. asked[h] # None /\ asked[h].browser = pending[h].browser
    BY <1>1, <2>1
  <2>4. granted' = [granted EXCEPT ![n] = [handle |-> h, user |-> user, browser |-> pending[h].browser]]
    BY <2>1
  <2>5. granted[n] = None /\ asked' = asked
    BY <2>1, <2>2
  <2> HIDE DEF asked, granted
  <2>6. granted' = [granted EXCEPT ![n] = [handle |-> h, user |-> user, browser |-> asked[h].browser]]
    BY <2>3, <2>4
  <2>7. \E i \in Handles, u \in Users :
           /\ asked[i] # None
           /\ granted' = [granted EXCEPT ![n] = [handle |-> i, user |-> u, browser |-> asked[i].browser]]
    BY <2>3, <2>6
  <2>8. Grants!Grant(n)
    BY <2>2, <2>5, <2>7, Zenon DEF Grants!Grant, asked, granted
  <2> QED BY <2>8 DEF Grants!Next
<1>5. ASSUME NEW t \in Calls, Issue(t) PROVE Grants!Next
  <2> DEFINE n == calls[t].code
             h == codes[n].handle
  <2>1. /\ n \in Codes /\ codes[n] # None /\ redeemed[n] = None
        /\ redeemed' = [redeemed EXCEPT ![n] =
              [app |-> Asked(n).app, client |-> Asked(n).client, times |-> 1]]
    BY <1>5, IssueStep
  <2>2. pending' = pending /\ codes' = codes
    BY <1>5 DEF Issue
  <2>3. granted[n] # None /\ granted[n].handle = h /\ h \in Handles /\ pending[h] # None
    BY <1>2, <2>1, NoneIsNothing DEF Inv, TypeOK, Code, CodesHold
  <2>4. asked[h].app = Asked(n).app /\ asked[h].client = Asked(n).client
    BY <1>1, <2>3 DEF Asked
  <2>5. asked' = asked /\ granted' = granted
    BY <2>2
  <2> HIDE DEF asked, granted
  <2>6. redeemed' = [redeemed EXCEPT ![n] = [app |-> asked[granted[n].handle].app,
                        client |-> asked[granted[n].handle].client, times |-> 1]]
    BY <2>1, <2>3, <2>4
  <2> QED BY <2>1, <2>3, <2>5, <2>6 DEF Grants!Next, Grants!Redeem, asked, granted
<1>6. ASSUME Grows, redeemed' = redeemed,
             \A h \in Handles : pending'[h] # None => pending[h] # None,
             \A n \in Codes : codes'[n] # None => codes[n] # None
      PROVE  UNCHANGED <<asked, granted, redeemed>>
  BY <1>0, <1>6, GrantsStay
<1>7. ASSUME NEW t \in Calls,
             \/ Authorize(t) \/ Consent(t) \/ Mint(t) \/ MintCheck(t) \/ Token(t)
             \/ Authenticate(t) \/ Refresh(t) \/ Register(t) \/ Count(t) \/ Fail(t)
      PROVE  UNCHANGED <<asked, granted, redeemed>>
  <2>1. UNCHANGED stores
    BY <1>7 DEF stores, Authorize, Consent, Mint, MintCheck, Token, Authenticate, Refresh, Register,
       Count, Fail
  <2> QED BY <2>1 DEF stores
<1>8. ASSUME NEW t \in Calls, Touch(t) \/ Rotate(t) \/ Sweep(t) \/ Store(t)
      PROVE  UNCHANGED <<asked, granted, redeemed>>
  BY <1>8 DEF Touch, Rotate, Sweep, Store
<1>9. ASSUME NEW t \in Calls, Drop(t) PROVE UNCHANGED <<asked, granted, redeemed>>
  <2>1. /\ codes' = codes /\ redeemed' = redeemed
        /\ \A h \in Handles : pending'[h] # None => pending[h] # None
    BY <1>9, PendingEnds DEF Drop, At, Inv, CallsHold, CallHolds
  <2> QED BY <1>6, <1>9, <2>1, DropStep
<1>10. ASSUME NEW t \in Calls, Claim(t) PROVE UNCHANGED <<asked, granted, redeemed>>
  <2>1. /\ pending' = pending /\ redeemed' = redeemed
        /\ \A n \in Codes : codes'[n] # None => codes[n] # None
    BY <1>10 DEF Claim, At, Inv, TypeOK, CallsHold, CallHolds
  <2> QED BY <1>6, <1>10, <2>1, ClaimStep
<1>11. ASSUME NEW h \in Handles, PendingExpires(h) PROVE UNCHANGED <<asked, granted, redeemed>>
  <2>1. /\ codes' = codes /\ redeemed' = redeemed
        /\ \A i \in Handles : pending'[i] # None => pending[i] # None
    BY <1>11, PendingEnds DEF PendingExpires
  <2> QED BY <1>6, <1>11, <2>1, OtherStep
<1>12. ASSUME NEW n \in Codes, CodeExpires(n) PROVE UNCHANGED <<asked, granted, redeemed>>
  <2>1. /\ pending' = pending /\ redeemed' = redeemed
        /\ \A m \in Codes : codes'[m] # None => codes[m] # None
    BY <1>12 DEF CodeExpires, Inv, TypeOK
  <2> QED BY <1>6, <1>12, <2>1, OtherStep
<1>13. ASSUME UNCHANGED <<pending, codes, redeemed>> PROVE UNCHANGED <<asked, granted, redeemed>>
  BY <1>13
<1> HIDE DEF asked, granted
<1> QED
  BY <1>3, <1>4, <1>5, <1>7, <1>8, <1>9, <1>10, <1>11, <1>12, <1>13
  DEF Next, Step, vars, Login, Age, Block

\* The server implements GrantAuthority: a code is one user's, of the browser that asked,
\* and is turned into tokens once, for the application and the client id that asked.
THEOREM Implementation == Spec => ImplementsGrants
<1>1. Init => Grants!Init
  BY DEF Init, Grants!Init
<1> QED
  BY <1>1, GrantStep, InvCorrect, PTL DEF Spec, ImplementsGrants, Grants!Spec

(* -------------------------- The sessions' table ------------------------- *)

(* ------------------------------ The invariant ---------------------------- *)
\* The name of a token's session, and of its family.
TableSessionOf(t) == IF minted[t].session = 0 THEN <<t, 1>> ELSE <<0, minted[t].session>>
TableFamilyOf(t) == <<-1, minted[t].family>>
TableNamesOf(t) == {TableSessionOf(t), TableFamilyOf(t)}

TableKin(t, u) ==
    /\ t \in DOMAIN minted /\ u \in DOMAIN minted
    /\ minted[t].session = minted[u].session /\ minted[t].family = minted[u].family
TableHeldKeys == {key \in Sessions!Keys : key[1] \in held}

\* What a call looks for, it looks for by a token of a client.
TableLooking(k) == k.at \in {"find", "legacy"}
TableRoutes == {"status", "sessions", "revoke", "others", "logout"}
TableLookupHolds(k) ==
    /\ k.at \notin {"idle", "find"} \/ k.op = "redeliver" => k.v[2] = 0
    /\ TableLooking(k) => k.op \in {"refresh", "redeliver"} \cup TableRoutes
    /\ TableLooking(k) /\ k.op # "redeliver" => k.v[1] \in held

\* A rotation works for the session of a token its client holds.
TableRotating(k) == k.op = "refresh" /\ k.at \in {"access", "pair", "stamp", "replace", "look", "answer"}
TableRotationHolds(k) ==
    /\ k.at \in {"stamp", "replace", "look"} => k.op = "refresh"
    /\ TableRotating(k) =>
          /\ k.key \in TableHeldKeys /\ minted[k.key[1]].kind = "refresh"
          /\ k.at # "access" => TableKin(k.access, k.key[1])
          /\ k.at \notin {"access", "pair"} => TableKin(k.refresh, k.key[1])
    /\ k.op = "redeliver" =>
          /\ k.at \in {"find", "legacy", "answer"} /\ k.key \in TableHeldKeys
          /\ TableKin(k.access, k.key[1]) /\ TableKin(k.refresh, k.key[1])

\* A login has a session of its own, whose tokens nobody has yet.
TableNames(t, id) == t \in DOMAIN minted /\ minted[t].session = id /\ minted[t].family = id
TableUnheld(id) == \A t \in DOMAIN minted : id \in {minted[t].session, minted[t].family} => t \notin held
TableLoginHolds(k) ==
    /\ k.op = "login" =>
          /\ k.at \in {"access", "pair", "answer"}
          /\ k.session[1] = 0 /\ k.session[2] > left["login"] /\ (k.fixed => setup.column)
          /\ TableUnheld(k.session[2])
          /\ k.at # "access" => TableNames(k.access, k.session[2])
          /\ k.at = "answer" => TableNames(k.refresh, k.session[2])
    /\ k.at = "answer" => k.op \in {"login", "refresh", "redeliver"}

\* A route knows its caller by the session of the token it found.
TableRouteHolds(k) ==
    /\ k.at \in {"touch", "touched", "route"} \/ (k.op \in {"sessions", "others"} /\ k.at \notin {"find", "legacy"})
       => k.key \in TableHeldKeys /\ k.session = TableSessionOf(k.key[1])
    /\ k.at = "delete" /\ k.op = "others" => k.key \notin k.work
    /\ k.at = "reply" => k.op = "sessions"

\* A revocation answers for sessions its clients have tokens of, and the rows it looks for
\* are theirs.
TableRevokes == {"revoke", "others", "logout", "theft", "revokeAll"}
TableClosingHolds(k) ==
    /\ \A e \in k.closes : \E t \in held : e \in TableNamesOf(t)
    /\ k.op \notin {"revoke", "others", "logout", "tokens", "revokeAll"} => k.closes = {}
    /\ k.at \in {"find", "legacy", "touch", "touched", "route"} => k.closes = {}
    /\ k.op \in {"revoke", "logout"} => k.closes \subseteq {k.session}
    /\ k.op = "others" => k.session \notin k.closes /\ \A e \in k.closes : e[1] >= 0
    /\ k.at = "list" => k.op \in {"sessions"} \cup TableRevokes
    /\ k.at = "done" => k.op \in TableRevokes
    /\ k.at = "purge" => k.op \in {"theft", "revokeAll"}
    /\ k.at = "delete" => k.op \in {"undo", "tokens"} \cup TableRevokes

\* A pair is inserted within a tick of the clock its request read.
TableClockHolds(k) ==
    k.op \in {"login", "refresh"} /\ k.at \in {"find", "legacy", "access", "pair"} => k.since = now

TableCallHolds(k) ==
    TableLookupHolds(k) /\ TableRotationHolds(k) /\ TableLoginHolds(k) /\ TableRouteHolds(k) /\ TableClosingHolds(k) /\ TableClockHolds(k)
TableCallsHold ==
    /\ \A c \in Requests : TableCallHolds(call[c])
    /\ \A c, d \in Requests : call[c].op = "login" /\ call[d].op = "login" /\ call[c].session = call[d].session
                          => c = d

\* Ids of sessions to come are no session's; ends are kept.
TableTokenHolds(row) ==
    /\ row.session \notin 1 .. left["login"] /\ row.family \notin 1 .. left["login"]
    /\ row.kind = "refresh" => row.until <= row.ceiling
    /\ row.fixed => setup.column
    /\ row.fixed \/ ~setup.sliding \/ row.ceiling >= RefreshTtl + MaxTime
TableTokensHold == \A t \in DOMAIN minted : TableTokenHolds(minted[t])

\* The tokens a client has or may be answered with.
TableDelivering(k, t) == (k.at = "answer" \/ k.op = "redeliver") /\ t \in {k.access, k.refresh}
TableHanded(t) ==
    \/ t \in held
    \/ \E key \in DOMAIN rows : t \in {rows[key].next[1], rows[key].next[2]}
    \/ \E c \in Requests : TableDelivering(call[c], t)

\* The sessions that ended, or that a revocation has found no row of.
TableClosed == ended \cup UNION {call[c].closes : c \in {d \in Requests : Sessions!At(d, "done")}}
TableOpen(t) == TableNamesOf(t) \cap TableClosed = {}

TableNextHolds(key, next) == next = <<0, 0>> \/ (key[1] \in held /\ TableKin(next[1], key[1]) /\ TableKin(next[2], key[1]))
TableRowsHold ==
    /\ \A key \in DOMAIN rows : TableNextHolds(key, rows[key].next)
    /\ \A e \in ended : \E t \in held : e \in TableNamesOf(t)
    /\ \A key \in DOMAIN rows : TableHanded(key[1]) => TableOpen(key[1])

TableInv == Sessions!TypeOK /\ TableCallsHold /\ TableTokensHold /\ TableRowsHold

(* ------------------------------- Lemmas ---------------------------------- *)
LEMMA TableIdleHolds == Sessions!Idle \in Sessions!CallState /\ Sessions!Idle.at = "idle" /\ Sessions!Idle.op = "none" /\ TableCallHolds(Sessions!Idle)
  BY DEF Sessions!Idle, Sessions!Nothing, Sessions!CallState, TableCallHolds, TableLookupHolds,
         TableLooking, TableRoutes, TableRotationHolds, TableRotating,
     TableLoginHolds, TableRouteHolds, TableClosingHolds, TableRevokes, TableClockHolds

\* The listings know a row by the session of its token, whether its key is the token or not.
LEMMA TableSessionKey ==
  ASSUME NEW key \in Sessions!Keys
  PROVE  Sessions!sessionKeyOf(key) = TableSessionOf(key[1]) /\ Sessions!OwnSession(key) = TableSessionOf(key[1])
  BY DEF Sessions!Keys, Sessions!sessionKeyOf, Sessions!OwnSession, Sessions!fingerprintOfKey,
         Sessions!Fingerprint, TableSessionOf

\* The table only answers to a token, and with its row.
LEMMA TableFoundByToken ==
  ASSUME NEW v \in Nat \X Nat, Sessions!keyOf(v) \in Sessions!Keys
  PROVE  v[2] = 0 /\ Sessions!keyOf(v)[1] = v[1]
  BY DEF Sessions!Keys, Sessions!keyOf, Sessions!Fingerprint

LEMMA TableKeyOfToken ==
  ASSUME NEW t \in DOMAIN minted
  PROVE  Sessions!keyOf(<<t, 0>>) \in Sessions!Keys /\ Sessions!keyOf(<<t, 0>>)[1] = t
  BY DEF Sessions!Keys, Sessions!keyOf, Sessions!Fingerprint

LEMMA TableKeyTypes ==
  ASSUME Sessions!TypeOK, NEW key \in Sessions!Keys
  PROVE  /\ key \in Nat \X Nat /\ key[1] \in DOMAIN minted /\ minted[key[1]] \in Sessions!TokenRow
         /\ TableSessionOf(key[1]) \in Nat \X Nat
<1>1. key \in Nat \X Nat /\ key[1] \in DOMAIN minted /\ minted[key[1]] \in Sessions!TokenRow
  BY DEF Sessions!TypeOK, Sessions!Keys
<1>2. key[1] \in Nat /\ minted[key[1]].session \in Nat
  BY <1>1 DEF Sessions!TokenRow
<1> QED BY <1>1, <1>2 DEF TableSessionOf

LEMMA TableClosedAreHeld ==
  ASSUME TableInv, NEW e \in TableClosed
  PROVE  \E t \in held : e \in TableNamesOf(t)
  BY DEF TableInv, TableRowsHold, TableCallsHold, TableCallHolds, TableClosingHolds, TableClosed

\* A pair made from a row in the table is of no session that ended.
LEMMA TableKinIsOpen ==
  ASSUME TableInv, NEW key \in DOMAIN rows, key[1] \in held, NEW t, TableKin(t, key[1])
  PROVE  TableHanded(t) \/ TableOpen(t)
<1> SUFFICES ASSUME t \notin held, NEW e \in TableNamesOf(t), e \in TableClosed PROVE FALSE
  BY DEF TableHanded, TableOpen
<1>1. TableOpen(key[1])
  BY DEF TableInv, TableRowsHold, TableHanded
<1>2. e # TableFamilyOf(t)
  BY <1>1 DEF TableKin, TableOpen, TableNamesOf, TableFamilyOf
<1>3. e = TableSessionOf(t) /\ minted[t].session = 0
  BY <1>1, <1>2 DEF TableKin, TableOpen, TableNamesOf, TableSessionOf
<1>4. PICK u \in held : e \in TableNamesOf(u)
  BY TableClosedAreHeld
<1>5. t \in Nat \ {0}
  BY DEF TableKin, TableInv, Sessions!TypeOK
<1> QED
  BY <1>3, <1>4, <1>5 DEF TableNamesOf, TableSessionOf, TableFamilyOf

(* ------------------- A call moves; the table only shrinks ------------------ *)
\* What a step that leaves the minted tokens and the clients' alone, or adds to them,
\* does not change.
TableGrows == /\ setup' = setup /\ held \subseteq held' /\ DOMAIN minted \subseteq DOMAIN minted'
              /\ \A t \in DOMAIN minted : minted'[t] = minted[t]

LEMMA TableNamesStay ==
  ASSUME Sessions!TypeOK, TableGrows
  PROVE  /\ Sessions!Keys \subseteq Sessions!Keys' /\ TableHeldKeys \subseteq TableHeldKeys'
         /\ \A t \in DOMAIN minted : TableNamesOf(t)' = TableNamesOf(t) /\ TableSessionOf(t)' = TableSessionOf(t)
         /\ \A t, u : TableKin(t, u) => TableKin(t, u)'
         /\ \A t, id : TableNames(t, id) => TableNames(t, id)'
<1>1. Sessions!Keys \subseteq Sessions!Keys' /\ TableHeldKeys \subseteq TableHeldKeys'
  BY DEF TableGrows, Sessions!Keys, TableHeldKeys, Sessions!Hashing
<1>2. \A t \in DOMAIN minted : TableSessionOf(t)' = TableSessionOf(t) /\ TableFamilyOf(t)' = TableFamilyOf(t)
  BY DEF TableGrows, TableSessionOf, TableFamilyOf
<1>3. \A t, u : TableKin(t, u) => TableKin(t, u)'
  BY DEF TableGrows, TableKin
<1>4. \A t, id : TableNames(t, id) => TableNames(t, id)'
  BY DEF TableGrows, TableNames
<1> QED BY <1>1, <1>2, <1>3, <1>4 DEF TableNamesOf

LEMMA TableCallStays ==
  ASSUME TableInv, TableGrows, NEW d \in Requests, call'[d] = call[d], now' = now,
         left' \in Sessions!Budget, left'["login"] <= left["login"],
         call[d].op = "login" => TableUnheld(call[d].session[2])'
  PROVE  TableCallHolds(call[d])'
<1>1. /\ TableCallHolds(call[d]) /\ call[d] \in Sessions!CallState
      /\ left["login"] \in Nat /\ left'["login"] \in Nat /\ held \subseteq DOMAIN minted
  BY DEF TableInv, TableCallsHold, Sessions!TypeOK, Sessions!Budget
<1>2. Sessions!TypeOK
  BY DEF TableInv
<1>3. TableLookupHolds(call[d])'
  BY <1>1 DEF TableCallHolds, TableLookupHolds, TableLooking, TableRoutes, TableGrows
<1>4. TableRotationHolds(call[d])'
  <2>1. call[d].key \in TableHeldKeys => minted'[call[d].key[1]] = minted[call[d].key[1]]
    BY DEF TableHeldKeys, Sessions!Keys, TableGrows
  <2> QED BY <1>1, <1>2, <2>1, TableNamesStay DEF TableCallHolds, TableRotationHolds, TableRotating
<1>5. TableLoginHolds(call[d])'
  <2>1. call[d].session[2] \in Nat
    BY <1>1 DEF Sessions!CallState
  <2> QED BY <1>1, <1>2, <2>1, TableNamesStay DEF TableCallHolds, TableLoginHolds, TableGrows
<1>6. TableRouteHolds(call[d])'
  <2>1. call[d].key \in TableHeldKeys => call[d].key[1] \in DOMAIN minted
    BY DEF TableHeldKeys, Sessions!Keys
  <2> QED BY <1>1, <1>2, <2>1, TableNamesStay DEF TableCallHolds, TableRouteHolds
<1>7. TableClosingHolds(call[d])'
  <2>1. \A e \in call[d].closes : \E t \in held' : e \in TableNamesOf(t)'
    BY <1>1, <1>2, TableNamesStay DEF TableCallHolds, TableClosingHolds, TableGrows
  <2> QED BY <1>1, <2>1 DEF TableCallHolds, TableClosingHolds, TableRevokes
<1>8. TableClockHolds(call[d])'
  BY <1>1 DEF TableCallHolds, TableClockHolds
<1> QED BY <1>3, <1>4, <1>5, <1>6, <1>7, <1>8 DEF TableCallHolds

\* A step that mints nothing, hands nothing out and adds no row keeps the invariant, if
\* what the call goes on with holds, and what it may now deliver, or the rows now name,
\* is of no session that ended.
LEMMA TableCallMoves ==
  ASSUME TableInv, NEW c \in Requests, NEW k \in Sessions!CallState, TableCallHolds(k),
         call' = [call EXCEPT ![c] = k],
         UNCHANGED <<setup, now, minted, held>>, left' \in Sessions!Budget,
         left'["login"] <= left["login"],
         k.op = "login" => call[c].op = "login" /\ k.session = call[c].session,
         \A t : TableDelivering(k, t) => TableHanded(t) \/ TableOpen(t),
         rows' \in [DOMAIN rows' -> Sessions!Row], DOMAIN rows' \subseteq DOMAIN rows,
         \A key \in DOMAIN rows' : \/ rows'[key] = rows[key]
                                   \/ /\ TableNextHolds(key, rows'[key].next)
                                      /\ \A t \in {rows'[key].next[1], rows'[key].next[2]} :
                                            TableHanded(t) \/ TableOpen(t),
         ended \subseteq ended', ended' \subseteq TableClosed,
         k.at = "done" => \A key \in DOMAIN rows' : TableNamesOf(key[1]) \cap k.closes = {}
  PROVE  TableInv'
<1>1. Sessions!TypeOK' /\ TableGrows /\ call'[c] = k /\ \A d \in Requests : d # c => call'[d] = call[d]
  <2>1. ended' \subseteq Int \X Nat
    <3>1. \A d \in Requests : call[d] \in Sessions!CallState
      BY DEF TableInv, Sessions!TypeOK
    <3>2. \A d \in Requests : call[d].closes \subseteq Int \X Nat
      BY <3>1 DEF Sessions!CallState
    <3> QED BY <3>2 DEF TableInv, Sessions!TypeOK, TableClosed
  <2>2. Sessions!Keys' = Sessions!Keys /\ TableGrows
    BY DEF Sessions!Keys, Sessions!Hashing, TableGrows
  <2> QED BY <2>1, <2>2 DEF TableInv, Sessions!TypeOK
<1>2. \A t : TableNamesOf(t)' = TableNamesOf(t)
  BY DEF TableNamesOf, TableSessionOf, TableFamilyOf
<1>3. TableCallsHold'
  <2>1. \A d \in Requests : d # c => TableCallHolds(call[d])'
    BY <1>1, TableCallStays DEF TableInv, TableCallsHold, TableCallHolds, TableLoginHolds,
                                TableUnheld
  <2>2. TableCallHolds(call[c])'
    <3>1. TableCallHolds(k)'
      <4>1. TableLookupHolds(k)' /\ TableRotationHolds(k)' /\ TableClosingHolds(k)' /\ TableClockHolds(k)'
        BY <1>2 DEF TableCallHolds, TableLookupHolds, TableLooking, TableRotationHolds,
                    TableRotating, TableClosingHolds, TableClockHolds,
           TableHeldKeys, Sessions!Keys, Sessions!Hashing, TableKin
      <4>2. TableRouteHolds(k)'
        BY DEF TableCallHolds, TableRouteHolds, TableHeldKeys, Sessions!Keys, Sessions!Hashing,
               TableSessionOf
      <4>3. k.session[2] \in Nat /\ left["login"] \in Nat /\ left'["login"] \in Nat
        BY DEF Sessions!CallState, TableInv, Sessions!TypeOK, Sessions!Budget
      <4>4. TableLoginHolds(k)'
        BY <4>3 DEF TableCallHolds, TableLoginHolds, TableNames, TableUnheld
      <4> QED BY <4>1, <4>2, <4>4 DEF TableCallHolds
    <3> QED BY <1>1, <3>1
  <2>3. \A d, e \in Requests : call'[d].op = "login" /\ call'[e].op = "login"
                           /\ call'[d].session = call'[e].session => d = e
    BY <1>1 DEF TableInv, TableCallsHold
  <2> QED BY <1>1, <2>1, <2>2, <2>3 DEF TableCallsHold
<1>4. TableTokensHold'
  <2>1. left["login"] \in Nat /\ left'["login"] \in Nat
    BY DEF TableInv, Sessions!TypeOK, Sessions!Budget
  <2> QED BY <2>1 DEF TableInv, TableTokensHold, TableTokenHolds
<1>5. \A t : TableHanded(t)' => TableHanded(t) \/ TableOpen(t)
  BY <1>1 DEF TableHanded, TableDelivering
<1>6. TableClosed' \subseteq TableClosed \cup (IF k.at = "done" THEN k.closes ELSE {})
  BY <1>1 DEF TableClosed, Sessions!At
<1>7. TableRowsHold'
  <2>1. \A key \in DOMAIN rows' : TableNextHolds(key, rows[key].next)'
    BY <1>1 DEF TableInv, TableRowsHold, TableNextHolds, TableKin
  <2>2. \A e \in ended' : \E t \in held' : e \in TableNamesOf(t)'
    BY <1>2, TableClosedAreHeld
  <2>3. \A key \in DOMAIN rows' : TableHanded(key[1])' => TableOpen(key[1])'
    BY <1>2, <1>5, <1>6 DEF TableInv, TableRowsHold, TableOpen
  <2> QED BY <2>1, <2>2, <2>3 DEF TableRowsHold
<1> QED BY <1>1, <1>3, <1>4, <1>7 DEF TableInv

(* ------------------------------ The requests ------------------------------ *)
LEMMA TableCallIs ==
  ASSUME TableInv, NEW c \in Requests
  PROVE  call[c] \in Sessions!CallState /\ TableCallHolds(call[c])
  BY DEF TableInv, Sessions!TypeOK, TableCallsHold

\* A step of a call that touches nothing else.
LEMMA TableCallOnly ==
  ASSUME TableInv, NEW c \in Requests, NEW k \in Sessions!CallState, TableCallHolds(k),
         call' = [call EXCEPT ![c] = k],
         UNCHANGED <<setup, now, minted, rows, held, ended>>,
         left' \in Sessions!Budget, left'["login"] <= left["login"],
         k.op # "login", k.at \notin {"answer", "done"}, k.op # "redeliver"
  PROVE  TableInv'
<1>1. /\ \A t : ~TableDelivering(k, t)
      /\ rows' \in [DOMAIN rows' -> Sessions!Row] /\ ended \subseteq TableClosed
  BY DEF TableDelivering, TableInv, Sessions!TypeOK, TableClosed
<1> QED BY <1>1, TableCallMoves

LEMMA TableSpendKeeps ==
  ASSUME Sessions!TypeOK,
         NEW kind \in {"login", "refresh", "status", "sessions", "revoke", "others", "logout",
                               "revokeAll", "fault"}, Sessions!Spend(kind)
  PROVE  left' \in Sessions!Budget /\ left'["login"] <= left["login"]
<1>1. left[kind] \in Nat /\ left[kind] > 0 /\ left' = [left EXCEPT ![kind] = left[kind] - 1]
  BY DEF Sessions!TypeOK, Sessions!Budget, Sessions!Spend
<1>2. left[kind] - 1 \in Nat
  BY <1>1
<1>3. left' \in Sessions!Budget
  BY <1>1, <1>2 DEF Sessions!TypeOK, Sessions!Budget
<1>4. left["login"] \in Nat
  BY DEF Sessions!TypeOK, Sessions!Budget
<1>5. left'["login"] = IF kind = "login" THEN left["login"] - 1 ELSE left["login"]
  BY <1>1 DEF Sessions!TypeOK, Sessions!Budget
<1> QED BY <1>3, <1>4, <1>5

LEMMA TableRequestStep ==
  ASSUME TableInv, NEW c \in Requests, NEW v \in Sessions!Presented,
         NEW op \in {"refresh", "status", "sessions", "revoke", "others", "logout"},
         Sessions!Request(c, v, op)
  PROVE  TableInv'
<1> DEFINE k == [Sessions!Idle EXCEPT !.at = "find", !.op = op, !.v = v, !.since = now]
<1>1. now \in Int /\ v \in Nat \X Nat /\ v[1] \in held
  BY DEF TableInv, Sessions!TypeOK, Sessions!Presented
<1>2. k \in Sessions!CallState /\ k.at = "find" /\ k.op = op
  BY <1>1 DEF Sessions!Idle, Sessions!Nothing, Sessions!CallState
<1>3. TableCallHolds(k)
  BY <1>1 DEF Sessions!Idle, Sessions!Nothing, TableCallHolds, TableLookupHolds, TableLooking,
              TableRoutes, TableRotationHolds, TableRotating,
     TableLoginHolds, TableRouteHolds, TableClosingHolds, TableRevokes, TableClockHolds
<1>4. left' \in Sessions!Budget /\ left'["login"] <= left["login"]
  BY TableSpendKeeps DEF TableInv, Sessions!Request
<1>5. call' = [call EXCEPT ![c] = k] /\ UNCHANGED <<setup, now, minted, rows, held, ended>>
  BY DEF Sessions!Request, Sessions!Becomes
<1> QED BY <1>2, <1>3, <1>4, <1>5, TableCallOnly

LEMMA TableStartLoginStep ==
  ASSUME TableInv, NEW c \in Requests, NEW fixed \in BOOLEAN, Sessions!StartLogin(c, fixed)
  PROVE  TableInv'
<1> DEFINE id == left["login"]
           k == [Sessions!Idle EXCEPT !.at = "access", !.op = "login", !.since = now, !.fixed = fixed,
                             !.session = <<0, id>>]
<1>1. /\ id \in Nat \ {0} /\ left' \in Sessions!Budget /\ left'["login"] = id - 1 /\ now \in Int
      /\ call' = [call EXCEPT ![c] = k] /\ UNCHANGED <<setup, now, minted, rows, held, ended>>
      /\ fixed => setup.column
  BY DEF TableInv, Sessions!TypeOK, Sessions!Budget, Sessions!StartLogin, Sessions!Spend,
         Sessions!Becomes, Sessions!checkMetadata
<1>2. k \in Sessions!CallState
  BY <1>1 DEF Sessions!Idle, Sessions!Nothing, Sessions!CallState
<1>3. Sessions!TypeOK' /\ TableGrows /\ call'[c] = k /\ \A d \in Requests : d # c => call'[d] = call[d]
  BY <1>1, <1>2 DEF TableInv, Sessions!TypeOK, Sessions!Keys, Sessions!Hashing, TableGrows
<1>4. \A t \in DOMAIN minted : minted[t].session # id /\ minted[t].family # id
  BY <1>1 DEF TableInv, TableTokensHold, TableTokenHolds
<1>5. TableCallHolds(call[c])'
  <2>1. /\ call'[c].at = "access" /\ call'[c].op = "login" /\ call'[c].session = <<0, id>>
        /\ call'[c].v = <<0, 0>> /\ call'[c].closes = {} /\ call'[c].since = now /\ call'[c].fixed = fixed
    BY <1>3 DEF Sessions!Idle, Sessions!Nothing
  <2>2. TableLoginHolds(call[c])'
    BY <1>1, <1>4, <2>1 DEF TableLoginHolds, TableUnheld
  <2>3. TableLookupHolds(call[c])' /\ TableRotationHolds(call[c])' /\ TableRouteHolds(call[c])' /\ TableClosingHolds(call[c])'
    BY <2>1 DEF TableLookupHolds, TableLooking, TableRotationHolds, TableRotating, TableRouteHolds,
                TableClosingHolds
  <2>4. TableClockHolds(call[c])'
    BY <1>1, <2>1 DEF TableClockHolds
  <2> QED BY <2>2, <2>3, <2>4 DEF TableCallHolds
<1>6. \A d \in Requests : d # c => TableCallHolds(call[d])'
  BY <1>1, <1>3, TableCallStays DEF TableInv, TableCallsHold, TableCallHolds, TableLoginHolds,
                                    TableUnheld
<1>7. \A d \in Requests : d # c /\ call[d].op = "login" => call[d].session # <<0, id>>
  BY <1>1 DEF TableInv, TableCallsHold, TableCallHolds, TableLoginHolds
<1>8. TableCallsHold'
  <2>1. call'[c].session = <<0, id>>
    BY <1>3 DEF Sessions!Idle
  <2>2. \A d, e \in Requests : call'[d].op = "login" /\ call'[e].op = "login"
                           /\ call'[d].session = call'[e].session => d = e
    <3>1. \A d \in Requests : d # c => call'[d] = call[d]
      BY <1>3
    <3> HIDE DEF k
    <3> QED BY <1>7, <2>1, <3>1 DEF TableInv, TableCallsHold
  <2>3. \A d \in Requests : TableCallHolds(call[d])'
    BY <1>5, <1>6
  <2> QED BY <2>2, <2>3 DEF TableCallsHold
<1>9. TableTokensHold'
  BY <1>1 DEF TableInv, TableTokensHold, TableTokenHolds
<1>10. \A t : TableNamesOf(t)' = TableNamesOf(t)
  BY <1>1 DEF TableNamesOf, TableSessionOf, TableFamilyOf
<1>11. \A t : TableHanded(t)' => TableHanded(t)
  BY <1>1, <1>3 DEF TableHanded, TableDelivering, Sessions!Idle
<1>12. TableClosed' \subseteq TableClosed
  BY <1>1, <1>3 DEF TableClosed, Sessions!At, Sessions!Idle
<1>13. TableRowsHold'
  <2>1. \A key \in DOMAIN rows' : TableNextHolds(key, rows[key].next)'
    BY <1>1 DEF TableInv, TableRowsHold, TableNextHolds, TableKin
  <2>2. \A e \in ended' : \E t \in held' : e \in TableNamesOf(t)'
    BY <1>1, <1>10 DEF TableInv, TableRowsHold
  <2>3. \A key \in DOMAIN rows' : TableHanded(key[1])' => TableOpen(key[1])'
    BY <1>1, <1>10, <1>11, <1>12 DEF TableInv, TableRowsHold, TableOpen
  <2> QED BY <2>1, <2>2, <2>3 DEF TableRowsHold
<1> QED BY <1>3, <1>8, <1>9, <1>13 DEF TableInv

LEMMA TableRevokeAllStep ==
  ASSUME TableInv, NEW c \in Requests, Sessions!RevokeAll(c)
  PROVE  TableInv'
<1> DEFINE names == Sessions!SessionsHeld \cup Sessions!Families(held)
           k == [Sessions!Idle EXCEPT !.at = "purge", !.op = "revokeAll", !.closes = names]
<1>1. \A e \in names : \E t \in held : e \in TableNamesOf(t)
  <2>1. \A t \in held : Sessions!sessionKeyOf(Sessions!keyOf(<<t, 0>>)) = TableSessionOf(t)
    BY TableSessionKey, TableKeyOfToken DEF TableInv, Sessions!TypeOK
  <2> QED BY <2>1 DEF Sessions!SessionsHeld, Sessions!Families, TableNamesOf, TableFamilyOf
<1>2. \A t \in held : TableNamesOf(t) \subseteq Int \X Nat
  <2>1. \A t \in held : minted[t] \in Sessions!TokenRow /\ t \in Nat
    BY DEF TableInv, Sessions!TypeOK
  <2> QED BY <2>1 DEF TableNamesOf, TableSessionOf, TableFamilyOf, Sessions!TokenRow
<1>3. names \in SUBSET (Int \X Nat)
  BY <1>1, <1>2
<1>4. call' = [call EXCEPT ![c] = k] /\ UNCHANGED <<setup, now, minted, rows, held, ended>>
  BY DEF Sessions!RevokeAll, Sessions!Becomes
<1>5. left' \in Sessions!Budget /\ left'["login"] <= left["login"]
  BY TableSpendKeeps DEF TableInv, Sessions!RevokeAll
<1> HIDE DEF names
<1>6. k \in Sessions!CallState
  <2>1. Sessions!Idle \in Sessions!CallState
    BY TableIdleHolds
  <2> QED BY <1>3, <2>1, ZenonT(60) DEF Sessions!CallState
<1>7. TableCallHolds(k)
  BY <1>1 DEF Sessions!Idle, Sessions!Nothing, TableCallHolds, TableLookupHolds, TableLooking,
              TableRoutes, TableRotationHolds, TableRotating,
     TableLoginHolds, TableRouteHolds, TableClosingHolds, TableRevokes, TableClockHolds
<1> QED BY <1>4, <1>5, <1>6, <1>7, TableCallOnly DEF Sessions!Idle

(* -------------------------------- The routes ------------------------------ *)
LEMMA TableRouteStep ==
  ASSUME TableInv, NEW c \in Requests,
         Sessions!Touch(c) \/ Sessions!TouchWrites(c) \/ Sessions!Status(c) \/ Sessions!ListRoute(c) \/ Sessions!RevokeRoute(c) \/ Sessions!OthersRoute(c)
         \/ Sessions!LogoutRoute(c)
  PROVE  TableInv'
<1> DEFINE o == call[c]
<1>1. /\ o \in Sessions!CallState /\ TableCallHolds(o) /\ left \in Sessions!Budget /\ left' = left /\ left["login"] \in Nat
      /\ UNCHANGED <<setup, now, minted, rows, held, ended>> /\ o.at \in {"touch", "touched", "route"}
  BY TableCallIs DEF TableInv, Sessions!TypeOK, Sessions!Budget, Sessions!Touch,
                     Sessions!TouchWrites, Sessions!Status, Sessions!ListRoute,
                     Sessions!RevokeRoute, Sessions!OthersRoute, Sessions!LogoutRoute, Sessions!At
<1>2. /\ o.key \in TableHeldKeys /\ o.session = TableSessionOf(o.key[1]) /\ o.v[2] = 0 /\ o.closes = {}
      /\ o.op \notin {"login", "redeliver"}
  BY <1>1 DEF TableCallHolds, TableRouteHolds, TableLookupHolds, TableClosingHolds, TableLoginHolds,
              TableRotationHolds
<1>3. ASSUME NEW k \in Sessions!CallState, TableCallHolds(k), call' = [call EXCEPT ![c] = k],
             k.at \notin {"answer", "done"}, k.op \notin {"login", "redeliver"}
      PROVE  TableInv'
  <2>1. left' \in Sessions!Budget /\ left'["login"] <= left["login"]
    BY <1>1
  <2> QED BY <1>1, <1>3, <2>1, TableCallOnly
<1>4. Sessions!SessionsHeld = {TableSessionOf(t) : t \in held}
  <2>1. \A t \in held : Sessions!sessionKeyOf(Sessions!keyOf(<<t, 0>>)) = TableSessionOf(t)
    BY TableSessionKey, TableKeyOfToken DEF TableInv, Sessions!TypeOK
  <2> QED BY <2>1 DEF Sessions!SessionsHeld
<1>5. \A t \in held : TableSessionOf(t) \in Nat \X Nat
  <2>1. \A t \in held : minted[t] \in Sessions!TokenRow /\ t \in Nat
    BY DEF TableInv, Sessions!TypeOK
  <2> QED BY <2>1 DEF TableSessionOf, Sessions!TokenRow
<1>6. ASSUME NEW step \in {"touched", "route"}, Sessions!GoTo(c, step) PROVE TableInv'
  <2> DEFINE k == [o EXCEPT !.at = step]
  <2>1. k \in Sessions!CallState /\ k.at = step
    BY <1>1 DEF Sessions!CallState
  <2>2. TableCallHolds(k)
    BY <1>1, <1>2 DEF Sessions!CallState, TableCallHolds, TableLookupHolds, TableLooking,
                      TableRotationHolds, TableRotating, TableLoginHolds, TableRouteHolds,
       TableClosingHolds, TableClockHolds
  <2>3. k.op \notin {"login", "redeliver"} /\ call' = [call EXCEPT ![c] = k]
    BY <1>1, <1>2, <1>6 DEF Sessions!CallState, Sessions!GoTo, Sessions!Becomes
  <2> QED BY <1>3, <2>1, <2>2, <2>3
<1>7. CASE Sessions!Touch(c) \/ Sessions!TouchWrites(c)
  BY <1>6, <1>7 DEF Sessions!Touch, Sessions!TouchWrites
<1>8. CASE Sessions!Status(c)
  BY <1>3, <1>8, TableIdleHolds DEF Sessions!Status, Sessions!End, Sessions!Becomes
<1>9. CASE Sessions!ListRoute(c)
  <2> DEFINE k == [o EXCEPT !.at = "list"]
  <2>1. k \in Sessions!CallState /\ k.at = "list" /\ k.op = "sessions" /\ call' = [call EXCEPT ![c] = k]
    BY <1>1, <1>9 DEF Sessions!CallState, Sessions!ListRoute, Sessions!GoTo, Sessions!Becomes
  <2>2. TableCallHolds(k)
    BY <1>1, <1>2, <2>1 DEF Sessions!CallState, TableCallHolds, TableLookupHolds, TableLooking,
                            TableRotationHolds, TableRotating, TableLoginHolds,
       TableRouteHolds, TableClosingHolds, TableClockHolds
  <2> QED BY <1>3, <2>1, <2>2
<1>10. CASE Sessions!RevokeRoute(c)
  <2>1. PICK t \in held :
           call' = [call EXCEPT ![c] = [o EXCEPT !.at = "list", !.session = TableSessionOf(t), !.closes = {TableSessionOf(t)}]]
    BY <1>4, <1>10 DEF Sessions!RevokeRoute, Sessions!Becomes
  <2> DEFINE s == TableSessionOf(t)
             k == [o EXCEPT !.at = "list", !.session = s, !.closes = {s}]
  <2>2. s \in Nat \X Nat /\ {s} \in SUBSET (Int \X Nat) /\ s \in TableNamesOf(t)
    BY <1>5 DEF TableNamesOf
  <2>5. o.op = "revoke"
    BY <1>10 DEF Sessions!RevokeRoute
  <2>3. call' = [call EXCEPT ![c] = k]
    BY <2>1
  <2> HIDE DEF s
  <2>4. k \in Sessions!CallState /\ k.at = "list" /\ k.op = "revoke" /\ k.session = s /\ k.closes = {s} /\ k.v = o.v
    BY <1>1, <2>2, <2>5, ZenonT(60) DEF Sessions!CallState
  <2>6. TableCallHolds(k)
    BY <1>1, <1>2, <2>2, <2>4 DEF TableCallHolds, TableLookupHolds, TableLooking,
                                  TableRotationHolds, TableRotating, TableLoginHolds,
       TableRouteHolds, TableClosingHolds, TableRevokes, TableClockHolds
  <2> QED BY <1>3, <2>3, <2>4, <2>6
<1>11. CASE Sessions!OthersRoute(c)
  <2> DEFINE ss == Sessions!SessionsHeld \ {o.session}
             k == [o EXCEPT !.at = "list", !.closes = ss]
  <2>1. /\ ss \in SUBSET (Int \X Nat) /\ o.session \notin ss /\ \A e \in ss : e[1] >= 0
        /\ \A e \in ss : \E t \in held : e \in TableNamesOf(t)
    BY <1>4, <1>5 DEF TableNamesOf
  <2>2. call' = [call EXCEPT ![c] = k] /\ o.op = "others"
    BY <1>11 DEF Sessions!OthersRoute, Sessions!Becomes
  <2> HIDE DEF ss
  <2>4. /\ k \in Sessions!CallState /\ k.at = "list" /\ k.op = "others" /\ k.session = o.session /\ k.closes = ss
        /\ k.v = o.v /\ k.key = o.key
    BY <1>1, <2>1, <2>2, ZenonT(60) DEF Sessions!CallState
  <2>5. TableCallHolds(k)
    BY <1>1, <1>2, <2>1, <2>4 DEF TableCallHolds, TableLookupHolds, TableLooking,
                                  TableRotationHolds, TableRotating, TableLoginHolds,
       TableRouteHolds, TableClosingHolds, TableRevokes, TableClockHolds
  <2> QED BY <1>3, <2>2, <2>4, <2>5
<1>12. CASE Sessions!LogoutRoute(c)
  <2>1. PICK body \in {0} \cup {t \in held : minted[t].kind = "refresh"} :
           call' = [call EXCEPT ![c] = [o EXCEPT !.at = "list", !.body = body, !.closes = {o.session}]]
    BY <1>12 DEF Sessions!LogoutRoute, Sessions!Becomes
  <2> DEFINE k == [o EXCEPT !.at = "list", !.body = body, !.closes = {o.session}]
  <2>2. body \in Nat /\ o.op = "logout"
    <3>1. held \subseteq Nat
      BY DEF TableInv, Sessions!TypeOK
    <3>2. o.op = "logout"
      BY <1>12 DEF Sessions!LogoutRoute
    <3> QED BY <3>1, <3>2
  <2>3. o.key[1] \in held /\ o.session \in TableNamesOf(o.key[1]) /\ {o.session} \in SUBSET (Int \X Nat)
    BY <1>2, <1>5 DEF TableNamesOf, TableHeldKeys
  <2>4. /\ k \in Sessions!CallState /\ k.at = "list" /\ k.op = "logout" /\ k.session = o.session
        /\ k.closes = {o.session} /\ k.v = o.v
    BY <1>1, <2>2, <2>3, ZenonT(60) DEF Sessions!CallState
  <2>5. TableCallHolds(k)
    BY <1>1, <1>2, <2>2, <2>3, <2>4 DEF TableCallHolds, TableLookupHolds, TableLooking,
                                        TableRotationHolds, TableRotating, TableLoginHolds,
       TableRouteHolds, TableClosingHolds, TableRevokes, TableClockHolds
  <2> QED BY <1>3, <2>1, <2>4, <2>5
<1> QED BY <1>7, <1>8, <1>9, <1>10, <1>11, <1>12

(* -------------------------------- Sweeps --------------------------------- *)
LEMMA TableShrunk ==
  ASSUME TableInv, NEW S \in SUBSET DOMAIN rows, rows' = Sessions!Restrict(rows, S)
  PROVE  /\ rows' \in [DOMAIN rows' -> Sessions!Row] /\ DOMAIN rows' = S
         /\ \A key \in DOMAIN rows' : rows'[key] = rows[key]
  BY DEF TableInv, Sessions!TypeOK, Sessions!Restrict

\* A step that only takes rows away, of a call that goes on deleting, or ends.
LEMMA TableCallSweeps ==
  ASSUME TableInv, NEW c \in Requests, NEW k \in Sessions!CallState, TableCallHolds(k),
         call' = [call EXCEPT ![c] = k],
         UNCHANGED <<setup, now, minted, held, ended>>,
         NEW S \in SUBSET DOMAIN rows, rows' = Sessions!Restrict(rows, S),
         left' \in Sessions!Budget, left'["login"] <= left["login"],
         k.op \notin {"login", "redeliver"}, k.at # "answer",
         k.at = "done" => \A key \in S : TableNamesOf(key[1]) \cap k.closes = {}
  PROVE  TableInv'
<1>1. (\A t : ~TableDelivering(k, t)) /\ ended \subseteq TableClosed
  BY DEF TableDelivering, TableClosed
<1>2. /\ rows' \in [DOMAIN rows' -> Sessions!Row] /\ DOMAIN rows' = S
      /\ \A key \in DOMAIN rows' : rows'[key] = rows[key]
  BY TableShrunk
<1> QED BY <1>1, <1>2, TableCallMoves

LEMMA TableSweepStep ==
  ASSUME TableInv, NEW c \in Requests,
         Sessions!Reply(c) \/ Sessions!Delete(c) \/ Sessions!Deleted(c) \/ Sessions!Purge(c) \/ Sessions!Fail(c)
  PROVE  TableInv'
<1> DEFINE o == call[c]
<1>1. /\ o \in Sessions!CallState /\ TableCallHolds(o) /\ left \in Sessions!Budget /\ left["login"] \in Nat
      /\ left' \in Sessions!Budget /\ left'["login"] <= left["login"]
      /\ UNCHANGED <<setup, now, minted, held, ended>>
  <2>1. left' \in Sessions!Budget /\ left'["login"] <= left["login"]
    BY TableSpendKeeps DEF TableInv, Sessions!TypeOK, Sessions!Budget, Sessions!Reply,
                           Sessions!Delete, Sessions!Deleted, Sessions!Purge, Sessions!Fail
  <2> QED BY <2>1, TableCallIs DEF TableInv, Sessions!TypeOK, Sessions!Budget, Sessions!Reply,
                                   Sessions!Delete, Sessions!Deleted, Sessions!Purge, Sessions!Fail
<1>2. ASSUME NEW k \in Sessions!CallState, TableCallHolds(k), call' = [call EXCEPT ![c] = k],
             NEW S \in SUBSET DOMAIN rows, rows' = Sessions!Restrict(rows, S),
             k.at \notin {"answer", "done"}, k.op \notin {"login", "redeliver"}
      PROVE  TableInv'
  BY <1>1, <1>2, TableCallSweeps
<1>3. rows = Sessions!Restrict(rows, DOMAIN rows)
  BY DEF TableInv, Sessions!TypeOK, Sessions!Restrict
<1>4. ASSUME Sessions!End(c), NEW S \in SUBSET DOMAIN rows,
             rows' = Sessions!Restrict(rows, S) PROVE TableInv'
  BY <1>2, <1>4, TableIdleHolds DEF Sessions!End, Sessions!Becomes
<1>5. ASSUME NEW step \in {"failed", "list"}, Sessions!GoTo(c, step), rows' = rows,
             o.at \in {"list", "delete"}, o.op \in TableRevokes
      PROVE  TableInv'
  <2> DEFINE k == [o EXCEPT !.at = step]
  <2>1. k \in Sessions!CallState /\ k.at = step /\ k.op = o.op /\ k.key = o.key /\ k.session = o.session
        /\ k.closes = o.closes /\ k.v = o.v /\ call' = [call EXCEPT ![c] = k]
    BY <1>1, <1>5 DEF Sessions!CallState, Sessions!GoTo, Sessions!Becomes
  <2>2. TableCallHolds(k)
    BY <1>1, <1>5, <2>1 DEF TableCallHolds, TableLookupHolds, TableLooking, TableRotationHolds,
                            TableRotating, TableLoginHolds,
       TableRouteHolds, TableClosingHolds, TableRevokes, TableClockHolds
  <2> QED BY <1>2, <1>3, <1>5, <2>1, <2>2 DEF TableRevokes
<1>6. CASE Sessions!Reply(c)
  BY <1>3, <1>4, <1>6 DEF Sessions!Reply
<1>7. CASE Sessions!Fail(c)
  <2>1. CASE Sessions!End(c)
    BY <1>3, <1>4, <1>7, <2>1 DEF Sessions!Fail
  <2>2. CASE o.op = "logout" /\ o.at \in {"list", "delete"} /\ Sessions!GoTo(c, "failed")
    BY <1>5, <1>7, <2>2 DEF Sessions!Fail, TableRevokes
  <2> QED BY <1>7, <2>1, <2>2 DEF Sessions!Fail
<1>8. CASE Sessions!Deleted(c)
  <2>1. o.at = "delete" /\ rows' = rows /\ o.op \in {"undo", "tokens"} \cup TableRevokes
    BY <1>1, <1>8 DEF Sessions!Deleted, Sessions!At, TableCallHolds, TableClosingHolds
  <2> QED BY <1>3, <1>4, <1>5, <1>8, <2>1 DEF Sessions!Deleted
<1>9. CASE Sessions!Delete(c)
  <2>1. PICK key \in o.work : /\ rows' = Sessions!Restrict(rows, DOMAIN rows \ {key})
                              /\ call' = [call EXCEPT ![c] = [o EXCEPT !.work = @ \ {key}]]
    BY <1>9 DEF Sessions!Delete, Sessions!Without, Sessions!Becomes
  <2> DEFINE k == [o EXCEPT !.work = @ \ {key}]
  <2>2. /\ k \in Sessions!CallState /\ k.at = "delete" /\ k.op = o.op /\ k.key = o.key /\ k.session = o.session
        /\ k.closes = o.closes /\ k.v = o.v /\ k.work \subseteq o.work /\ o.at = "delete"
    BY <1>1, <1>9 DEF Sessions!CallState, Sessions!Delete, Sessions!At
  <2>3. TableCallHolds(k) /\ k.op \notin {"login", "redeliver"}
    BY <1>1, <2>2 DEF TableCallHolds, TableLookupHolds, TableLooking, TableRotationHolds,
                      TableRotating, TableLoginHolds,
       TableRouteHolds, TableClosingHolds, TableRevokes, TableClockHolds
  <2> QED BY <1>2, <2>1, <2>2, <2>3
<1>10. CASE Sessions!Purge(c)
  <2>1. rows' = Sessions!Restrict(rows, {}) /\ {} \in SUBSET DOMAIN rows
    BY <1>10 DEF Sessions!Purge, Sessions!Restrict
  <2>2. CASE call' = [call EXCEPT ![c] = Sessions!Idle]
    BY <1>2, <2>1, <2>2, TableIdleHolds
  <2>3. CASE call' = [call EXCEPT ![c] = [o EXCEPT !.at = "list"]]
    <3> DEFINE k == [o EXCEPT !.at = "list"]
    <3>3. o.at = "purge" /\ o.op \in {"theft", "revokeAll"}
      BY <1>1, <1>10 DEF Sessions!Purge, Sessions!At, TableCallHolds, TableClosingHolds
    <3>1. /\ k \in Sessions!CallState /\ k.at = "list" /\ k.op = o.op /\ k.key = o.key /\ k.session = o.session
          /\ k.closes = o.closes /\ k.v = o.v /\ o.at = "purge" /\ o.op \in {"theft", "revokeAll"}
      BY <1>1, <3>3 DEF Sessions!CallState
    <3>2. TableCallHolds(k)
      BY <1>1, <3>1 DEF TableCallHolds, TableLookupHolds, TableLooking, TableRotationHolds,
                        TableRotating, TableLoginHolds,
         TableRouteHolds, TableClosingHolds, TableRevokes, TableClockHolds
    <3> QED BY <1>2, <2>1, <2>3, <3>1, <3>2
  <2> QED BY <1>10, <2>2, <2>3 DEF Sessions!Purge, Sessions!Becomes
<1> QED BY <1>6, <1>7, <1>8, <1>9, <1>10

\* A listing that finds nothing: no row is of the sessions the revocation answers for.
LEMMA TableNothingFound ==
  ASSUME TableInv, NEW c \in Requests, Sessions!At(c, "list"), call[c].op # "sessions",
         {key \in Sessions!Listed : Sessions!Matches(c, key)} = {}
  PROVE  call[c].op \in TableRevokes /\ \A key \in Sessions!Listed : TableNamesOf(key[1]) \cap call[c].closes = {}
<1> DEFINE o == call[c]
<1>1. o \in Sessions!CallState /\ TableCallHolds(o) /\ o.op \in TableRevokes
  BY TableCallIs DEF Sessions!At, TableCallHolds, TableClosingHolds
<1> SUFFICES ASSUME NEW key \in Sessions!Listed, NEW e \in o.closes,
                    e \in TableNamesOf(key[1]) PROVE FALSE
  BY <1>1
<1>2. key \in Sessions!Keys /\ TableSessionOf(key[1]) \in Nat \X Nat /\ Sessions!sessionKeyOf(key) = TableSessionOf(key[1])
  BY TableKeyTypes, TableSessionKey DEF TableInv, Sessions!TypeOK, Sessions!Listed
<1>3. ~Sessions!Matches(c, key)
  OBVIOUS
<1>4. o.op # "revokeAll" /\ o.op # "theft"
  BY <1>1, <1>3 DEF Sessions!Matches, Sessions!Purging, TableCallHolds, TableClosingHolds
<1>5. e = TableSessionOf(key[1]) \/ e = TableFamilyOf(key[1])
  BY DEF TableNamesOf
<1>6. CASE o.op = "others"
  <2>1. Sessions!sessionKeyOf(key) = o.session /\ o.session \notin o.closes /\ e[1] >= 0
    BY <1>1, <1>3, <1>6 DEF Sessions!Matches, Sessions!Purging, TableCallHolds, TableClosingHolds
  <2> QED BY <1>2, <1>5, <2>1 DEF TableFamilyOf
<1>7. CASE o.op \in {"revoke", "logout"}
  <2>1. e = o.session /\ Sessions!sessionKeyOf(key) # o.session /\ o.session \in Nat \X Nat
    BY <1>1, <1>3, <1>7 DEF Sessions!Matches, Sessions!Purging, TableCallHolds, TableClosingHolds,
                            Sessions!CallState
  <2> QED BY <1>2, <1>5, <2>1 DEF TableFamilyOf
<1> QED BY <1>1, <1>4, <1>6, <1>7 DEF TableRevokes

LEMMA TableListStep ==
  ASSUME TableInv, NEW c \in Requests, Sessions!List(c)
  PROVE  TableInv'
<1> DEFINE o == call[c]
           found == IF o.op = "sessions" THEN Sessions!Listed ELSE {key \in Sessions!Listed : Sessions!Matches(c, key)}
<1>1. /\ o \in Sessions!CallState /\ TableCallHolds(o) /\ left \in Sessions!Budget /\ left["login"] \in Nat /\ left' = left
      /\ UNCHANGED <<setup, now, minted, held, ended>> /\ rows' = Sessions!Restrict(rows, Sessions!Listed)
      /\ Sessions!Listed \in SUBSET DOMAIN rows /\ o.at = "list"
  BY TableCallIs DEF TableInv, Sessions!TypeOK, Sessions!Budget, Sessions!List, Sessions!Listed,
                     Sessions!At
<1>2. o.op \in {"sessions"} \cup TableRevokes /\ o.v[2] = 0
  BY <1>1 DEF TableCallHolds, TableClosingHolds, TableLookupHolds
<1>3. found \in SUBSET (Nat \X Nat)
  BY <1>1, TableKeyTypes DEF TableInv, Sessions!TypeOK
<1>4. ASSUME NEW k \in Sessions!CallState, TableCallHolds(k), call' = [call EXCEPT ![c] = k],
             k.op \notin {"login", "redeliver"}, k.at # "answer",
             k.at = "done" => \A key \in Sessions!Listed : TableNamesOf(key[1]) \cap k.closes = {}
      PROVE  TableInv'
  <2>1. left' \in Sessions!Budget /\ left'["login"] <= left["login"]
    BY <1>1
  <2> QED BY <1>1, <1>4, <2>1, TableCallSweeps
<1>5. CASE o.op = "sessions"
  <2> DEFINE k == [o EXCEPT !.at = "reply", !.work = found]
  <2>1. call' = [call EXCEPT ![c] = k]
    BY <1>5 DEF Sessions!List, Sessions!Becomes
  <2> HIDE DEF found
  <2>4. k \in Sessions!CallState
    BY <1>1, <1>3, ZenonT(60) DEF Sessions!CallState
  <2>2. /\ k \in Sessions!CallState /\ k.at = "reply" /\ k.op = "sessions" /\ k.key = o.key /\ k.session = o.session
        /\ k.closes = o.closes /\ k.v = o.v
    BY <1>1, <1>5, <2>4 DEF Sessions!CallState
  <2>3. TableCallHolds(k)
    BY <1>1, <2>2 DEF TableCallHolds, TableLookupHolds, TableLooking, TableRotationHolds,
                      TableRotating, TableLoginHolds,
       TableRouteHolds, TableClosingHolds, TableRevokes, TableClockHolds
  <2> QED BY <1>4, <2>1, <2>2, <2>3
<1>6. CASE o.op # "sessions" /\ found = {}
  <2> DEFINE k == [o EXCEPT !.at = "done"]
  <2>1. call' = [call EXCEPT ![c] = k]
    BY <1>6 DEF Sessions!List, Sessions!GoTo, Sessions!Becomes
  <2>2. o.op \in TableRevokes /\ \A key \in Sessions!Listed : TableNamesOf(key[1]) \cap o.closes = {}
    BY <1>1, <1>6, TableNothingFound DEF Sessions!At
  <2>3. /\ k \in Sessions!CallState /\ k.at = "done" /\ k.op = o.op /\ k.key = o.key /\ k.session = o.session
        /\ k.closes = o.closes /\ k.v = o.v
    BY <1>1 DEF Sessions!CallState
  <2>4. TableCallHolds(k)
    BY <1>1, <2>2, <2>3 DEF TableCallHolds, TableLookupHolds, TableLooking, TableRotationHolds,
                            TableRotating, TableLoginHolds,
       TableRouteHolds, TableClosingHolds, TableRevokes, TableClockHolds
  <2> QED BY <1>4, <2>1, <2>2, <2>3, <2>4 DEF TableRevokes
<1>7. CASE o.op # "sessions" /\ found # {}
  <2> DEFINE step == IF Sessions!Purging(c) THEN "purge" ELSE "delete"
             k == [o EXCEPT !.at = step, !.pass = @ + 1, !.work = found]
  <2>1. call' = [call EXCEPT ![c] = k]
    BY <1>7 DEF Sessions!List, Sessions!Becomes
  <2>2. o.op = "others" => o.key \notin found
    <3> SUFFICES ASSUME o.op = "others", o.key \in found PROVE FALSE
      OBVIOUS
    <3>1. o.key \in TableHeldKeys /\ o.session = TableSessionOf(o.key[1])
      BY <1>1 DEF TableCallHolds, TableRouteHolds
    <3>2. Sessions!sessionKeyOf(o.key) = o.session
      BY <3>1, TableSessionKey DEF TableHeldKeys
    <3>3. Sessions!Matches(c, o.key)
      BY <1>7
    <3> QED BY <3>2, <3>3 DEF Sessions!Matches, Sessions!Purging
  <2>3. step \in {"purge", "delete"} /\ (step = "purge" => o.op \in {"theft", "revokeAll"})
    BY DEF Sessions!Purging
  <2> HIDE DEF found, step
  <2>4. o.pass + 1 \in Nat
    BY <1>1 DEF Sessions!CallState
  <2>5. /\ k \in Sessions!CallState /\ k.at = step /\ k.op = o.op /\ k.key = o.key /\ k.session = o.session
        /\ k.closes = o.closes /\ k.v = o.v /\ k.work = found
    <3>1. k \in Sessions!CallState
      BY <1>1, <1>3, <2>3, <2>4, ZenonT(60) DEF Sessions!CallState
    <3> QED BY <1>1, <3>1 DEF Sessions!CallState
  <2>6. TableCallHolds(k)
    BY <1>1, <1>2, <1>7, <2>2, <2>3, <2>5 DEF TableCallHolds, TableLookupHolds, TableLooking,
                                              TableRotationHolds, TableRotating, TableLoginHolds,
       TableRouteHolds, TableClosingHolds, TableRevokes, TableClockHolds
  <2> QED BY <1>2, <1>4, <1>7, <2>1, <2>3, <2>5, <2>6 DEF TableRevokes
<1> QED BY <1>5, <1>6, <1>7

\* A revocation returns, or gave up.
LEMMA TableEndStep ==
  ASSUME TableInv, NEW c \in Requests, Sessions!Done(c) \/ Sessions!GaveUp(c)
  PROVE  TableInv'
<1> DEFINE o == call[c]
<1>1. /\ o \in Sessions!CallState /\ TableCallHolds(o) /\ left \in Sessions!Budget /\ left["login"] \in Nat /\ left' = left
      /\ UNCHANGED <<setup, now, minted, rows, held>> /\ o.at \in {"done", "failed"}
      /\ ended \subseteq ended' /\ ended' \subseteq TableClosed
  BY TableCallIs DEF TableInv, Sessions!TypeOK, Sessions!Budget, Sessions!Done, Sessions!GaveUp,
                     Sessions!At, TableClosed
<1>2. ASSUME NEW k \in Sessions!CallState, TableCallHolds(k), call' = [call EXCEPT ![c] = k],
             k.op \notin {"login", "redeliver"}, k.at \notin {"answer", "done"}
      PROVE  TableInv'
  <2>1. /\ \A t : ~TableDelivering(k, t)
        /\ rows' \in [DOMAIN rows' -> Sessions!Row] /\ left' \in Sessions!Budget /\ left'["login"] <= left["login"]
    BY <1>1, <1>2 DEF TableDelivering, TableInv, Sessions!TypeOK
  <2> QED BY <1>1, <1>2, <2>1, TableCallMoves
<1>3. CASE Sessions!End(c)
  BY <1>2, <1>3, TableIdleHolds DEF Sessions!End, Sessions!Becomes
<1>4. CASE o.op = "logout" /\ Sessions!Fallback(c)
  <2> DEFINE work == Sessions!KeysOf(o.v) \cup IF o.body = 0 THEN {} ELSE Sessions!KeysOf(<<o.body, 0>>)
             k == [o EXCEPT !.at = "delete", !.op = "tokens", !.work = work]
  <2>1. call' = [call EXCEPT ![c] = k]
    BY <1>4 DEF Sessions!Fallback, Sessions!Becomes
  <2>2. \A v \in Nat \X Nat : Sessions!KeysOf(v) \subseteq Nat \X Nat
    BY DEF Sessions!KeysOf, Sessions!keyOf, Sessions!Fingerprint
  <2>3. o.v \in Nat \X Nat /\ o.body \in Nat /\ o.v[2] = 0
    BY <1>1 DEF Sessions!CallState, TableCallHolds, TableLookupHolds
  <2>4. work \in SUBSET (Nat \X Nat)
    BY <2>2, <2>3
  <2> HIDE DEF work
  <2>5. /\ k \in Sessions!CallState /\ k.at = "delete" /\ k.op = "tokens" /\ k.closes = o.closes /\ k.v = o.v
    <3>1. k \in Sessions!CallState
      BY <1>1, <2>4, ZenonT(60) DEF Sessions!CallState
    <3> QED BY <1>1, <3>1 DEF Sessions!CallState
  <2>6. TableCallHolds(k)
    BY <1>1, <2>3, <2>5 DEF TableCallHolds, TableLookupHolds, TableLooking, TableRotationHolds,
                            TableRotating, TableLoginHolds,
       TableRouteHolds, TableClosingHolds, TableRevokes, TableClockHolds
  <2> QED BY <1>2, <2>1, <2>5, <2>6
<1> QED BY <1>3, <1>4 DEF Sessions!Done, Sessions!GaveUp

(* -------------------------------- Lookups -------------------------------- *)
\* What a step of a lookup leaves alone.
TableLookup(c) == TableLooking(call[c]) /\ UNCHANGED <<setup, now, minted, held, left, ended>>

LEMMA TableLookupIs ==
  ASSUME TableInv, NEW c \in Requests, TableLookup(c)
  PROVE  /\ call[c] \in Sessions!CallState /\ TableCallHolds(call[c]) /\ call[c].closes = {}
         /\ left' \in Sessions!Budget /\ left'["login"] <= left["login"]
         /\ call[c].op \in {"refresh", "redeliver"} \cup TableRoutes
<1>1. left \in Sessions!Budget /\ left["login"] \in Nat /\ left' = left
  BY DEF TableInv, Sessions!TypeOK, Sessions!Budget, TableLookup
<1> QED BY <1>1, TableCallIs DEF TableLookup, TableCallHolds, TableLookupHolds, TableClosingHolds,
                                 TableLooking

LEMMA TableLookupEnds ==
  ASSUME TableInv, NEW c \in Requests, TableLookup(c), NEW S \in SUBSET DOMAIN rows,
         rows' = Sessions!Restrict(rows, S), Sessions!End(c)
  PROVE  TableInv'
  BY TableLookupIs, TableCallSweeps, TableIdleHolds DEF TableLookup, Sessions!End, Sessions!Becomes

LEMMA TableTheftIsACall ==
  ASSUME NEW r \in Sessions!CallState, NEW s \in Nat \X Nat, NEW key \in Nat \X Nat,
         NEW step \in {"purge", "list"}
  PROVE  [r EXCEPT !.at = step, !.op = "theft", !.session = s, !.key = key] \in Sessions!CallState
<1>1. [r EXCEPT !.at = "purge", !.op = "theft", !.session = s, !.key = key] \in Sessions!CallState
  BY ZenonT(60) DEF Sessions!CallState
<1>2. [r EXCEPT !.at = "list", !.op = "theft", !.session = s, !.key = key] \in Sessions!CallState
  BY ZenonT(60) DEF Sessions!CallState
<1> QED BY <1>1, <1>2

LEMMA TableTheftStep ==
  ASSUME TableInv, NEW c \in Requests, TableLookup(c), call[c].v[2] = 0, NEW key \in Sessions!Keys,
         NEW S \in SUBSET DOMAIN rows, rows' = Sessions!Restrict(rows, S), Sessions!Theft(c, key)
  PROVE  TableInv'
<1> DEFINE o == call[c]
           s == Sessions!sessionKeyOf(key)
           step == IF minted[key[1]].session = 0 THEN "purge" ELSE "list"
           k == [o EXCEPT !.at = step, !.op = "theft", !.session = s, !.key = key]
<1>1. o \in Sessions!CallState /\ o.closes = {} /\ left' \in Sessions!Budget /\ left'["login"] <= left["login"]
  BY TableLookupIs
<1>2. call' = [call EXCEPT ![c] = k]
  BY DEF Sessions!Theft, Sessions!Becomes
<1>3. s \in Nat \X Nat /\ key \in Nat \X Nat /\ step \in {"purge", "list"}
  BY TableKeyTypes, TableSessionKey DEF TableInv
<1> HIDE DEF s, step
<1>4. k \in Sessions!CallState
  BY <1>1, <1>3, TableTheftIsACall
<1>5. k.at = step /\ k.op = "theft" /\ k.closes = {} /\ k.v[2] = 0
  <2>1. k.at = step /\ k.op = "theft" /\ k.closes = o.closes /\ k.v = o.v
    BY <1>1 DEF Sessions!CallState
  <2> QED BY <1>1, <2>1
<1>6. TableCallHolds(k)
  BY <1>3, <1>5 DEF TableCallHolds, TableLookupHolds, TableLooking, TableRotationHolds,
                    TableRotating, TableLoginHolds,
     TableRouteHolds, TableClosingHolds, TableRevokes, TableClockHolds
<1> QED BY <1>1, <1>2, <1>3, <1>4, <1>5, <1>6, TableCallSweeps DEF TableLookup

\* A row that names its pair says whose it is.
LEMMA TableFoundRefreshStep ==
  ASSUME TableInv, NEW c \in Requests, TableLookup(c), call[c].v[2] = 0, call[c].op = "refresh",
         NEW key \in DOMAIN rows, key[1] \in held, rows' = rows, Sessions!FoundRefresh(c, key)
  PROVE  TableInv'
<1> DEFINE o == call[c]
           next == rows[key].next
<1>1. /\ o \in Sessions!CallState /\ TableCallHolds(o) /\ o.closes = {} /\ left' \in Sessions!Budget /\ left'["login"] <= left["login"]
      /\ o.at \in {"find", "legacy"}
  BY TableLookupIs DEF TableLookup, TableLooking
<1>2. /\ key \in TableHeldKeys /\ key \in Sessions!Keys /\ key \in Nat \X Nat /\ rows[key] \in Sessions!Row
      /\ rows = Sessions!Restrict(rows, DOMAIN rows)
  BY TableKeyTypes DEF TableInv, Sessions!TypeOK, TableHeldKeys, Sessions!Restrict
<1>3. CASE Sessions!End(c)
  BY <1>2, <1>3, TableLookupEnds
<1>4. CASE Sessions!Theft(c, key)
  BY <1>2, <1>4, TableTheftStep
<1>5. CASE Sessions!Kind(key) = "refresh" /\ Sessions!Becomes(c, [o EXCEPT !.at = "access", !.key = key])
  <2> DEFINE k == [o EXCEPT !.at = "access", !.key = key]
  <2>1. k \in Sessions!CallState
    BY <1>1, <1>2, ZenonT(60) DEF Sessions!CallState
  <2>2. /\ k.at = "access" /\ k.op = "refresh" /\ k.key = key /\ k.closes = {} /\ k.v = o.v
        /\ k.since = o.since /\ call' = [call EXCEPT ![c] = k]
    BY <1>1, <1>2, <1>5 DEF Sessions!CallState, Sessions!Becomes
  <2>3. o.since = now /\ minted[key[1]].kind = "refresh"
    BY <1>1, <1>5 DEF TableCallHolds, TableClockHolds, Sessions!Kind
  <2>4. TableCallHolds(k)
    BY <1>2, <2>2, <2>3 DEF TableCallHolds, TableLookupHolds, TableLooking, TableRotationHolds,
                            TableRotating, TableLoginHolds,
       TableRouteHolds, TableClosingHolds, TableRevokes, TableClockHolds
  <2> QED BY <1>1, <2>1, <2>2, <2>4, TableCallOnly DEF TableLookup
<1>6. CASE next # <<0, 0>> /\ Sessions!Becomes(c, [o EXCEPT !.at = "find", !.op = "redeliver", !.key = key,
                                          !.v = <<next[2], 0>>, !.access = next[1],
                                          !.refresh = next[2]])
  <2> DEFINE k == [o EXCEPT !.at = "find", !.op = "redeliver", !.key = key, !.v = <<next[2], 0>>,
                            !.access = next[1], !.refresh = next[2]]
  <2>1. next[1] \in Nat /\ next[2] \in Nat /\ <<next[2], 0>> \in Nat \X Nat
    BY <1>2 DEF Sessions!Row
  <2>2. TableKin(next[1], key[1]) /\ TableKin(next[2], key[1])
    BY <1>6 DEF TableInv, TableRowsHold, TableNextHolds
  <2>3. TableHanded(next[1]) /\ TableHanded(next[2])
    BY DEF TableHanded
  <2>4. call' = [call EXCEPT ![c] = k]
    BY <1>6 DEF Sessions!Becomes
  <2> HIDE DEF next
  <2>5. k \in Sessions!CallState
    BY <1>1, <1>2, <2>1, ZenonT(60) DEF Sessions!CallState
  <2>6. /\ k.at = "find" /\ k.op = "redeliver" /\ k.key = key /\ k.closes = {} /\ k.v = <<next[2], 0>>
        /\ k.access = next[1] /\ k.refresh = next[2]
    BY <1>1, <1>2, <2>1 DEF Sessions!CallState
  <2>7. TableCallHolds(k)
    BY <1>2, <2>2, <2>6 DEF TableCallHolds, TableLookupHolds, TableLooking, TableRotationHolds,
                            TableRotating, TableLoginHolds,
       TableRouteHolds, TableClosingHolds, TableRevokes, TableClockHolds
  <2>8. \A t : TableDelivering(k, t) => TableHanded(t)
    BY <2>3, <2>6 DEF TableDelivering
  <2>9. rows' \in [DOMAIN rows' -> Sessions!Row] /\ ended \subseteq TableClosed
    BY DEF TableInv, Sessions!TypeOK, TableClosed
  <2> HIDE DEF k
  <2> QED BY <1>1, <2>4, <2>5, <2>6, <2>7, <2>8, <2>9, TableCallMoves DEF TableLookup
<1>7. \/ Sessions!End(c) \/ Sessions!Theft(c, key)
      \/ Sessions!Kind(key) = "refresh" /\ Sessions!Becomes(c, [o EXCEPT !.at = "access", !.key = key])
      \/ next # <<0, 0>> /\ Sessions!Becomes(c, [o EXCEPT !.at = "find", !.op = "redeliver", !.key = key,
                                          !.v = <<next[2], 0>>, !.access = next[1],
                                          !.refresh = next[2]])
  <2>1. rows[key].rotated \in Int
    BY <1>2 DEF Sessions!Row
  <2>2. CASE Sessions!Kind(key) # "refresh"
    BY <2>2 DEF Sessions!FoundRefresh
  <2>3. CASE Sessions!Kind(key) = "refresh" /\ rows[key].rotated < 0
    BY <2>3 DEF Sessions!FoundRefresh
  <2>4. CASE Sessions!Kind(key) = "refresh" /\ rows[key].rotated >= 0
    BY <2>1, <2>4 DEF Sessions!FoundRefresh
  <2> QED BY <2>1, <2>2, <2>3, <2>4
<1> QED BY <1>3, <1>4, <1>5, <1>6, <1>7

LEMMA TableFoundSuccessorStep ==
  ASSUME TableInv, NEW c \in Requests, TableLookup(c), call[c].v[2] = 0, call[c].op = "redeliver",
         NEW key \in DOMAIN rows, rows' = rows, Sessions!FoundSuccessor(c, key)
  PROVE  TableInv'
<1> DEFINE o == call[c]
           k == [o EXCEPT !.at = "answer"]
<1>1. /\ o \in Sessions!CallState /\ TableCallHolds(o) /\ o.closes = {} /\ left' \in Sessions!Budget /\ left'["login"] <= left["login"]
  BY TableLookupIs
<1>2. o.key \in TableHeldKeys /\ o.key \in Sessions!Keys /\ TableKin(o.access, o.key[1]) /\ TableKin(o.refresh, o.key[1])
  BY <1>1 DEF TableCallHolds, TableRotationHolds, TableHeldKeys
<1>3. CASE Sessions!Theft(c, o.key)
  <2>1. rows = Sessions!Restrict(rows, DOMAIN rows)
    BY DEF TableInv, Sessions!TypeOK, Sessions!Restrict
  <2> QED BY <1>2, <1>3, <2>1, TableTheftStep
<1>4. CASE Sessions!GoTo(c, "answer")
  <2>1. k \in Sessions!CallState
    BY <1>1 DEF Sessions!CallState
  <2>2. /\ k.at = "answer" /\ k.op = "redeliver" /\ k.key = o.key /\ k.closes = {} /\ k.v = o.v
        /\ k.access = o.access /\ k.refresh = o.refresh /\ call' = [call EXCEPT ![c] = k]
    BY <1>1, <1>4 DEF Sessions!CallState, Sessions!GoTo, Sessions!Becomes
  <2>3. TableCallHolds(k)
    BY <1>2, <2>2 DEF TableCallHolds, TableLookupHolds, TableLooking, TableRotationHolds,
                      TableRotating, TableLoginHolds,
       TableRouteHolds, TableClosingHolds, TableRevokes, TableClockHolds
  <2>4. \A t : TableDelivering(k, t) => TableHanded(t)
    BY <2>2 DEF TableDelivering, TableHanded
  <2>5. rows' \in [DOMAIN rows' -> Sessions!Row] /\ ended \subseteq TableClosed
    BY DEF TableInv, Sessions!TypeOK, TableClosed
  <2> HIDE DEF k
  <2> QED BY <1>1, <2>1, <2>2, <2>3, <2>4, <2>5, TableCallMoves DEF TableLookup
<1> QED BY <1>3, <1>4 DEF Sessions!FoundSuccessor

LEMMA TableFoundAccessStep ==
  ASSUME TableInv, NEW c \in Requests, TableLookup(c), call[c].v[2] = 0, call[c].op \in TableRoutes,
         NEW key \in DOMAIN rows, key[1] \in held, rows' = rows, Sessions!FoundAccess(c, key)
  PROVE  TableInv'
<1> DEFINE o == call[c]
           k == [o EXCEPT !.at = "touch", !.key = key, !.session = Sessions!OwnSession(key)]
<1>1. /\ o \in Sessions!CallState /\ o.closes = {} /\ left' \in Sessions!Budget /\ left'["login"] <= left["login"]
  BY TableLookupIs
<1>2. /\ key \in TableHeldKeys /\ key \in Nat \X Nat /\ Sessions!OwnSession(key) = TableSessionOf(key[1])
      /\ Sessions!OwnSession(key) \in Nat \X Nat
  BY TableKeyTypes, TableSessionKey DEF TableInv, Sessions!TypeOK, TableHeldKeys
<1>3. CASE Sessions!End(c)
  <2>1. rows = Sessions!Restrict(rows, DOMAIN rows)
    BY DEF TableInv, Sessions!TypeOK, Sessions!Restrict
  <2> QED BY <1>3, <2>1, TableLookupEnds
<1>4. CASE Sessions!Becomes(c, k)
  <2>1. k \in Sessions!CallState
    BY <1>1, <1>2, ZenonT(60) DEF Sessions!CallState
  <2>2. /\ k.at = "touch" /\ k.op = o.op /\ k.key = key /\ k.closes = {} /\ k.v = o.v
        /\ k.session = TableSessionOf(key[1]) /\ call' = [call EXCEPT ![c] = k]
    BY <1>1, <1>2, <1>4 DEF Sessions!CallState, Sessions!Becomes
  <2>3. TableCallHolds(k)
    BY <1>2, <2>2 DEF TableCallHolds, TableLookupHolds, TableLooking, TableRotationHolds,
                      TableRotating, TableLoginHolds, TableRoutes,
       TableRouteHolds, TableClosingHolds, TableRevokes, TableClockHolds
  <2> QED BY <1>1, <2>1, <2>2, <2>3, TableCallOnly DEF TableLookup, TableRoutes
<1> QED BY <1>3, <1>4 DEF Sessions!FoundAccess

LEMMA TableFoundStep ==
  ASSUME TableInv, NEW c \in Requests, TableLookup(c), NEW key \in DOMAIN rows, call[c].v[2] = 0,
         key[1] = call[c].v[1], rows' = rows, Sessions!Found(c, key)
  PROVE  TableInv'
<1>1. call[c].op \in {"refresh", "redeliver"} \cup TableRoutes
  BY TableLookupIs
<1>2. call[c].op # "redeliver" => key[1] \in held
  BY TableLookupIs DEF TableLookup, TableCallHolds, TableLookupHolds
<1>3. CASE call[c].op = "refresh"
  BY <1>2, <1>3, TableFoundRefreshStep DEF Sessions!Found
<1>4. CASE call[c].op = "redeliver"
  BY <1>4, TableFoundSuccessorStep DEF Sessions!Found
<1>5. CASE call[c].op \in TableRoutes
  BY <1>2, <1>5, TableFoundAccessStep DEF Sessions!Found, TableRoutes
<1> QED BY <1>1, <1>3, <1>4, <1>5

LEMMA TableNotFoundStep ==
  ASSUME TableInv, NEW c \in Requests, TableLookup(c), NEW S \in SUBSET DOMAIN rows,
         rows' = Sessions!Restrict(rows, S),
         Sessions!NotFound(c)
  PROVE  TableInv'
<1>1. CASE call[c].op = "redeliver"
  <2>1. call[c].key \in Sessions!Keys /\ call[c].v[2] = 0
    BY <1>1, TableLookupIs DEF TableCallHolds, TableLookupHolds, TableRotationHolds, TableHeldKeys
  <2> QED BY <1>1, <2>1, TableTheftStep DEF Sessions!NotFound
<1>2. CASE call[c].op # "redeliver"
  BY <1>2, TableLookupEnds DEF Sessions!NotFound
<1> QED BY <1>1, <1>2

LEMMA TableRetrieved ==
  ASSUME TableInv, NEW key, Sessions!Retrieve(key)
  PROVE  /\ \E S \in SUBSET DOMAIN rows : rows' = Sessions!Restrict(rows, S)
         /\ Sessions!Live(key) => rows' = rows /\ key \in DOMAIN rows
<1>1. rows = Sessions!Restrict(rows, DOMAIN rows)
  BY DEF TableInv, Sessions!TypeOK, Sessions!Restrict
<1>2. CASE Sessions!Live(key)
  BY <1>1, <1>2 DEF Sessions!Retrieve, Sessions!Live
<1>3. CASE ~Sessions!Live(key)
  BY <1>3 DEF Sessions!Retrieve, Sessions!Without
<1> QED BY <1>2, <1>3

LEMMA TableFindStep ==
  ASSUME TableInv, NEW c \in Requests, Sessions!Find(c) \/ Sessions!FindLegacy(c)
  PROVE  TableInv'
<1> DEFINE o == call[c]
<1>1. TableLookup(c) /\ o \in Sessions!CallState /\ o.v \in Nat \X Nat /\ TableCallHolds(o) /\ o.closes = {}
  <2>1. TableLookup(c)
    BY DEF Sessions!Find, Sessions!FindLegacy, TableLookup, TableLooking, Sessions!At
  <2> QED BY <2>1, TableLookupIs DEF Sessions!CallState
<1>2. CASE Sessions!Find(c)
  <2> DEFINE key == Sessions!keyOf(o.v)
  <2>1. PICK S \in SUBSET DOMAIN rows : rows' = Sessions!Restrict(rows, S)
    BY <1>2, TableRetrieved DEF Sessions!Find
  <2>2. CASE Sessions!Live(key)
    <3>1. key \in DOMAIN rows /\ rows' = rows /\ Sessions!Found(c, key)
      BY <1>2, <2>2, TableRetrieved DEF Sessions!Find
    <3>2. o.v[2] = 0 /\ key[1] = o.v[1]
      BY <1>1, <3>1, TableFoundByToken DEF TableInv, Sessions!TypeOK
    <3> QED BY <1>1, <3>1, <3>2, TableFoundStep
  <2>3. CASE ~Sessions!Live(key) /\ Sessions!mayBeLegacyKey(o.v)
    <3> DEFINE k == [o EXCEPT !.at = "legacy"]
    <3>1. k \in Sessions!CallState /\ call' = [call EXCEPT ![c] = k]
      BY <1>1, <1>2, <2>3 DEF Sessions!CallState, Sessions!Find, Sessions!GoTo, Sessions!Becomes
    <3>2. /\ k.at = "legacy" /\ k.op = o.op /\ k.key = o.key /\ k.closes = {} /\ k.v = o.v
          /\ k.access = o.access /\ k.refresh = o.refresh /\ k.since = o.since /\ k.session = o.session
      BY <1>1 DEF Sessions!CallState
    <3>3. o.v[2] = 0 /\ o.at = "find" /\ o.op # "login"
      BY <1>1, <1>2, <2>3 DEF Sessions!mayBeLegacyKey, Sessions!Find, Sessions!At, TableCallHolds,
                              TableLoginHolds
    <3>4. TableCallHolds(k)
      BY <1>1, <3>2, <3>3 DEF TableCallHolds, TableLookupHolds, TableLooking, TableRotationHolds,
                              TableRotating, TableLoginHolds, TableRoutes,
         TableRouteHolds, TableClosingHolds, TableRevokes, TableClockHolds
    <3>5. \A t : TableDelivering(k, t) => TableHanded(t)
      BY <3>2 DEF TableDelivering, TableHanded
    <3>6. /\ rows' \in [DOMAIN rows' -> Sessions!Row] /\ DOMAIN rows' \subseteq DOMAIN rows
          /\ (\A x \in DOMAIN rows' : rows'[x] = rows[x]) /\ ended \subseteq TableClosed
      BY <2>1, TableShrunk DEF TableClosed
    <3>7. left' \in Sessions!Budget /\ left'["login"] <= left["login"]
      BY <1>1, TableLookupIs
    <3> HIDE DEF k
    <3> QED BY <1>1, <3>1, <3>2, <3>3, <3>4, <3>5, <3>6, <3>7, TableCallMoves DEF TableLookup
  <2>4. CASE ~Sessions!Live(key) /\ ~Sessions!mayBeLegacyKey(o.v)
    BY <1>1, <1>2, <2>1, <2>4, TableNotFoundStep DEF Sessions!Find
  <2> QED BY <2>2, <2>3, <2>4
<1>3. CASE Sessions!FindLegacy(c)
  <2>1. PICK S \in SUBSET DOMAIN rows : rows' = Sessions!Restrict(rows, S)
    BY <1>3, TableRetrieved DEF Sessions!FindLegacy
  <2>2. CASE Sessions!Live(o.v)
    <3>1. o.v \in DOMAIN rows /\ rows' = rows /\ Sessions!Found(c, o.v)
      BY <1>3, <2>2, TableRetrieved DEF Sessions!FindLegacy
    <3>2. o.v[2] = 0
      BY <1>1, <1>3 DEF Sessions!FindLegacy, Sessions!At, TableCallHolds, TableLookupHolds
    <3> QED BY <1>1, <3>1, <3>2, TableFoundStep
  <2>3. CASE ~Sessions!Live(o.v)
    BY <1>1, <1>3, <2>1, <2>3, TableNotFoundStep DEF Sessions!FindLegacy
  <2> QED BY <2>2, <2>3
<1> QED BY <1>2, <1>3

(* ------------------- The parent's row; the final look --------------------- *)
LEMMA TableRotationIs ==
  ASSUME TableInv, NEW c \in Requests, call[c].at \in {"stamp", "replace", "look"}
  PROVE  LET k == call[c]
         IN /\ k \in Sessions!CallState /\ TableCallHolds(k) /\ k.op = "refresh" /\ k.closes = {} /\ k.v[2] = 0
            /\ k.key \in TableHeldKeys /\ minted[k.key[1]].kind = "refresh"
            /\ TableKin(k.access, k.key[1]) /\ TableKin(k.refresh, k.key[1])
  BY TableCallIs DEF TableCallHolds, TableLookupHolds, TableRotationHolds, TableRotating,
                     TableClosingHolds

LEMMA TableRotateStep ==
  ASSUME TableInv, NEW c \in Requests, Sessions!Stamp(c) \/ Sessions!Replace(c) \/ Sessions!Look(c)
  PROVE  TableInv'
<1> DEFINE o == call[c]
<1>1. /\ o \in Sessions!CallState /\ TableCallHolds(o) /\ o.op = "refresh" /\ o.closes = {} /\ o.v[2] = 0
      /\ o.key \in TableHeldKeys /\ minted[o.key[1]].kind = "refresh"
      /\ TableKin(o.access, o.key[1]) /\ TableKin(o.refresh, o.key[1])
  BY TableRotationIs DEF Sessions!Stamp, Sessions!Replace, Sessions!Look, Sessions!At
<1>2. /\ left' \in Sessions!Budget /\ left'["login"] <= left["login"] /\ ended' = ended /\ ended \subseteq TableClosed
      /\ UNCHANGED <<setup, now, minted, held>>
  <2>1. left \in Sessions!Budget /\ left' = left /\ left["login"] \in Nat
    BY DEF TableInv, Sessions!TypeOK, Sessions!Budget, Sessions!Stamp, Sessions!Replace,
           Sessions!Look
  <2> QED BY <2>1 DEF TableClosed, Sessions!Stamp, Sessions!Replace, Sessions!Look
<1>3. ASSUME NEW step \in {"replace", "look", "answer"}, Sessions!GoTo(c, step)
      PROVE  LET k == [o EXCEPT !.at = step]
             IN /\ k \in Sessions!CallState /\ TableCallHolds(k) /\ k.at = step /\ k.op = "refresh"
                /\ k.access = o.access /\ k.refresh = o.refresh /\ call' = [call EXCEPT ![c] = k]
  <2> DEFINE k == [o EXCEPT !.at = step]
  <2>1. k \in Sessions!CallState
    BY <1>1 DEF Sessions!CallState
  <2>2. /\ k.at = step /\ k.op = "refresh" /\ k.key = o.key /\ k.closes = {} /\ k.v = o.v
        /\ k.access = o.access /\ k.refresh = o.refresh /\ call' = [call EXCEPT ![c] = k]
    BY <1>1, <1>3 DEF Sessions!CallState, Sessions!GoTo, Sessions!Becomes
  <2>3. TableCallHolds(k)
    BY <1>1, <2>2 DEF TableCallHolds, TableLookupHolds, TableLooking, TableRotationHolds,
                      TableRotating, TableLoginHolds,
       TableRouteHolds, TableClosingHolds, TableRevokes, TableClockHolds
  <2> HIDE DEF k
  <2>4. k \in Sessions!CallState /\ TableCallHolds(k) /\ k.at = step /\ k.op = "refresh"
        /\ k.access = o.access /\ k.refresh = o.refresh /\ call' = [call EXCEPT ![c] = k]
    BY <2>1, <2>2, <2>3
  <2> QED BY <2>4 DEF k
<1>4. ASSUME o.key \in DOMAIN rows
      PROVE  \A t \in {o.access, o.refresh} : TableHanded(t) \/ TableOpen(t)
  BY <1>1, <1>4, TableKinIsOpen DEF TableHeldKeys
<1>5. rows = Sessions!Restrict(rows, DOMAIN rows) /\ rows \in [DOMAIN rows -> Sessions!Row]
  BY DEF TableInv, Sessions!TypeOK, Sessions!Restrict
<1>6. CASE Sessions!Stamp(c)
  <2>1. PICK step \in {"replace", "look"} : Sessions!GoTo(c, step)
    BY <1>6 DEF Sessions!Stamp
  <2>2. PICK S \in SUBSET DOMAIN rows : rows' = Sessions!Restrict(rows, S)
    BY <1>5, <1>6 DEF Sessions!Stamp, Sessions!Without
  <2> DEFINE k == [o EXCEPT !.at = step]
  <2>3. k \in Sessions!CallState /\ TableCallHolds(k) /\ k.at = step /\ k.op = "refresh" /\ call' = [call EXCEPT ![c] = k]
    BY <1>3, <2>1
  <2> HIDE DEF k
  <2> QED BY <1>2, <2>2, <2>3, TableCallSweeps
<1>7. CASE Sessions!Replace(c)
  <2> DEFINE k == [o EXCEPT !.at = "look"]
  <2>1. k \in Sessions!CallState /\ TableCallHolds(k) /\ k.at = "look" /\ k.op = "refresh" /\ call' = [call EXCEPT ![c] = k]
    BY <1>3, <1>7 DEF Sessions!Replace
  <2> HIDE DEF k
  <2>2. \A t : ~TableDelivering(k, t)
    BY <2>1 DEF TableDelivering
  <2>3. Sessions!Stamped(c) \in Sessions!Row
    BY <1>1 DEF Sessions!Stamped, Sessions!Row, Sessions!CallState
  <2>4. /\ rows' \in [DOMAIN rows' -> Sessions!Row] /\ DOMAIN rows' = DOMAIN rows
        /\ \A key \in DOMAIN rows' : \/ rows'[key] = rows[key]
                                     \/ key = o.key /\ rows'[key] = Sessions!Stamped(c)
    BY <1>5, <1>7, <2>3 DEF Sessions!Replace
  <2>5. TableNextHolds(o.key, Sessions!Stamped(c).next)
    BY <1>1 DEF TableNextHolds, Sessions!Stamped, TableHeldKeys
  <2>6. \A key \in DOMAIN rows' : \/ rows'[key] = rows[key]
                                  \/ /\ TableNextHolds(key, rows'[key].next)
                                     /\ \A t \in {rows'[key].next[1], rows'[key].next[2]} : TableHanded(t) \/ TableOpen(t)
    BY <1>4, <2>4, <2>5 DEF Sessions!Stamped
  <2> QED BY <1>2, <2>1, <2>2, <2>4, <2>6, TableCallMoves
<1>8. CASE Sessions!Look(c)
  <2>1. PICK S \in SUBSET DOMAIN rows : rows' = Sessions!Restrict(rows, S)
    BY <1>8, TableRetrieved DEF Sessions!Look
  <2>2. CASE Sessions!Live(o.key)
    <3> DEFINE k == [o EXCEPT !.at = "answer"]
    <3>1. /\ k \in Sessions!CallState /\ TableCallHolds(k) /\ k.at = "answer" /\ k.op = "refresh"
          /\ k.access = o.access /\ k.refresh = o.refresh /\ call' = [call EXCEPT ![c] = k]
      BY <1>3, <1>8, <2>2 DEF Sessions!Look
    <3> HIDE DEF k
    <3>2. \A t : TableDelivering(k, t) => TableHanded(t) \/ TableOpen(t)
      BY <1>4, <2>2, <3>1 DEF TableDelivering, Sessions!Live
    <3>3. /\ rows' \in [DOMAIN rows' -> Sessions!Row] /\ DOMAIN rows' \subseteq DOMAIN rows
          /\ \A key \in DOMAIN rows' : rows'[key] = rows[key]
      BY <2>1, TableShrunk
    <3> QED BY <1>2, <3>1, <3>2, <3>3, TableCallMoves
  <2>3. CASE ~Sessions!Live(o.key)
    <3> DEFINE work == {Sessions!keyOf(<<o.access, 0>>), Sessions!keyOf(<<o.refresh, 0>>)}
               k == [o EXCEPT !.at = "delete", !.op = "undo", !.work = work]
    <3>1. work \in SUBSET (Nat \X Nat)
      BY <1>1, TableKeyOfToken, TableKeyTypes DEF TableKin, TableInv
    <3>2. call' = [call EXCEPT ![c] = k]
      BY <1>8, <2>3 DEF Sessions!Look, Sessions!Becomes
    <3> HIDE DEF work
    <3>3. k \in Sessions!CallState
      BY <1>1, <3>1, ZenonT(60) DEF Sessions!CallState
    <3>4. k.at = "delete" /\ k.op = "undo" /\ k.v = o.v /\ k.closes = {}
      BY <1>1 DEF Sessions!CallState
    <3>5. TableCallHolds(k)
      BY <1>1, <3>4 DEF TableCallHolds, TableLookupHolds, TableLooking, TableRotationHolds,
                        TableRotating, TableLoginHolds,
         TableRouteHolds, TableClosingHolds, TableRevokes, TableClockHolds
    <3> HIDE DEF k
    <3> QED BY <1>2, <2>1, <3>2, <3>3, <3>4, <3>5, TableCallSweeps
  <2> QED BY <2>2, <2>3
<1> QED BY <1>6, <1>7, <1>8

(* -------------------------- Issue; the answer ----------------------------- *)
\* insertOne: a token nobody has is added, and its row.
LEMMA TableInserted ==
  ASSUME TableInv, NEW record \in Sessions!TokenRow, TableTokenHolds(record), NEW t,
         t = Len(minted) + 1,
         minted' = Append(minted, record), UNCHANGED <<setup, now, held, left>>,
         rows' = [key \in DOMAIN rows \cup {Sessions!keyOf(<<t, 0>>)} |-> IF key \in DOMAIN rows THEN rows[key] ELSE Sessions!Fresh]
  PROVE  /\ t \in Nat /\ t \notin DOMAIN minted /\ minted' \in Seq(Sessions!TokenRow)
         /\ DOMAIN minted' = DOMAIN minted \cup {t} /\ minted'[t] = record
         /\ TableGrows
         /\ rows' \in [DOMAIN rows' -> Sessions!Row] /\ DOMAIN rows' \subseteq Sessions!Keys'
         /\ \A key \in DOMAIN rows' : \/ key \in DOMAIN rows /\ rows'[key] = rows[key]
                                      \/ key[1] = t /\ rows'[key].next = <<0, 0>>
         /\ TableTokensHold'
<1> DEFINE new == Sessions!keyOf(<<t, 0>>)
<1>1. minted \in Seq(Sessions!TokenRow) /\ DOMAIN minted = 1 .. Len(minted) /\ Len(minted) \in Nat
  BY DEF TableInv, Sessions!TypeOK
<1>2. t \in Nat /\ t \notin DOMAIN minted
  BY <1>1
<1>3. minted' = Append(minted, record) /\ UNCHANGED <<setup, now, held, left>>
  OBVIOUS
<1>4. /\ minted' \in Seq(Sessions!TokenRow) /\ DOMAIN minted' = DOMAIN minted \cup {t} /\ minted'[t] = record
      /\ \A u \in DOMAIN minted : minted'[u] = minted[u]
  BY <1>1, <1>3
<1>5. TableGrows
  BY <1>3, <1>4 DEF TableGrows
<1>7. new \in Sessions!Keys' /\ new[1] = t
  BY <1>2, <1>3, <1>4 DEF Sessions!keyOf, Sessions!Fingerprint, Sessions!Keys, Sessions!Hashing
<1>8. Sessions!Fresh \in Sessions!Row /\ Sessions!Fresh.next = <<0, 0>>
  BY DEF Sessions!Fresh, Sessions!Row
<1>9. rows' = [key \in DOMAIN rows \cup {new} |-> IF key \in DOMAIN rows THEN rows[key] ELSE Sessions!Fresh]
  OBVIOUS
<1> HIDE DEF new
<1>10. /\ rows' \in [DOMAIN rows' -> Sessions!Row] /\ DOMAIN rows' = DOMAIN rows \cup {new}
       /\ \A key \in DOMAIN rows' : rows'[key] = IF key \in DOMAIN rows THEN rows[key] ELSE Sessions!Fresh
  <2>1. \A key \in DOMAIN rows : rows[key] \in Sessions!Row
    BY DEF TableInv, Sessions!TypeOK
  <2> QED BY <1>8, <1>9, <2>1
<1>11. DOMAIN rows' \subseteq Sessions!Keys'
  <2>1. Sessions!Keys \subseteq Sessions!Keys'
    BY <1>5, TableNamesStay DEF TableInv
  <2> QED BY <1>7, <1>10, <2>1 DEF TableInv, Sessions!TypeOK
<1>12. \A key \in DOMAIN rows' : \/ key \in DOMAIN rows /\ rows'[key] = rows[key]
                                 \/ key[1] = t /\ rows'[key].next = <<0, 0>>
  BY <1>7, <1>8, <1>10
<1>13. TableTokensHold'
  BY <1>3, <1>4 DEF TableInv, TableTokensHold, TableTokenHolds
<1> QED BY <1>2, <1>3, <1>4, <1>5, <1>10, <1>11, <1>12, <1>13

\* A pair's token is of the login, whose names no revocation answers for, or of the parent.
LEMMA TableInsertKeeps ==
  ASSUME TableInv, NEW c \in Requests, NEW record \in Sessions!TokenRow,
         NEW field \in {"access", "refresh"},
         NEW step \in {"pair", "answer", "stamp"}, Sessions!Insert(c, record, field, step),
         TableTokenHolds(record),
         step = "answer" => call[c].op = "login",
         TableCallHolds(call[c])', call'[c] \in Sessions!CallState, call'[c].op = call[c].op,
         call'[c].session = call[c].session, call'[c].at = step
  PROVE  TableInv'
<1>0. PICK t : t = Len(minted) + 1
  OBVIOUS
<1>1. /\ t \in Nat /\ t \notin DOMAIN minted /\ minted' \in Seq(Sessions!TokenRow)
      /\ DOMAIN minted' = DOMAIN minted \cup {t} /\ minted'[t] = record
      /\ TableGrows /\ UNCHANGED <<setup, now, held, left, ended>>
      /\ rows' \in [DOMAIN rows' -> Sessions!Row] /\ DOMAIN rows' \subseteq Sessions!Keys'
      /\ \A key \in DOMAIN rows' : \/ key \in DOMAIN rows /\ rows'[key] = rows[key]
                                   \/ key[1] = t /\ rows'[key].next = <<0, 0>>
      /\ TableTokensHold'
  <2>1. /\ minted' = Append(minted, record) /\ UNCHANGED <<setup, now, held, left, ended>>
        /\ rows' = [key \in DOMAIN rows \cup {Sessions!keyOf(<<t, 0>>)} |->
                     IF key \in DOMAIN rows THEN rows[key] ELSE Sessions!Fresh]
    BY <1>0 DEF Sessions!Insert
  <2> QED BY <1>0, <2>1, TableInserted
<1>3. call' \in [Requests -> Sessions!CallState] /\ \A d \in Requests : d # c => call'[d] = call[d]
  <2>1. call' = [call EXCEPT ![c] = call'[c]]
    BY DEF Sessions!Insert, Sessions!Becomes, TableInv, Sessions!TypeOK
  <2> QED BY <2>1 DEF TableInv, Sessions!TypeOK
<1>2. Sessions!TypeOK'
  BY <1>1, <1>3 DEF TableInv, Sessions!TypeOK
<1>4. TableCallsHold'
  <2>1. ASSUME NEW d \in Requests, d # c PROVE TableCallHolds(call[d])'
    <3>1. left' \in Sessions!Budget /\ left'["login"] <= left["login"]
      <4>1. left' = left /\ left \in Sessions!Budget /\ left["login"] \in Nat
        BY <1>1 DEF TableInv, Sessions!TypeOK, Sessions!Budget
      <4> QED BY <4>1
    <3>2. call[d].op = "login" => TableUnheld(call[d].session[2])
      BY TableCallIs DEF TableCallHolds, TableLoginHolds
    <3>3. call[d].op = "login" => TableUnheld(call[d].session[2])'
      <4>1. held' = held /\ held \subseteq DOMAIN minted
        BY <1>1 DEF TableInv, Sessions!TypeOK
      <4> QED BY <1>1, <1>3, <2>1, <3>2, <4>1 DEF TableUnheld, TableGrows
    <3> QED BY <1>1, <1>3, <2>1, <3>1, <3>3, TableCallStays
  <2>2. \A d, e \in Requests : call'[d].op = "login" /\ call'[e].op = "login"
                           /\ call'[d].session = call'[e].session => d = e
    BY <1>3 DEF TableInv, TableCallsHold
  <2> QED BY <2>1, <2>2 DEF TableCallsHold
<1>5. held \subseteq DOMAIN minted /\ \A u \in DOMAIN minted : TableNamesOf(u)' = TableNamesOf(u)
  BY <1>1, TableNamesStay DEF TableInv, Sessions!TypeOK
<1>6. \A key \in DOMAIN rows : key[1] \in DOMAIN minted
  BY DEF TableInv, Sessions!TypeOK, Sessions!Keys
<1>7. \A d \in Requests : call[d].at = "answer" \/ call[d].op = "redeliver" =>
         call[d].access \in DOMAIN minted /\ call[d].refresh \in DOMAIN minted
  BY TableCallIs DEF TableCallHolds, TableLoginHolds, TableRotationHolds, TableRotating, TableNames,
                     TableKin
<1>8. TableClosed' \subseteq TableClosed
  <2>1. \A d \in Requests : call'[d].at = "done" => call[d].at = "done" /\ call'[d] = call[d]
    BY <1>3
  <2>2. ended' = ended
    BY <1>1
  <2> QED BY <2>1, <2>2 DEF TableClosed, Sessions!At
<1>9. \A key \in DOMAIN rows' : TableNextHolds(key, rows[key].next)'
  BY <1>1, TableNamesStay DEF TableInv, TableRowsHold, TableNextHolds, TableGrows
<1>10. \A e \in ended' : \E u \in held' : e \in TableNamesOf(u)'
  <2>1. ended' = ended /\ held' = held
    BY <1>1
  <2>2. \A e \in ended : \E u \in held : e \in TableNamesOf(u)
    BY DEF TableInv, TableRowsHold
  <2> QED BY <1>5, <2>1, <2>2
<1>11. ASSUME NEW key \in DOMAIN rows', TableHanded(key[1])' PROVE TableOpen(key[1])'
  <2>1. CASE call[c].op = "login" /\ step = "answer" /\ key[1] \in {call'[c].access, call'[c].refresh}
    <3> DEFINE id == call[c].session[2]
    <3>1. minted'[key[1]].session = id /\ minted'[key[1]].family = id /\ id \in Nat \ {0}
      <4>1. id > left["login"] /\ left["login"] \in Nat /\ id \in Nat
        BY <2>1, TableCallIs DEF TableCallHolds, TableLoginHolds, TableInv, Sessions!TypeOK,
                                 Sessions!Budget, Sessions!CallState
      <4> QED BY <2>1, <4>1 DEF TableCallHolds, TableLoginHolds, TableNames
    <3>2. TableUnheld(id)
      BY <2>1, TableCallIs DEF TableCallHolds, TableLoginHolds
    <3>3. \A u \in held : minted[u].session # id /\ minted[u].family # id
      BY <1>5, <3>2 DEF TableUnheld
    <3>4. TableNamesOf(key[1])' = {<<0, id>>, <<-1, id>>}
      BY <3>1 DEF TableNamesOf, TableSessionOf, TableFamilyOf
    <3>5. \A u \in held : u \in Nat \ {0} /\ minted[u].session \in Nat /\ minted[u].family \in Nat
      <4>1. \A u \in held : minted[u] \in Sessions!TokenRow /\ u \in Nat \ {0}
        BY DEF TableInv, Sessions!TypeOK
      <4> QED BY <4>1 DEF Sessions!TokenRow
    <3>6. \A u \in held : <<0, id>> \notin TableNamesOf(u) /\ <<-1, id>> \notin TableNamesOf(u)
      BY <3>3, <3>5 DEF TableNamesOf, TableSessionOf, TableFamilyOf
    <3> QED BY <1>8, <3>4, <3>6, TableClosedAreHeld DEF TableOpen
  <2>2. CASE ~(call[c].op = "login" /\ step = "answer" /\ key[1] \in {call'[c].access, call'[c].refresh})
    <3>1. TableHanded(key[1]) /\ key[1] # t
      <4>1. CASE key[1] \in held'
        BY <1>1, <1>5, <4>1 DEF TableHanded
      <4>2. CASE \E x \in DOMAIN rows' : key[1] \in {rows'[x].next[1], rows'[x].next[2]}
        <5>1. key[1] # 0
          <6>1. key[1] \in DOMAIN minted'
            BY <1>1 DEF Sessions!Keys
          <6>2. minted' \in Seq(Sessions!TokenRow)
            BY <1>1
          <6> QED BY <6>1, <6>2
        <5>2. PICK x \in DOMAIN rows : key[1] \in {rows[x].next[1], rows[x].next[2]}
          <6>1. PICK x \in DOMAIN rows' : key[1] \in {rows'[x].next[1], rows'[x].next[2]}
            BY <4>2
          <6>2. rows'[x].next # <<0, 0>>
            BY <5>1, <6>1
          <6>3. x \in DOMAIN rows /\ rows'[x] = rows[x]
            BY <1>1, <6>2
          <6> QED BY <6>1, <6>3
        <5>3. key[1] \in DOMAIN minted
          BY <5>1, <5>2 DEF TableInv, TableRowsHold, TableNextHolds, TableKin
        <5> QED BY <1>1, <5>2, <5>3 DEF TableHanded
      <4>3. CASE \E d \in Requests : TableDelivering(call'[d], key[1])
        <5>1. PICK d \in Requests : TableDelivering(call'[d], key[1])
          BY <4>3
        <5>2. d # c
          BY <2>2, <5>1 DEF TableDelivering, TableCallHolds, TableRotationHolds
        <5>3. TableDelivering(call[d], key[1])
          BY <1>3, <5>1, <5>2
        <5> QED BY <1>1, <1>7, <5>3 DEF TableHanded, TableDelivering
      <4> QED BY <1>11, <4>1, <4>2, <4>3 DEF TableHanded
    <3>2. key \in DOMAIN rows
      BY <1>1, <3>1
    <3>3. TableOpen(key[1])
      BY <3>1, <3>2 DEF TableInv, TableRowsHold
    <3> QED BY <1>5, <1>6, <1>8, <3>2, <3>3 DEF TableOpen
  <2> QED BY <2>1, <2>2
<1>12. TableRowsHold'
  BY <1>9, <1>10, <1>11 DEF TableRowsHold
<1> QED BY <1>1, <1>2, <1>4, <1>12 DEF TableInv

\* What the call of an insert goes on with.
LEMMA TableInsertGoesOn ==
  ASSUME NEW o \in Sessions!CallState, NEW t \in Nat, NEW step \in {"pair", "answer", "stamp"}
  PROVE  /\ [o EXCEPT !.at = step, !.access = t] \in Sessions!CallState
         /\ [o EXCEPT !.at = step, !.refresh = t] \in Sessions!CallState
<1>1. [o EXCEPT !.at = step, !.access = t] \in Sessions!CallState
  BY ZenonT(60) DEF Sessions!CallState
<1>2. [o EXCEPT !.at = step, !.refresh = t] \in Sessions!CallState
  BY ZenonT(60) DEF Sessions!CallState
<1> QED BY <1>1, <1>2

LEMMA TableLoginInserts ==
  ASSUME Sessions!SetupsHold, TableInv, NEW c \in Requests, call[c].op = "login",
         NEW kind \in {"access", "refresh"}, NEW step \in {"pair", "answer"},
         NEW until \in Int, call[c].at = IF kind = "access" THEN "access" ELSE "pair",
         step = IF kind = "access" THEN "pair" ELSE "answer",
         kind = "refresh" => until = now + RefreshTtl,
         Sessions!Insert(c, Sessions!Minted(Sessions!LoginId(c), Sessions!LoginId(c), kind, until, Sessions!LoginCeiling(c), call[c].fixed), kind, step)
  PROVE  TableInv'
<1>1. PICK o \in Sessions!CallState : o = call[c] /\ TableCallHolds(o)
  BY TableCallIs
<1>2. PICK t, id,
ceiling : t = Len(minted) + 1 /\ id = Sessions!LoginId(c) /\ ceiling = Sessions!LoginCeiling(c)
  OBVIOUS
<1>3. PICK record : record = Sessions!Minted(id, id, kind, until, ceiling, o.fixed)
  OBVIOUS
<1>4. PICK k : k = [o EXCEPT !.at = step, ![kind] = t]
  OBVIOUS
<1>5. /\ setup \in Sessions!Settings /\ now \in Int /\ now >= 0 /\ MaxTime \in Nat /\ RefreshTtl \in Nat
      /\ left["login"] \in Nat
  BY DEF TableInv, Sessions!TypeOK, Sessions!SetupsHold, Sessions!Budget
<1>6. /\ id = o.session[2] /\ id \in Nat /\ id > left["login"] /\ o.since = now /\ (o.fixed => setup.column)
      /\ o.fixed \in BOOLEAN /\ o.session[1] = 0 /\ TableUnheld(id) /\ o.v[2] = 0 /\ o.closes = {}
      /\ kind = "refresh" => TableNames(o.access, id)
  <2>1. id = o.session[2] /\ o.session \in Nat \X Nat /\ o.fixed \in BOOLEAN
    BY <1>1, <1>2 DEF Sessions!LoginId, Sessions!CallState
  <2> QED BY <1>1, <2>1 DEF TableCallHolds, TableLoginHolds, TableLookupHolds, TableClosingHolds,
                            TableClockHolds
<1>7. /\ ceiling \in Int /\ ceiling >= now + RefreshTtl
      /\ o.fixed \/ ~setup.sliding \/ ceiling >= RefreshTtl + MaxTime
  BY <1>1, <1>2, <1>5, <1>6 DEF Sessions!LoginCeiling
<1>8. record \in Sessions!TokenRow /\ TableTokenHolds(record) /\ record.session = id /\ record.family = id
  <2>1. setup.column \in BOOLEAN
    BY <1>5 DEF Sessions!Settings
  <2>2. record \in Sessions!TokenRow
    BY <1>3, <1>6, <1>7, <2>1 DEF Sessions!Minted, Sessions!TokenRow
  <2> QED BY <1>3, <1>5, <1>6, <1>7, <2>2 DEF Sessions!Minted, TableTokenHolds
<1>9. Sessions!Insert(c, record, kind, step)
  BY <1>1, <1>2, <1>3
<1>10. /\ t \in Nat /\ t \notin DOMAIN minted /\ DOMAIN minted' = DOMAIN minted \cup {t} /\ minted'[t] = record
       /\ TableGrows /\ UNCHANGED <<setup, now, held, left, ended>> /\ call' = [call EXCEPT ![c] = k]
  <2>1. call' = [call EXCEPT ![c] = k]
    BY <1>1, <1>2, <1>4 DEF Sessions!Insert, Sessions!Becomes
  <2>2. /\ minted' = Append(minted, record) /\ UNCHANGED <<setup, now, held, left, ended>>
        /\ rows' = [key \in DOMAIN rows \cup {Sessions!keyOf(<<t, 0>>)} |->
                     IF key \in DOMAIN rows THEN rows[key] ELSE Sessions!Fresh]
    BY <1>2, <1>9 DEF Sessions!Insert
  <2> QED BY <1>2, <1>8, <2>1, <2>2, TableInserted
<1>11. /\ k \in Sessions!CallState /\ k.at = step /\ k.op = "login" /\ k.session = o.session /\ k.v = o.v
       /\ k.closes = {} /\ k.fixed = o.fixed /\ k.since = o.since
       /\ kind = "access" => k.access = t
       /\ kind = "refresh" => k.access = o.access /\ k.refresh = t
  <2>1. t \in Nat
    BY <1>10
  <2>2. /\ [o EXCEPT !.at = step, !.access = t] \in Sessions!CallState
        /\ [o EXCEPT !.at = step, !.refresh = t] \in Sessions!CallState
    BY <2>1, TableInsertGoesOn
  <2>3. CASE kind = "access"
    <3>1. k = [o EXCEPT !.at = step, !.access = t]
      BY <1>4, <2>3
    <3> QED BY <1>1, <1>6, <2>2, <2>3, <3>1 DEF Sessions!CallState
  <2>4. CASE kind = "refresh"
    <3>1. k = [o EXCEPT !.at = step, !.refresh = t]
      BY <1>4, <2>4
    <3> QED BY <1>1, <1>6, <2>2, <2>4, <3>1 DEF Sessions!CallState
  <2> QED BY <2>3, <2>4
<1>12. call'[c] = k
  BY <1>10 DEF TableInv, Sessions!TypeOK
<1>13. TableCallHolds(call[c])'
  <2>1. TableUnheld(id)'
    <3>1. held' = held /\ held \subseteq DOMAIN minted
      BY <1>10 DEF TableInv, Sessions!TypeOK
    <3> QED BY <1>6, <1>10, <3>1 DEF TableUnheld, TableGrows
  <2>2. TableNames(t, id)'
    BY <1>8, <1>10 DEF TableNames
  <2>3. kind = "refresh" => TableNames(o.access, id)'
    BY <1>6, <1>10, TableNamesStay DEF TableInv
  <2>4. TableLoginHolds(call[c])'
    BY <1>6, <1>10, <1>11, <1>12, <2>1, <2>2, <2>3 DEF TableLoginHolds
  <2>5. TableLookupHolds(call[c])' /\ TableRotationHolds(call[c])' /\ TableRouteHolds(call[c])' /\ TableClosingHolds(call[c])'
    BY <1>6, <1>11, <1>12 DEF TableLookupHolds, TableLooking, TableRotationHolds, TableRotating,
                              TableRouteHolds, TableClosingHolds
  <2>6. TableClockHolds(call[c])'
    BY <1>6, <1>10, <1>11, <1>12 DEF TableClockHolds
  <2> QED BY <2>4, <2>5, <2>6 DEF TableCallHolds
<1> QED BY <1>1, <1>8, <1>9, <1>11, <1>12, <1>13, TableInsertKeeps

LEMMA TableRefreshInserts ==
  ASSUME TableInv, NEW c \in Requests, call[c].op = "refresh",
         NEW kind \in {"access", "refresh"}, NEW step \in {"pair", "stamp"},
         NEW until \in Int, call[c].at = IF kind = "access" THEN "access" ELSE "pair",
         step = IF kind = "access" THEN "pair" ELSE "stamp",
         kind = "refresh" => until <= Sessions!Parent(c).ceiling,
         Sessions!Insert(c, Sessions!Minted(Sessions!Parent(c).session, Sessions!Parent(c).family, kind, until, Sessions!Parent(c).ceiling, Sessions!Parent(c).fixed),
                kind, step)
  PROVE  TableInv'
<1>1. PICK o \in Sessions!CallState : o = call[c] /\ TableCallHolds(o)
  BY TableCallIs
<1>2. PICK t, parent : t = Len(minted) + 1 /\ parent = Sessions!Parent(c)
  OBVIOUS
<1>3. PICK record : record = Sessions!Minted(parent.session, parent.family, kind, until, parent.ceiling, parent.fixed)
  OBVIOUS
<1>4. PICK k : k = [o EXCEPT !.at = step, ![kind] = t]
  OBVIOUS
<1>5. /\ o.v[2] = 0 /\ o.closes = {} /\ o.since = now /\ o.key \in TableHeldKeys /\ minted[o.key[1]].kind = "refresh"
      /\ kind = "refresh" => TableKin(o.access, o.key[1])
  BY <1>1 DEF TableCallHolds, TableRotationHolds, TableRotating, TableLookupHolds,
              TableClosingHolds, TableClockHolds
<1>6. o.key[1] \in DOMAIN minted /\ parent \in Sessions!TokenRow /\ TableTokenHolds(parent) /\ parent = minted[o.key[1]]
  BY <1>1, <1>2, <1>5, TableKeyTypes DEF TableHeldKeys, Sessions!Keys, TableInv, TableTokensHold,
                                         Sessions!Parent
<1>7. /\ record \in Sessions!TokenRow /\ TableTokenHolds(record)
      /\ record.session = parent.session /\ record.family = parent.family
  <2>1. setup.column \in BOOLEAN
    BY DEF Sessions!Settings, TableInv, Sessions!TypeOK
  <2>2. record \in Sessions!TokenRow
    BY <1>3, <1>6, <2>1 DEF Sessions!Minted, Sessions!TokenRow
  <2> QED BY <1>2, <1>3, <1>6, <2>2 DEF Sessions!Minted, TableTokenHolds
<1>8. Sessions!Insert(c, record, kind, step)
  BY <1>1, <1>2, <1>3
<1>9. /\ t \in Nat /\ t \notin DOMAIN minted /\ DOMAIN minted' = DOMAIN minted \cup {t} /\ minted'[t] = record
      /\ TableGrows /\ UNCHANGED <<setup, now, held, left, ended>> /\ call' = [call EXCEPT ![c] = k]
  <2>1. call' = [call EXCEPT ![c] = k]
    BY <1>1, <1>2, <1>4 DEF Sessions!Insert, Sessions!Becomes
  <2>2. /\ minted' = Append(minted, record) /\ UNCHANGED <<setup, now, held, left, ended>>
        /\ rows' = [key \in DOMAIN rows \cup {Sessions!keyOf(<<t, 0>>)} |->
                     IF key \in DOMAIN rows THEN rows[key] ELSE Sessions!Fresh]
    BY <1>2, <1>8 DEF Sessions!Insert
  <2> QED BY <1>2, <1>7, <2>1, <2>2, TableInserted
<1>10. /\ k \in Sessions!CallState /\ k.at = step /\ k.op = "refresh" /\ k.session = o.session /\ k.v = o.v
       /\ k.closes = {} /\ k.key = o.key /\ k.since = o.since
       /\ kind = "access" => k.access = t
       /\ kind = "refresh" => k.access = o.access /\ k.refresh = t
  <2>1. t \in Nat
    BY <1>9
  <2>2. /\ [o EXCEPT !.at = step, !.access = t] \in Sessions!CallState
        /\ [o EXCEPT !.at = step, !.refresh = t] \in Sessions!CallState
    BY <2>1, TableInsertGoesOn
  <2>3. CASE kind = "access"
    <3>1. k = [o EXCEPT !.at = step, !.access = t]
      BY <1>4, <2>3
    <3> QED BY <1>1, <1>5, <2>2, <2>3, <3>1 DEF Sessions!CallState
  <2>4. CASE kind = "refresh"
    <3>1. k = [o EXCEPT !.at = step, !.refresh = t]
      BY <1>4, <2>4
    <3> QED BY <1>1, <1>5, <2>2, <2>4, <3>1 DEF Sessions!CallState
  <2> QED BY <2>3, <2>4
<1>11. call'[c] = k
  BY <1>9 DEF TableInv, Sessions!TypeOK
<1>12. TableCallHolds(call[c])'
  <2>1. o.key \in TableHeldKeys' /\ minted'[o.key[1]].kind = "refresh"
    BY <1>5, <1>6, <1>9, TableNamesStay DEF TableInv, TableGrows
  <2>2. TableKin(t, o.key[1])'
    BY <1>6, <1>7, <1>9 DEF TableKin, TableGrows
  <2>3. kind = "refresh" => TableKin(o.access, o.key[1])'
    BY <1>5, <1>9, TableNamesStay DEF TableInv
  <2>4. TableRotationHolds(call[c])'
    BY <1>10, <1>11, <2>1, <2>2, <2>3 DEF TableRotationHolds, TableRotating
  <2>5. TableLookupHolds(call[c])' /\ TableLoginHolds(call[c])' /\ TableRouteHolds(call[c])' /\ TableClosingHolds(call[c])'
    BY <1>5, <1>10, <1>11 DEF TableLookupHolds, TableLooking, TableLoginHolds, TableRouteHolds,
                              TableClosingHolds
  <2>6. TableClockHolds(call[c])'
    BY <1>5, <1>9, <1>10, <1>11 DEF TableClockHolds
  <2> QED BY <2>4, <2>5, <2>6 DEF TableCallHolds
<1> QED BY <1>1, <1>7, <1>8, <1>10, <1>11, <1>12, TableInsertKeeps

LEMMA TableInsertStep ==
  ASSUME Sessions!SetupsHold, TableInv, NEW c \in Requests,
         Sessions!InsertAccess(c) \/ Sessions!InsertRefresh(c)
  PROVE  TableInv'
<1>1. PICK o \in Sessions!CallState : o = call[c] /\ TableCallHolds(o)
  BY TableCallIs
<1>2. /\ now \in Int /\ now <= MaxTime /\ AccessTtl \in Nat /\ RefreshTtl \in Nat /\ MaxTime \in Nat
      /\ setup \in Sessions!Settings
  BY DEF TableInv, Sessions!TypeOK, Sessions!SetupsHold
<1>3. CASE Sessions!InsertAccess(c)
  <2>1. o.at = "access" /\ now + AccessTtl \in Int
    BY <1>1, <1>2, <1>3 DEF Sessions!InsertAccess, Sessions!At
  <2>2. CASE o.op = "login"
    <3>1. Sessions!Insert(c, Sessions!Minted(Sessions!LoginId(c), Sessions!LoginId(c), "access", now + AccessTtl, Sessions!LoginCeiling(c), call[c].fixed),
                 "access", "pair")
      BY <1>1, <1>3, <2>2 DEF Sessions!InsertAccess
    <3> QED BY <1>1, <2>1, <2>2, <3>1, TableLoginInserts
  <2>3. CASE o.op = "refresh"
    <3>1. Sessions!Insert(c, Sessions!Minted(Sessions!Parent(c).session, Sessions!Parent(c).family, "access", now + AccessTtl, Sessions!Parent(c).ceiling,
                           Sessions!Parent(c).fixed), "access", "pair")
      BY <1>1, <1>3, <2>3 DEF Sessions!InsertAccess
    <3> QED BY <1>1, <2>1, <2>3, <3>1, TableRefreshInserts
  <2> QED BY <1>1, <1>3, <2>2, <2>3 DEF Sessions!InsertAccess
<1>4. CASE Sessions!InsertRefresh(c)
  <2>1. o.at = "pair"
    BY <1>1, <1>4 DEF Sessions!InsertRefresh, Sessions!At
  <2>2. CASE o.op = "login"
    <3>1. Sessions!Insert(c, Sessions!Minted(Sessions!LoginId(c), Sessions!LoginId(c), "refresh", now + RefreshTtl, Sessions!LoginCeiling(c), call[c].fixed),
                 "refresh", "answer")
      BY <1>1, <1>4, <2>2 DEF Sessions!InsertRefresh
    <3>2. now + RefreshTtl \in Int
      BY <1>2
    <3> QED BY <1>1, <2>1, <2>2, <3>1, <3>2, TableLoginInserts
  <2>3. CASE o.op = "refresh"
    <3>1. Sessions!Insert(c, Sessions!Minted(Sessions!Parent(c).session, Sessions!Parent(c).family, "refresh", now + Sessions!RotatedTtl(c), Sessions!Parent(c).ceiling,
                           Sessions!Parent(c).fixed), "refresh", "stamp")
      BY <1>1, <1>4, <2>3 DEF Sessions!InsertRefresh
    <3>2. /\ o.since = now /\ Sessions!Parent(c) \in Sessions!TokenRow /\ TableTokenHolds(Sessions!Parent(c)) /\ Sessions!Parent(c).kind = "refresh"
      BY <1>1, <2>1, <2>3, TableKeyTypes DEF TableCallHolds, TableRotationHolds, TableRotating,
                                             TableClockHolds, TableHeldKeys, Sessions!Keys,
                                             Sessions!Parent,
         TableInv, TableTokensHold
    <3>3. Sessions!Parent(c).until \in Int /\ Sessions!Parent(c).ceiling \in Int /\ Sessions!Parent(c).fixed \in BOOLEAN
      BY <3>2 DEF Sessions!TokenRow
    <3>4. now + Sessions!RotatedTtl(c) \in Int /\ now + Sessions!RotatedTtl(c) <= Sessions!Parent(c).ceiling
      <4>1. CASE Sessions!Parent(c).fixed \/ ~setup.sliding
        <5>1. Sessions!RotatedTtl(c) = Sessions!Parent(c).until - now
          BY <1>1, <3>2, <4>1 DEF Sessions!RotatedTtl
        <5> QED BY <1>2, <3>2, <3>3, <5>1 DEF TableTokenHolds
      <4>2. CASE ~(Sessions!Parent(c).fixed \/ ~setup.sliding)
        <5>1. Sessions!RotatedTtl(c) = RefreshTtl
          BY <4>2 DEF Sessions!RotatedTtl
        <5> QED BY <1>2, <3>2, <3>3, <4>2, <5>1 DEF TableTokenHolds
      <4> QED BY <4>1, <4>2
    <3> QED BY <1>1, <2>1, <2>3, <3>1, <3>4, TableRefreshInserts
  <2> QED BY <1>1, <1>4, <2>2, <2>3 DEF Sessions!InsertRefresh
<1> QED BY <1>3, <1>4

\* The client gets what it may be answered with, and nothing of another login.
LEMMA TableAnswerStep ==
  ASSUME TableInv, NEW c \in Requests, Sessions!Answer(c)
  PROVE  TableInv'
<1>1. PICK o \in Sessions!CallState : o = call[c] /\ TableCallHolds(o)
  BY TableCallIs
<1>2. /\ UNCHANGED <<setup, now, minted, rows, left, ended>> /\ held' = held \cup {o.access, o.refresh}
      /\ o.at = "answer" /\ call' = [call EXCEPT ![c] = Sessions!Idle]
  BY <1>1 DEF Sessions!Answer, Sessions!At, Sessions!End, Sessions!Becomes
<1>3. /\ o.access \in DOMAIN minted /\ o.refresh \in DOMAIN minted
      /\ \/ o.op = "login" /\ TableNames(o.access, o.session[2]) /\ TableNames(o.refresh, o.session[2])
         \/ \E u \in held : TableKin(o.access, u) /\ TableKin(o.refresh, u)
  <2>1. CASE o.op = "login"
    BY <1>1, <1>2, <2>1 DEF TableCallHolds, TableLoginHolds, TableNames
  <2>2. CASE o.op \in {"refresh", "redeliver"}
    BY <1>1, <1>2, <2>2 DEF TableCallHolds, TableRotationHolds, TableRotating, TableHeldKeys,
                            TableKin
  <2> QED BY <1>1, <1>2, <2>1, <2>2 DEF TableCallHolds, TableLoginHolds
<1>4. TableGrows /\ Sessions!Idle \in Sessions!CallState /\ TableCallHolds(Sessions!Idle) /\ Sessions!Idle.op = "none" /\ Sessions!Idle.at = "idle"
  BY <1>2, TableIdleHolds DEF TableGrows
<1>5. call' \in [Requests -> Sessions!CallState] /\ call'[c] = Sessions!Idle /\ \A d \in Requests : d # c => call'[d] = call[d]
  BY <1>2, <1>4 DEF TableInv, Sessions!TypeOK
<1>6. Sessions!TypeOK'
  BY <1>2, <1>3, <1>5 DEF TableInv, Sessions!TypeOK, Sessions!Keys, Sessions!Hashing
<1>7. TableCallsHold'
  <2>1. ASSUME NEW d \in Requests, d # c PROVE TableCallHolds(call[d])'
    <3>1. left' \in Sessions!Budget /\ left'["login"] <= left["login"]
      <4>1. left' = left /\ left \in Sessions!Budget /\ left["login"] \in Nat
        BY <1>2 DEF TableInv, Sessions!TypeOK, Sessions!Budget
      <4> QED BY <4>1
    <3>2. ASSUME call[d].op = "login" PROVE TableUnheld(call[d].session[2])'
      <4>1. PICK id : id = call[d].session[2]
        OBVIOUS
      <4>2. TableUnheld(id) /\ call[d].session = <<0, id>>
        <5>1. call[d] \in Sessions!CallState /\ TableCallHolds(call[d])
          BY TableCallIs
        <5>2. call[d].session \in Nat \X Nat
          BY <5>1 DEF Sessions!CallState
        <5> QED BY <3>2, <4>1, <5>1, <5>2 DEF TableCallHolds, TableLoginHolds
      <4>3. o.op = "login" => o.session[2] # id
        <5> SUFFICES ASSUME o.op = "login", o.session[2] = id PROVE FALSE
          OBVIOUS
        <5>1. o.session = <<0, id>>
          BY <1>1 DEF TableCallHolds, TableLoginHolds, Sessions!CallState
        <5> QED BY <1>1, <2>1, <3>2, <4>2, <5>1 DEF TableInv, TableCallsHold
      <4>4. \A t \in {o.access, o.refresh} : id \notin {minted[t].session, minted[t].family}
        <5>1. CASE o.op = "login" /\ TableNames(o.access, o.session[2]) /\ TableNames(o.refresh, o.session[2])
          BY <4>3, <5>1 DEF TableNames
        <5>2. CASE \E u \in held : TableKin(o.access, u) /\ TableKin(o.refresh, u)
          BY <4>2, <5>2 DEF TableUnheld, TableKin
        <5> QED BY <1>3, <5>1, <5>2
      <4>5. TableUnheld(id)'
        BY <1>2, <4>2, <4>4 DEF TableUnheld
      <4> QED BY <1>5, <2>1, <4>1, <4>5
    <3>3. call'[d] = call[d] /\ now' = now
      BY <1>2, <1>5, <2>1
    <3>4. call[d].op = "login" => TableUnheld(call[d].session[2])'
      BY <3>2
    <3> QED BY <1>4, <3>1, <3>3, <3>4, TableCallStays
  <2>2. TableCallHolds(call[c])'
    BY <1>5 DEF Sessions!Idle, Sessions!Nothing, TableCallHolds, TableLookupHolds, TableLooking,
                TableRoutes, TableRotationHolds, TableRotating,
       TableLoginHolds, TableRouteHolds, TableClosingHolds, TableRevokes, TableClockHolds
  <2>3. \A d, e \in Requests : call'[d].op = "login" /\ call'[e].op = "login"
                           /\ call'[d].session = call'[e].session => d = e
    BY <1>4, <1>5 DEF TableInv, TableCallsHold
  <2> QED BY <2>1, <2>2, <2>3 DEF TableCallsHold
<1>8. TableTokensHold'
  BY <1>2 DEF TableInv, TableTokensHold, TableTokenHolds
<1>9. \A t : TableNamesOf(t)' = TableNamesOf(t)
  BY <1>2 DEF TableNamesOf, TableSessionOf, TableFamilyOf
<1>10. \A t : TableHanded(t)' => TableHanded(t)
  <2>1. \A t \in {o.access, o.refresh} : TableHanded(t)
    BY <1>1, <1>2 DEF TableHanded, TableDelivering
  <2>2. \A d \in Requests : \A t : TableDelivering(call'[d], t) => TableDelivering(call[d], t)
    BY <1>4, <1>5 DEF TableDelivering
  <2> QED BY <1>2, <2>1, <2>2 DEF TableHanded
<1>11. TableClosed' \subseteq TableClosed
  <2>1. \A d \in Requests : call'[d].at = "done" => call[d].at = "done" /\ call'[d] = call[d]
    BY <1>4, <1>5
  <2> QED BY <1>2, <2>1 DEF TableClosed, Sessions!At
<1>12. TableRowsHold'
  <2>1. \A key \in DOMAIN rows' : TableNextHolds(key, rows[key].next)'
    BY <1>2 DEF TableInv, TableRowsHold, TableNextHolds, TableKin
  <2>2. \A e \in ended' : \E t \in held' : e \in TableNamesOf(t)'
    BY <1>2, <1>9 DEF TableInv, TableRowsHold
  <2>3. \A key \in DOMAIN rows' : TableHanded(key[1])' => TableOpen(key[1])'
    BY <1>2, <1>9, <1>10, <1>11 DEF TableInv, TableRowsHold, TableOpen
  <2> QED BY <2>1, <2>2, <2>3 DEF TableRowsHold
<1> QED BY <1>6, <1>7, <1>8, <1>12 DEF TableInv

\* Time passes, or nothing happens.
LEMMA TableTimeStep ==
  ASSUME Sessions!SetupsHold, TableInv, Sessions!Tick \/ UNCHANGED Sessions!vars
  PROVE  TableInv'
<1>1. /\ UNCHANGED <<setup, minted, rows, held, call, left, ended>>
      /\ \/ now' = now
         \/ \A c \in Requests : ~(call[c].op \in {"login", "refresh"}
                              /\ call[c].at \in {"find", "legacy", "access", "pair"})
  BY DEF Sessions!Tick, Sessions!vars
<1>2. Sessions!TypeOK'
  <2>1. now' \in 0 .. MaxTime
    BY DEF Sessions!Tick, Sessions!vars, TableInv, Sessions!TypeOK, Sessions!SetupsHold
  <2> QED BY <1>1, <2>1 DEF TableInv, Sessions!TypeOK, Sessions!Keys, Sessions!Hashing
<1>3. TableCallsHold'
  <2>1. ASSUME NEW c \in Requests PROVE TableCallHolds(call[c])'
    <3>1. TableCallHolds(call[c])
      BY TableCallIs
    <3>2. TableLookupHolds(call[c])' /\ TableRouteHolds(call[c])' /\ TableClosingHolds(call[c])'
      BY <1>1, <3>1 DEF TableCallHolds, TableLookupHolds, TableLooking, TableRouteHolds,
                        TableClosingHolds, TableHeldKeys, Sessions!Keys, Sessions!Hashing,
         TableNamesOf, TableSessionOf, TableFamilyOf
    <3>3. TableRotationHolds(call[c])' /\ TableLoginHolds(call[c])'
      BY <1>1, <3>1 DEF TableCallHolds, TableRotationHolds, TableRotating, TableLoginHolds,
                        TableHeldKeys, Sessions!Keys, Sessions!Hashing, TableKin, TableNames,
                        TableUnheld
    <3>4. TableClockHolds(call[c])'
      BY <1>1, <3>1 DEF TableCallHolds, TableClockHolds
    <3> QED BY <3>2, <3>3, <3>4 DEF TableCallHolds
  <2> QED BY <1>1, <2>1 DEF TableInv, TableCallsHold
<1>4. TableTokensHold'
  BY <1>1 DEF TableInv, TableTokensHold, TableTokenHolds
<1>5. TableRowsHold'
  BY <1>1 DEF TableInv, TableRowsHold, TableNextHolds, TableKin, TableHanded, TableDelivering,
              TableOpen, TableNamesOf, TableSessionOf, TableFamilyOf, TableClosed, Sessions!At
<1> QED BY <1>2, <1>3, <1>4, <1>5 DEF TableInv

LEMMA TableInitHolds ==
  ASSUME Sessions!SetupsHold, Sessions!Init
  PROVE  TableInv
<1>1. PICK deployment \in Tables :
         setup = deployment.settings /\ minted = deployment.legacy /\ left \in deployment.budgets
  BY DEF Sessions!Init
<1>2. /\ setup \in Sessions!Settings /\ minted \in Seq(Sessions!TokenRow) /\ left \in Sessions!Budget /\ MaxTime \in Nat
      /\ \A t \in DOMAIN minted :
            /\ minted[t].session \notin 1 .. left.login /\ minted[t].family \notin 1 .. left.login
            /\ minted[t].kind = "refresh" => minted[t].until <= minted[t].ceiling
            /\ minted[t].fixed => setup.column
            /\ minted[t].fixed \/ ~setup.sliding \/ minted[t].ceiling >= RefreshTtl + MaxTime
  BY <1>1 DEF Sessions!SetupsHold
<1>3. /\ now = 0 /\ rows = [key \in {<<t, 0>> : t \in DOMAIN minted} |-> Sessions!Fresh] /\ held = DOMAIN minted
      /\ call = [c \in Requests |-> Sessions!Idle] /\ ended = {}
  BY DEF Sessions!Init
<1>4. Sessions!Idle \in Sessions!CallState /\ Sessions!Idle.at = "idle" /\ Sessions!Idle.op = "none" /\ TableCallHolds(Sessions!Idle)
  BY TableIdleHolds
<1>5. Sessions!TypeOK
  <2>1. Sessions!Fresh \in Sessions!Row
    BY DEF Sessions!Fresh, Sessions!Row
  <2>2. DOMAIN rows \subseteq Sessions!Keys
    BY <1>3 DEF Sessions!Keys
  <2>3. rows \in [DOMAIN rows -> Sessions!Row]
    BY <1>3, <2>1
  <2> QED BY <1>2, <1>3, <1>4, <2>2, <2>3 DEF Sessions!TypeOK
<1>6. TableCallsHold
  BY <1>3, <1>4 DEF TableCallsHold
<1>7. TableTokensHold
  BY <1>2 DEF TableTokensHold, TableTokenHolds
<1>8. TableRowsHold
  <2>1. TableClosed = {}
    BY <1>3, <1>4 DEF TableClosed, Sessions!At
  <2>2. \A key \in DOMAIN rows : rows[key].next = <<0, 0>>
    BY <1>3 DEF Sessions!Fresh
  <2> QED BY <1>3, <2>1, <2>2 DEF TableRowsHold, TableNextHolds, TableOpen
<1> QED BY <1>5, <1>6, <1>7, <1>8 DEF TableInv

LEMMA TableStepHolds ==
  ASSUME Sessions!SetupsHold, TableInv, [Sessions!Next]_Sessions!vars
  PROVE  TableInv'
<1>1. ASSUME NEW c \in Requests, Sessions!CallStep(c) PROVE TableInv'
  BY <1>1, TableStartLoginStep, TableInsertStep, TableAnswerStep, TableRequestStep, TableFindStep,
     TableRotateStep, TableRouteStep, TableRevokeAllStep,
     TableSweepStep, TableListStep, TableEndStep DEF Sessions!CallStep
<1> QED BY <1>1, TableTimeStep DEF Sessions!Next

(* ------------------------------- Theorems --------------------------------- *)
LEMMA TableInvGives == TableInv => Sessions!EndedSessionsStayOut /\ Sessions!CallersAreKnown /\ Sessions!RowsKeepTheirTerms
<1>1. TableInv => Sessions!EndedSessionsStayOut
  <2> SUFFICES ASSUME TableInv, NEW key \in DOMAIN rows, key[1] \in held
               PROVE  Sessions!sessionKeyOf(key) \notin ended /\ <<-1, minted[key[1]].family>> \notin ended
    BY DEF Sessions!EndedSessionsStayOut
  <2>1. TableOpen(key[1]) /\ Sessions!sessionKeyOf(key) = TableSessionOf(key[1])
    BY TableSessionKey DEF TableInv, Sessions!TypeOK, TableRowsHold, TableHanded
  <2> QED BY <2>1 DEF TableOpen, TableNamesOf, TableFamilyOf, TableClosed
<1>2. TableInv => Sessions!CallersAreKnown
  <2> SUFFICES ASSUME TableInv, NEW c \in Requests
               PROVE  /\ call[c].at \notin {"idle", "find", "legacy"} => call[c].v[2] = 0
                      /\ Sessions!At(c, "reply") /\ call[c].key \in call[c].work
                            => call[c].session \in {Sessions!sessionKeyOf(key) : key \in call[c].work}
                      /\ Sessions!At(c, "delete") /\ call[c].op = "others" => call[c].key \notin call[c].work
    BY DEF Sessions!CallersAreKnown
  <2>1. TableCallHolds(call[c])
    BY TableCallIs
  <2>2. Sessions!At(c, "reply") => Sessions!sessionKeyOf(call[c].key) = call[c].session
    BY <2>1, TableSessionKey DEF Sessions!At, TableCallHolds, TableRouteHolds, TableHeldKeys
  <2> QED BY <2>1, <2>2 DEF Sessions!At, TableCallHolds, TableLookupHolds, TableRouteHolds
<1>3. TableInv => Sessions!RowsKeepTheirTerms
  BY DEF TableInv, Sessions!TypeOK, Sessions!Keys, TableTokensHold, TableTokenHolds,
         Sessions!RowsKeepTheirTerms, Sessions!Kind
<1> QED BY <1>1, <1>2, <1>3

(* -------------------------- The table in Authorization -------------------- *)
LEMMA SessionsBegin == ServerInit => (start = "sessions" => TableInv)
<1> SUFFICES ASSUME ServerInit, start = "sessions" PROVE TableInv
  OBVIOUS
<1>1. Sessions!Init
  BY DEF ServerInit
<1> QED BY <1>1, TableInitHolds, SetupAssumption

LEMMA SessionsGoOn ==
  (start = "sessions" => TableInv) /\ [ServerNext]_serverVars => (start = "sessions" => TableInv)'
<1> SUFFICES ASSUME start = "sessions" => TableInv, [ServerNext]_serverVars, start' = "sessions"
             PROVE  TableInv'
  OBVIOUS
<1>1. start = "sessions" /\ [Sessions!Next]_Sessions!vars
  <2>1. CASE UNCHANGED serverVars
    BY <2>1 DEF serverVars, tableVars, Sessions!vars
  <2>2. CASE ServerNext
    BY <2>2 DEF ServerNext
  <2> QED BY <2>1, <2>2
<1>2. TableInv /\ [Sessions!Next]_Sessions!vars => TableInv'
  BY TableStepHolds, SetupAssumption
<1> QED BY <1>1, <1>2

\* The inductive invariant: closed sessions have no row of a token a client has or may yet
\* be answered with, and every lookup, rotation, login and revocation in flight works for
\* the session it began with.
THEOREM TableInvCorrect == ServerSpec => [](start = "sessions" => TableInv)
  BY SessionsBegin, SessionsGoOn, PTL DEF ServerSpec

\* However revocations, rotations, lookups and touches of the table overlap, no row of a
\* token that a client has opens a session whose revocation has returned
\* (CredentialStoreAtscriptDb: sweepUntilEmpty, assertStillLive, touch, update).
THEOREM RevocationsEndSessions == ServerSpec => []EndedSessionsStayOut
<1>1. (start = "sessions" => TableInv) => EndedSessionsStayOut
  BY TableInvGives DEF EndedSessionsStayOut
<1> QED BY <1>1, TableInvCorrect, PTL

\* With hashing off, on or under way, a request is let in by a token and never by the
\* credentialId it was shown, and its caller is of the session the listings say
\* (CredentialStoreAtscriptDb: find, mayBeLegacyKey; sessionKeyOf).
THEOREM CallersAreTheirTokens == ServerSpec => []CallersAreKnown
<1>1. (start = "sessions" => TableInv) => CallersAreKnown
  BY TableInvGives DEF CallersAreKnown
<1> QED BY <1>1, TableInvCorrect, PTL

\* No number of rotations takes a session past the end its login gave it, when it or the
\* deployment may not slide (issueRotatedPair, checkMetadata).
THEOREM TermsAreKept == ServerSpec => []RowsKeepTheirTerms
<1>1. (start = "sessions" => TableInv) => RowsKeepTheirTerms
  BY TableInvGives DEF RowsKeepTheirTerms
<1> QED BY <1>1, TableInvCorrect, PTL
==================================================================================
