--------------------------- MODULE DatabaseSessions ---------------------------
(***************************************************************************)
(* AuthCredential over CredentialStoreAtscriptDb, one statement of the SQL  *)
(* store per step, behind the HTTP routes that use it: the guard that       *)
(* validates a request's token, the refresh, logout and status routes and   *)
(* the "active sessions" ones.  Module AuthCredential has the protocol over *)
(* a store whose operations are atomic; here the store is a table, its      *)
(* update a findOne and a replaceOne, its touch the same or a patch, and    *)
(* tokens may be hashed at rest, with rows left from before hashing.        *)
(*                                                                         *)
(* A value a request can present is <<t, n>>: token t hashed n times.  The  *)
(* table's keys are such values too, and so is the fingerprint of a token.  *)
(* One user's rows; a listing's labels, order and kinds are left out.       *)
(***************************************************************************)
EXTENDS Integers, Sequences, FiniteSets, Functions, TLC

CONSTANTS Call,         \* slots for requests in flight, on any server
          Setups,       \* deployments
          AccessTtl, RefreshTtl,
          MaxTokens,    \* bound: tokens ever minted, the legacy ones included
          MaxTime,      \* bound: the clock
          MaxPasses     \* MAX_REVOKE_PASSES (8 in the code)

VARIABLES setup,        \* the deployment's settings
          now,
          token,        \* what the row of each minted token says for good
          rows,         \* the table: key -> [rotated, next]
          held,         \* tokens a client was answered with
          call,         \* requests in flight
          left,         \* what remains of the bound
          ended         \* ghost: the sessions a revocation has answered for

vars == <<setup, now, token, rows, held, call, left, ended>>

\* A deployment has its settings -- hash ("off", "migrate", "on": tokens.hashAtRest),
\* column (the table keeps metadata), patch (it has updateOne), sliding, grace --, what the
\* rows left from before hashing say, and, as a bound, how many requests of each kind, and
\* faults, it sees.
Nothing == <<0, 0>>
Idle == [at |-> "idle", op |-> "none", v |-> Nothing, key |-> Nothing, session |-> Nothing,
         body |-> 0, since |-> 0, fixed |-> FALSE, access |-> 0, refresh |-> 0,
         pass |-> 0, work |-> {}, closes |-> {}]

At(c, step) == call[c].at = step
Becomes(c, next) == call' = [call EXCEPT ![c] = next]
GoTo(c, step) == Becomes(c, [call[c] EXCEPT !.at = step])
End(c) == Becomes(c, Idle)
Spend(kind) == left[kind] > 0 /\ left' = [left EXCEPT ![kind] = @ - 1]

(* --------------------------- Tokens and keys ---------------------------- *)
Fingerprint(v) == <<v[1], v[2] + 1>>
Hashing == setup.hash # "off"

keyOf(v) == IF Hashing THEN Fingerprint(v) ELSE v
fingerprintOfKey(key) == IF Hashing /\ key[2] > 0 THEN key ELSE Fingerprint(key)

\* Mutant: whatever the table is asked for may be a legacy key.
AnyLegacyKey(v) == setup.hash = "migrate"
\* A value shaped like a hash never is.
mayBeLegacyKey(v) == setup.hash = "migrate" /\ v[2] = 0

\* The session of a row: its sessionId (<<0, n>>), or the fingerprint of its token.
OwnSession(key) ==
    IF token[key[1]].session = 0 THEN fingerprintOfKey(key) ELSE <<0, token[key[1]].session>>
\* Mutant: the key is taken for the token.
SessionOfRawKey(key) ==
    IF token[key[1]].session = 0 THEN Fingerprint(key) ELSE <<0, token[key[1]].session>>
sessionKeyOf(key) == OwnSession(key)

Expired(key) == token[key[1]].until <= now
Live(key) == key \in DOMAIN rows /\ ~Expired(key)
Listed == {key \in DOMAIN rows : ~Expired(key)}
Without(keys) == Restrict(rows, DOMAIN rows \ keys)

\* retrieve: the row, unless it is past its end and deleted (it never comes back to
\* life, so its deletion is the same step).
Retrieve(key) == rows' = IF Live(key) THEN rows ELSE Without({key})

(* ------------------- issue, put: the access row, the refresh row --------- *)
\* Mutant: a restriction the table has no column for is dropped.
DropsMetadata(fixed) == TRUE
\* A credential with restrictions is refused by a table without the column for them.
checkMetadata(fixed) == fixed => setup.column

StartLogin(c, fixed) ==
    /\ At(c, "idle") /\ Spend("login")
    /\ checkMetadata(fixed)
    /\ Becomes(c, [Idle EXCEPT !.at = "access", !.op = "login", !.since = now, !.fixed = fixed,
                               !.session = <<0, left.login>>])
    /\ UNCHANGED <<setup, now, token, rows, held, ended>>

\* stateToRow: the restriction is only in the row when the table has the column.
Minted(session, family, kind, until, ceiling, fixed) ==
    [session |-> session, family |-> family, kind |-> kind, until |-> until,
     ceiling |-> ceiling, fixed |-> fixed /\ setup.column]
Fresh == [rotated |-> -1, next |-> <<0, 0>>]

\* insertOne.
Insert(c, record, field, step) ==
    LET t == Len(token) + 1
    IN /\ t <= MaxTokens
       /\ token' = Append(token, record)
       /\ rows' = [key \in DOMAIN rows \cup {keyOf(<<t, 0>>)} |->
                    IF key \in DOMAIN rows THEN rows[key] ELSE Fresh]
       /\ Becomes(c, [call[c] EXCEPT !.at = step, ![field] = t])
       /\ UNCHANGED <<setup, now, held, left, ended>>

LoginId(c) == call[c].session[2]
Parent(c) == token[call[c].key[1]]
\* ghost: a login with the restriction, or of an instance that does not slide, ends then.
LoginCeiling(c) ==
    call[c].since + RefreshTtl + IF call[c].fixed \/ ~setup.sliding THEN 0 ELSE MaxTime

\* A row's end is its lifetime counted from the insert.  issueAccessFromRefresh: the
\* payload, the session and the restrictions are carried on.
InsertAccess(c) ==
    /\ At(c, "access")
    /\ \/ /\ call[c].op = "login"
          /\ Insert(c, Minted(LoginId(c), LoginId(c), "access", now + AccessTtl,
                              LoginCeiling(c), call[c].fixed), "access", "pair")
       \/ /\ call[c].op = "refresh"
          /\ Insert(c, Minted(Parent(c).session, Parent(c).family, "access", now + AccessTtl,
                              Parent(c).ceiling, Parent(c).fixed), "access", "pair")

\* The lifetime of a rotated refresh token: a family with the restriction, or of an
\* instance that does not slide, has what remains of its own.
RotatedTtl(c) ==
    IF Parent(c).fixed \/ ~setup.sliding THEN Parent(c).until - call[c].since ELSE RefreshTtl

InsertRefresh(c) ==
    /\ At(c, "pair")
    /\ \/ /\ call[c].op = "login"
          /\ Insert(c, Minted(LoginId(c), LoginId(c), "refresh", now + RefreshTtl,
                              LoginCeiling(c), call[c].fixed), "refresh", "answer")
       \/ /\ call[c].op = "refresh"
          /\ Insert(c, Minted(Parent(c).session, Parent(c).family, "refresh", now + RotatedTtl(c),
                              Parent(c).ceiling, Parent(c).fixed), "refresh", "stamp")

\* The pair reaches the client.
Answer(c) ==
    /\ At(c, "answer") /\ End(c)
    /\ held' = held \cup {call[c].access, call[c].refresh}
    /\ UNCHANGED <<setup, now, token, rows, left, ended>>

(* ----------------------- The guard; find, validate ----------------------- *)
\* extractToken takes the bearer token or the session cookie, resolveRefreshToken the
\* body's or the refresh cookie: a value the client was given.  An application may
\* mistake the credentialId it was shown for a token.
Presented == {<<t, n>> : t \in held, n \in {0, 1}}

Request(c, v, op) ==
    /\ At(c, "idle") /\ Spend(op)
    /\ Becomes(c, [Idle EXCEPT !.at = "find", !.op = op, !.v = v, !.since = now])
    /\ UNCHANGED <<setup, now, token, rows, held, ended>>

Kind(key) == token[key[1]].kind
Within(key, since) == setup.grace > 0 /\ since - rows[key].rotated <= setup.grace

\* respondToRefreshReuse: the session, or the user when the row has none.
Theft(c, key) ==
    Becomes(c, [call[c] EXCEPT !.at = IF token[key[1]].session = 0 THEN "purge" ELSE "list",
                               !.op = "theft", !.session = sessionKeyOf(key), !.key = key])

\* refresh: what a row that was found is good for.
FoundRefresh(c, key) ==
    LET row == rows[key]
    IN IF Kind(key) # "refresh" THEN End(c)
       ELSE CASE row.rotated < 0 -> Becomes(c, [call[c] EXCEPT !.at = "access", !.key = key])
              [] row.rotated >= 0 /\ (~Within(key, call[c].since) \/ row.next = <<0, 0>>) -> Theft(c, key)
              [] OTHER -> Becomes(c, [call[c] EXCEPT !.at = "find", !.op = "redeliver", !.key = key,
                                                     !.v = <<row.next[2], 0>>,
                                                     !.access = row.next[1], !.refresh = row.next[2]])

\* rotateWithGrace: the pair is delivered again while its refresh token is current.
FoundSuccessor(c, key) ==
    IF rows[key].rotated >= 0 THEN Theft(c, call[c].key) ELSE GoTo(c, "answer")

\* validate: the request is the user's, of the row's session.
FoundAccess(c, key) ==
    IF Kind(key) = "refresh" THEN End(c)
    ELSE Becomes(c, [call[c] EXCEPT !.at = "touch", !.key = key, !.session = OwnSession(key)])

Found(c, key) ==
    CASE call[c].op = "refresh" -> FoundRefresh(c, key)
      [] call[c].op = "redeliver" -> FoundSuccessor(c, key)
      [] OTHER -> FoundAccess(c, key)

NotFound(c) == IF call[c].op = "redeliver" THEN Theft(c, call[c].key) ELSE End(c)

\* find: by the store key, then by the token itself.
Find(c) ==
    /\ At(c, "find")
    /\ LET key == keyOf(call[c].v)
       IN /\ Retrieve(key)
          /\ IF Live(key) THEN Found(c, key)
             ELSE IF mayBeLegacyKey(call[c].v) THEN GoTo(c, "legacy") ELSE NotFound(c)
    /\ UNCHANGED <<setup, now, token, held, left, ended>>
FindLegacy(c) ==
    /\ At(c, "legacy")
    /\ Retrieve(call[c].v)
    /\ IF Live(call[c].v) THEN Found(c, call[c].v) ELSE NotFound(c)
    /\ UNCHANGED <<setup, now, token, held, left, ended>>

(* ------------- update: findOne, replaceOne; the final look; the undo ------------- *)
Stamp(c) ==
    /\ At(c, "stamp")
    /\ rows' = IF call[c].key \in DOMAIN rows /\ Expired(call[c].key)
               THEN Without({call[c].key}) ELSE rows
    /\ GoTo(c, IF Live(call[c].key) THEN "replace" ELSE "look")
    /\ UNCHANGED <<setup, now, token, held, left, ended>>

Stamped(c) == [rotated |-> call[c].since, next |-> <<call[c].access, call[c].refresh>>]
\* Mutant: the write inserts a row that is gone.
ReplaceUpserts(c) ==
    /\ At(c, "replace")
    /\ rows' = (call[c].key :> Stamped(c)) @@ rows
    /\ GoTo(c, "look")
    /\ UNCHANGED <<setup, now, token, held, left, ended>>
Replace(c) ==
    /\ At(c, "replace")
    /\ rows' = IF call[c].key \in DOMAIN rows THEN [rows EXCEPT ![call[c].key] = Stamped(c)] ELSE rows
    /\ GoTo(c, "look")
    /\ UNCHANGED <<setup, now, token, held, left, ended>>

\* assertStillLive.
Look(c) ==
    /\ At(c, "look")
    /\ Retrieve(call[c].key)
    /\ IF Live(call[c].key) THEN GoTo(c, "answer")
       ELSE Becomes(c, [call[c] EXCEPT !.at = "delete", !.op = "undo",
                                       !.work = {keyOf(<<call[c].access, 0>>),
                                                 keyOf(<<call[c].refresh, 0>>)}])
    /\ UNCHANGED <<setup, now, token, held, left, ended>>

(* ------------------------------- touch --------------------------------- *)
\* One patch, or a findOne and a replaceOne; either leaves a row that is gone alone, and
\* changes nothing that anything here depends on.
Touch(c) ==
    /\ At(c, "touch")
    /\ GoTo(c, IF ~setup.patch /\ Live(call[c].key) THEN "touched" ELSE "route")
    /\ UNCHANGED <<setup, now, token, rows, held, left, ended>>
\* Mutant: the write inserts a row that is gone.
TouchUpserts(c) ==
    /\ At(c, "touched")
    /\ rows' = (call[c].key :> Fresh) @@ rows
    /\ GoTo(c, "route")
    /\ UNCHANGED <<setup, now, token, held, left, ended>>
TouchWrites(c) ==
    /\ At(c, "touched") /\ GoTo(c, "route")
    /\ UNCHANGED <<setup, now, token, rows, held, left, ended>>

(* ------------------------------- The routes ------------------------------ *)
\* Sessions every token of which a client has: a revocation that begins now and returns
\* has ended them.
SessionsHeld == {sessionKeyOf(keyOf(<<t, 0>>)) : t \in held}
Families(tokens) == {<<-1, token[t].family>> : t \in tokens}

\* status answers; the others go on, logout with the refresh token of the body if any.
Status(c) ==
    /\ At(c, "route") /\ call[c].op = "status" /\ End(c)
    /\ UNCHANGED <<setup, now, token, rows, held, left, ended>>
ListRoute(c) ==
    /\ At(c, "route") /\ call[c].op = "sessions"
    /\ GoTo(c, "list")
    /\ UNCHANGED <<setup, now, token, rows, held, left, ended>>
RevokeRoute(c) ==
    /\ At(c, "route") /\ call[c].op = "revoke"
    /\ \E s \in SessionsHeld :
          Becomes(c, [call[c] EXCEPT !.at = "list", !.session = s, !.closes = {s}])
    /\ UNCHANGED <<setup, now, token, rows, held, left, ended>>
OthersRoute(c) ==
    /\ At(c, "route") /\ call[c].op = "others"
    /\ Becomes(c, [call[c] EXCEPT !.at = "list", !.closes = SessionsHeld \ {call[c].session}])
    /\ UNCHANGED <<setup, now, token, rows, held, left, ended>>
LogoutRoute(c) ==
    /\ At(c, "route") /\ call[c].op = "logout"
    /\ \E body \in {0} \cup {t \in held : token[t].kind = "refresh"} :
          Becomes(c, [call[c] EXCEPT !.at = "list", !.body = body, !.closes = {call[c].session}])
    /\ UNCHANGED <<setup, now, token, rows, held, left, ended>>

\* revokeAllForUser, which a change of password or an administrator calls.
RevokeAll(c) ==
    /\ At(c, "idle") /\ Spend("revokeAll")
    /\ Becomes(c, [Idle EXCEPT !.at = "purge", !.op = "revokeAll",
                               !.closes = SessionsHeld \cup Families(held)])
    /\ UNCHANGED <<setup, now, token, rows, held, ended>>

(* --------------------- sweepUntilEmpty, revokeAllForUser ------------------ *)
Purging(c) == call[c].op = "revokeAll" \/ (call[c].op = "theft" /\ token[call[c].key[1]].session = 0)
Matches(c, key) ==
    CASE Purging(c) -> TRUE
      [] call[c].op = "others" -> sessionKeyOf(key) # call[c].session
      [] OTHER -> sessionKeyOf(key) = call[c].session

\* deleteMany, then a listing.
Purge(c) ==
    /\ At(c, "purge")
    /\ rows' = <<>>
    /\ Becomes(c, IF call[c].pass > MaxPasses THEN Idle ELSE [call[c] EXCEPT !.at = "list"])
    /\ UNCHANGED <<setup, now, token, held, left, ended>>

\* listForUser reads the rows in one statement and deletes the expired ones.
List(c) ==
    /\ At(c, "list")
    /\ rows' = Restrict(rows, Listed)
    /\ LET found == IF call[c].op = "sessions" THEN Listed ELSE {key \in Listed : Matches(c, key)}
       IN CASE call[c].op = "sessions" -> Becomes(c, [call[c] EXCEPT !.at = "reply", !.work = found])
            [] call[c].op # "sessions" /\ found = {} -> GoTo(c, "done")
            [] OTHER -> Becomes(c, [call[c] EXCEPT !.at = IF Purging(c) THEN "purge" ELSE "delete",
                                                   !.pass = @ + 1, !.work = found])
    /\ UNCHANGED <<setup, now, token, held, left, ended>>

\* listSessions groups the rows; the caller's own session is marked.
Reply(c) ==
    /\ At(c, "reply") /\ End(c)
    /\ UNCHANGED <<setup, now, token, rows, held, left, ended>>

\* The deletes of a pass, of an undo and of a logout run in parallel.
Delete(c) ==
    /\ At(c, "delete")
    /\ \E key \in call[c].work :
          /\ rows' = Without({key})
          /\ Becomes(c, [call[c] EXCEPT !.work = @ \ {key}])
    /\ UNCHANGED <<setup, now, token, held, left, ended>>
Deleted(c) ==
    /\ At(c, "delete") /\ call[c].work = {}
    /\ IF call[c].op \in {"undo", "tokens"} THEN End(c)
       ELSE GoTo(c, IF call[c].pass > MaxPasses THEN "failed" ELSE "list")
    /\ UNCHANGED <<setup, now, token, rows, held, left, ended>>

\* revoke(token) of a logout: the row under the store key and, when it may be a legacy
\* one, under the token.
KeysOf(v) == {keyOf(v)} \cup IF mayBeLegacyKey(v) THEN {v} ELSE {}
Fallback(c) ==
    Becomes(c, [call[c] EXCEPT !.at = "delete", !.op = "tokens",
                               !.work = KeysOf(call[c].v) \cup
                                        IF call[c].body = 0 THEN {} ELSE KeysOf(<<call[c].body, 0>>)])

\* The revocation returns.
Done(c) ==
    /\ At(c, "done")
    /\ ended' = ended \cup call[c].closes
    /\ IF call[c].op = "logout" THEN Fallback(c) ELSE End(c)
    /\ UNCHANGED <<setup, now, token, rows, held, left>>

\* It gave up; a logout goes on with the tokens themselves.
GaveUp(c) ==
    /\ At(c, "failed")
    /\ IF call[c].op = "logout" THEN Fallback(c) ELSE End(c)
    /\ UNCHANGED <<setup, now, token, rows, held, left, ended>>

(* -------------------------------- Faults -------------------------------- *)
\* A statement fails, or the server dies; a logout goes on after the former.
Fail(c) ==
    /\ ~At(c, "idle") /\ Spend("fault")
    /\ \/ End(c)
       \/ call[c].op = "logout" /\ call[c].at \in {"list", "delete"} /\ GoTo(c, "failed")
    /\ UNCHANGED <<setup, now, token, rows, held, ended>>

\* Bound: a pair is inserted within a tick of the clock its request read.
Tick ==
    /\ now < MaxTime
    /\ \A c \in Call : ~(call[c].op \in {"login", "refresh"}
                          /\ call[c].at \in {"find", "legacy", "access", "pair"})
    /\ now' = now + 1
    /\ UNCHANGED <<setup, token, rows, held, call, left, ended>>

(* ------------------------------ Specification ---------------------------- *)
Init ==
    /\ now = 0
    /\ \E deployment \in Setups :
          /\ setup = deployment.settings /\ token = deployment.legacy
          /\ left \in deployment.budgets
    /\ rows = [key \in {<<t, 0>> : t \in DOMAIN token} |-> Fresh]
    /\ held = DOMAIN token
    /\ call = [c \in Call |-> Idle]
    /\ ended = {}

CallStep(c) ==
    \/ \E fixed \in BOOLEAN : StartLogin(c, fixed)
    \/ InsertAccess(c) \/ InsertRefresh(c) \/ Answer(c)
    \/ \E v \in Presented, op \in {"refresh", "status", "sessions", "revoke", "others", "logout"} :
          Request(c, v, op)
    \/ Find(c) \/ FindLegacy(c)
    \/ Stamp(c) \/ Replace(c) \/ Look(c)
    \/ Touch(c) \/ TouchWrites(c)
    \/ Status(c) \/ ListRoute(c) \/ RevokeRoute(c) \/ OthersRoute(c) \/ LogoutRoute(c)
    \/ RevokeAll(c) \/ Purge(c) \/ List(c) \/ Reply(c) \/ Delete(c) \/ Deleted(c)
    \/ Done(c) \/ GaveUp(c) \/ Fail(c)
Next == Tick \/ \E c \in Call : CallStep(c)
Spec == Init /\ [][Next]_vars

(* --------------------------------- Types -------------------------------- *)
Settings == [hash : {"off", "migrate", "on"}, column : BOOLEAN, patch : BOOLEAN, sliding : BOOLEAN,
             grace : Int]
TokenRow == [session : Nat, family : Nat, kind : {"access", "refresh"}, until : Int, ceiling : Int,
             fixed : BOOLEAN]
Row == [rotated : Int, next : Nat \X Nat]
\* A row's key: a token or, where they are hashed, its fingerprint.
Keys == {key \in (DOMAIN token) \X {0, 1} : Hashing \/ key[2] = 0}
Budget == [{"login", "refresh", "status", "sessions", "revoke", "others", "logout", "revokeAll",
            "fault"} -> Nat]
CallState == [at : {"idle", "find", "legacy", "access", "pair", "stamp", "replace", "look", "answer",
                    "touch", "touched", "route", "list", "purge", "delete", "reply", "done", "failed"},
              op : {"none", "login", "refresh", "redeliver", "theft", "undo", "status", "sessions",
                    "revoke", "others", "logout", "tokens", "revokeAll"},
              v : Nat \X Nat, key : Nat \X Nat, session : Nat \X Nat, body : Nat, since : Int,
              fixed : BOOLEAN, access : Nat, refresh : Nat, pass : Nat,
              work : SUBSET (Nat \X Nat), closes : SUBSET (Int \X Nat)]

TypeOK ==
    /\ setup \in Settings /\ now \in 0 .. MaxTime
    /\ token \in Seq(TokenRow)
    /\ rows \in [DOMAIN rows -> Row]
    /\ DOMAIN rows \subseteq Keys
    /\ held \subseteq DOMAIN token
    /\ call \in [Call -> CallState]
    /\ left \in Budget
    /\ ended \subseteq Int \X Nat

\* What deployments are: lifetimes are numbers; the ids of new sessions are new; a row
\* from before hashing has the end it was given, which one that may slide can still reach,
\* and a restriction only where the table has the column for it.
SetupsHold ==
    /\ AccessTtl \in Nat /\ RefreshTtl \in Nat /\ MaxTime \in Nat
    /\ \A deployment \in Setups :
          /\ deployment.settings \in Settings /\ deployment.legacy \in Seq(TokenRow)
          /\ deployment.budgets \subseteq Budget
          /\ \A t \in DOMAIN deployment.legacy :
                LET row == deployment.legacy[t]
                IN /\ \A budget \in deployment.budgets :
                         row.session \notin 1 .. budget.login /\ row.family \notin 1 .. budget.login
                   /\ row.kind = "refresh" => row.until <= row.ceiling
                   /\ row.fixed => deployment.settings.column
                   /\ row.fixed \/ ~deployment.settings.sliding \/ row.ceiling >= RefreshTtl + MaxTime

(* ------------------------------- Properties ------------------------------ *)
\* Once a revocation has returned, no token a client was answered with opens a session it
\* was for: the store's separate reads and writes bring no row back (update, touch), and
\* a rotation under way leaves none (sweepUntilEmpty, assertStillLive).
EndedSessionsStayOut ==
    \A key \in DOMAIN rows : key[1] \in held =>
        sessionKeyOf(key) \notin ended /\ <<-1, token[key[1]].family>> \notin ended

\* With and without hashing, and for rows left from before it: only a token is taken for
\* one, never the credentialId a client is shown; and the session a caller is validated
\* as is the one the listings know it by, so that it finds itself in its list and is
\* spared by "log out everywhere else" (find, sessionKeyOf).
CallersAreKnown ==
    \A c \in Call :
        /\ call[c].at \notin {"idle", "find", "legacy"} => call[c].v[2] = 0
        /\ At(c, "reply") /\ call[c].key \in call[c].work
              => call[c].session \in {sessionKeyOf(key) : key \in call[c].work}
        /\ At(c, "delete") /\ call[c].op = "others" => call[c].key \notin call[c].work

\* However often it is rotated, a session never outlives the end it was given at its
\* login when its restrictions, or the deployment, forbid it to slide, whether or not the
\* table can keep restrictions (checkMetadata, issueRotatedPair).
RowsKeepTheirTerms ==
    \A key \in DOMAIN rows : Kind(key) = "refresh" => token[key[1]].until <= token[key[1]].ceiling
=============================================================================
