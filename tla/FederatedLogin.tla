--------------------------- MODULE FederatedLogin ---------------------------
(***************************************************************************)
(* Signing in through an identity provider: the round trip over the         *)
(* browser (a signed state, a cookie with its seed, a PKCE verifier and a   *)
(* nonce derived from the seed), FederatedLoginService over the user store  *)
(* and the table of linked identities, and the connected accounts of the    *)
(* OAuth controller.  Every call to a store is a step of its own, so logins,*)
(* links and removals overlap, and a call may die after any of them.        *)
(*                                                                         *)
(* One trusted provider; its accounts are Subjects.  A user is its name,    *)
(* by which or by whose email it is found.  Outside: the provider, which    *)
(* binds a code to the challenge and nonce of the request it answers.       *)
(***************************************************************************)
EXTENDS Integers, Sequences, FiniteSets, TLC

CONSTANTS
    Call,         \* calls in flight
    Browsers,
    Subjects,     \* accounts at the provider
    Emails,       \* Subjects -> the email in the profile, "" for none
    Verified,     \* the Subjects whose email is verified
    Locals,       \* name -> [email, initial, active]: the users there are
    Linked,       \* the identity rows there are, a sequence of [sub, user]
    Policies,     \* [emailMatch, allowSignup]
    MaxFlows,     \* bound: round trips begun
    MaxRows,      \* bound: identity rows
    MaxEvents,    \* bound: calls made
    TtlSec, MaxTime

VARIABLES
    policy,       \* FederatedPolicy: constant
    users,        \* name -> [email, initial, active]
    rows,         \* identity rows: id -> [sub, user]
    removed,      \* ids of the rows that were unlinked
    flows,        \* the signed states, by seed: [browser, user, exp]
    cookie,       \* the seed in each browser's cookie
    codes,        \* codes of the provider: [seed, sub]
    call,         \* calls in flight
    earned,       \* ghost: <<subject, user>> that belong together
    entered,      \* ghost: <<subject, user>> some call signed in
    now, events

vars == <<policy, users, rows, removed, flows, cookie, codes, call, earned, entered, now, events>>

\* The table as it is at first: one row per subject, of users there are.
TablesHold ==
    /\ Linked \in Seq([sub : Subjects, user : DOMAIN Locals])
    /\ \A i, j \in DOMAIN Linked : Linked[i].sub = Linked[j].sub => i = j
    /\ TtlSec \in Nat

NoUser == ""
NoRow == [id |-> 0, sub |-> "", user |-> NoUser]
Idle == [at |-> "idle", browser |-> 0, sub |-> "", user |-> NoUser, row |-> NoRow,
         ends |-> "gate"]
At(c, label) == call[c].at = label
RowsOf(sub) == {i \in DOMAIN rows : rows[i].sub = sub}
Owned(user) == {i \in DOMAIN rows : rows[i].user = user}
\* findByHandle: the username or the email.
Holding(handle) == {n \in DOMAIN users : n = handle \/ users[n].email = handle}
Fallback(sub) == "idp:" \o sub
\* defaultUsernameStrategy
Desired(sub) == IF Emails[sub] # "" THEN Emails[sub] ELSE Fallback(sub)
CanAutoLink(sub) == policy.emailMatch = "auto-link-if-verified" /\ sub \in Verified

Earn(sub, user) == earned' = earned \cup {<<sub, user>>}
Goes(c, record) == call' = [call EXCEPT ![c] = record]
\* The login goes on to its gate, or a link is done.
Ends(c) == Goes(c, IF call[c].ends = "idle" THEN Idle
                   ELSE [call[c] EXCEPT !.at = call[c].ends, !.row = NoRow])
Happens == events < MaxEvents /\ events' = events + 1

Init ==
    /\ policy \in Policies
    /\ users = Locals
    /\ rows = Linked
    /\ removed = {}
    /\ flows = <<>>
    /\ cookie = [b \in Browsers |-> 0]
    /\ codes = {}
    /\ call = [c \in Call |-> Idle]
    /\ earned = {<<Linked[i].sub, Linked[i].user>> : i \in DOMAIN Linked}
    /\ entered = {}
    /\ now = 0 /\ events = 0

(* ----------------------------- The round trip ---------------------------- *)
\* The signed state, and the seed its nonce and its PKCE verifier derive from.
Authorization(b, user) == [browser |-> b, user |-> user, exp |-> now + TtlSec]

\* beginSso of the login form (no user) and GET :provider/link of a user who is
\* signed in: mints the state and leaves its seed in the browser.
Begin(b, user) ==
    /\ Len(flows) < MaxFlows
    /\ flows' = Append(flows, Authorization(b, user))
    /\ cookie' = [cookie EXCEPT ![b] = Len(flows) + 1]
    /\ UNCHANGED <<policy, users, rows, removed, codes, call, earned, entered, now, events>>

\* External: someone signs in at the provider and consents.
Grant(seed, sub) ==
    /\ seed \in DOMAIN flows
    /\ \A k \in codes : k.seed # seed
    /\ codes' = codes \cup {[seed |-> seed, sub |-> sub]}
    /\ UNCHANGED <<policy, users, rows, removed, flows, cookie, call, earned, entered, now, events>>

VerifyState(seed) == now < flows[seed].exp
\* Mutant: the seed in the cookie is not compared.
CsrfHoldsAlways(b, seed) == TRUE
CsrfHolds(b, seed) == cookie[b] = seed

\* The provider takes the code with the verifier of the seed only, and the ID token
\* carries its nonce.
Exchanges(k, seed) == k.seed = seed

\* sso-callback with the state of `seed` and code `k`: a state that is not valid, a
\* seed that is not the cookie's, a code the provider refuses or an ID token with
\* another nonce end in the same redirect, and change nothing.
Callback(c, b, seed, k) ==
    LET flow == flows[seed]
        begun == [Idle EXCEPT !.browser = b, !.sub = k.sub, !.user = flow.user]
    IN /\ At(c, "idle") /\ Happens
       /\ VerifyState(seed) /\ CsrfHolds(b, seed)
       /\ Exchanges(k, seed)
       /\ codes' = codes \ {k}
       /\ IF flow.user # NoUser
          THEN /\ Goes(c, [begun EXCEPT !.at = "linkIdentity", !.ends = "idle"])
               /\ earned' = IF b = flow.browser THEN earned \cup {<<k.sub, flow.user>>} ELSE earned
          ELSE Goes(c, [begun EXCEPT !.at = "resolve"]) /\ UNCHANGED earned
       /\ UNCHANGED <<policy, users, rows, removed, flows, cookie, entered, now>>

(* ------------------------------ resolveUser ------------------------------ *)
\* 1. A known identity is its user's.
Resolve(c) ==
    LET q == call[c] IN
    /\ At(c, "resolve")
    /\ IF RowsOf(q.sub) # {}
       THEN \E i \in RowsOf(q.sub) :
                Goes(c, [q EXCEPT !.at = "touchFind", !.user = rows[i].user, !.ends = "gate"])
       ELSE Goes(c, [q EXCEPT !.at = IF Emails[q.sub] # "" /\ policy.emailMatch # "create-separate"
                                     THEN "match" ELSE "create"])
    /\ UNCHANGED <<policy, users, rows, removed, flows, cookie, codes, earned, entered, now, events>>

\* 2. A user of that email: linked at once if the policy trusts the claim, else
\* somebody has to prove control of the account.
Match(c) ==
    LET q == call[c]
        found == Holding(Emails[q.sub])
    IN /\ At(c, "match")
       /\ IF found = {} THEN Goes(c, [q EXCEPT !.at = "create"]) /\ UNCHANGED earned
          ELSE \E n \in found :
               IF CanAutoLink(q.sub)
               THEN /\ Goes(c, [q EXCEPT !.at = "link", !.user = n, !.ends = "gate"])
                    /\ Earn(q.sub, n)
               ELSE Goes(c, [q EXCEPT !.at = "prove", !.user = n]) /\ UNCHANGED earned
       /\ UNCHANGED <<policy, users, rows, removed, flows, cookie, codes, entered, now, events>>

\* 3. A new user; a name that is taken is replaced once.
CreateFederatedUser(c) ==
    LET q == call[c]
        name == IF At(c, "create") THEN Desired(q.sub) ELSE Fallback(q.sub)
    IN /\ At(c, "create") \/ At(c, "createFallback")
       /\ policy.allowSignup
       /\ IF name \in DOMAIN users
          THEN /\ Goes(c, IF name = Fallback(q.sub) THEN Idle ELSE [q EXCEPT !.at = "createFallback"])
               /\ UNCHANGED <<users, earned>>
          ELSE /\ users' = [n \in DOMAIN users \cup {name} |->
                      IF n = name THEN [email |-> "", initial |-> TRUE, active |-> FALSE] ELSE users[n]]
               /\ Goes(c, [q EXCEPT !.at = "activate", !.user = name])
               /\ Earn(q.sub, name)
       /\ UNCHANGED <<policy, rows, removed, flows, cookie, codes, entered, now, events>>

DenySignup(c) ==
    /\ At(c, "create") /\ ~policy.allowSignup
    /\ Goes(c, Idle)
    /\ UNCHANGED <<policy, users, rows, removed, flows, cookie, codes, earned, entered, now, events>>

ActivateAccount(c) ==
    /\ At(c, "activate")
    /\ users' = [users EXCEPT ![call[c].user].active = TRUE]
    /\ Goes(c, [call[c] EXCEPT !.at = "link"])
    /\ UNCHANGED <<policy, rows, removed, flows, cookie, codes, earned, entered, now, events>>

(* --------------------------- The identity table -------------------------- *)
NewIdentity(sub, user) == [sub |-> sub, user |-> user]

\* insertOne under the unique index on (provider, subject).
Insert(sub, user) ==
    /\ RowsOf(sub) = {}
    /\ rows' = [i \in DOMAIN rows \cup {Cardinality(DOMAIN rows) + Cardinality(removed) + 1} |->
                    IF i \in DOMAIN rows THEN rows[i] ELSE NewIdentity(sub, user)]

\* link(): a conflict is ALREADY_EXISTS, and the call ends there.
Link(c) ==
    LET q == call[c] IN
    /\ At(c, "link")
    /\ \/ /\ Cardinality(DOMAIN rows) + Cardinality(removed) < MaxRows
          /\ Insert(q.sub, q.user)
          /\ IF q.ends = "gate" THEN Goes(c, [q EXCEPT !.at = "touchFind"]) ELSE Ends(c)
       \/ RowsOf(q.sub) # {} /\ Goes(c, Idle) /\ UNCHANGED rows
    /\ UNCHANGED <<policy, users, removed, flows, cookie, codes, earned, entered, now, events>>

\* touchLogin() reads the row, if it is there, and puts it back with the time and
\* the profile of this login: replaceOne matches the row's own id, or nothing.
TouchFind(c) ==
    LET q == call[c] IN
    /\ At(c, "touchFind")
    /\ \/ RowsOf(q.sub) = {} /\ Ends(c)
       \/ \E i \in RowsOf(q.sub) :
              Goes(c, [q EXCEPT !.at = "touchReplace",
                                !.row = [id |-> i, sub |-> rows[i].sub, user |-> rows[i].user]])
    /\ UNCHANGED <<policy, users, rows, removed, flows, cookie, codes, earned, entered, now, events>>

\* Mutant: the row read is written whether or not it is still there.
TouchUpsert(c) ==
    LET q == call[c] IN
    /\ At(c, "touchReplace")
    /\ rows' = (q.row.id :> [sub |-> q.row.sub, user |-> q.row.user]) @@ rows
    /\ Ends(c)
    /\ UNCHANGED <<policy, users, removed, flows, cookie, codes, earned, entered, now, events>>
TouchReplace(c) ==
    LET q == call[c] IN
    /\ At(c, "touchReplace")
    /\ rows' = IF q.row.id \in DOMAIN rows
               THEN [rows EXCEPT ![q.row.id] = [sub |-> q.row.sub, user |-> q.row.user]] ELSE rows
    /\ Ends(c)
    /\ UNCHANGED <<policy, users, removed, flows, cookie, codes, earned, entered, now, events>>

\* linkIdentity(), for a user who is known: another's identity is refused, one's own
\* is touched, and the rest is for link() to decide.
LinkIdentity(c) ==
    LET q == call[c] IN
    /\ At(c, "linkIdentity")
    /\ \/ RowsOf(q.sub) = {} /\ Goes(c, [q EXCEPT !.at = "link"])
       \/ \E i \in RowsOf(q.sub) :
              Goes(c, IF rows[i].user = q.user THEN [q EXCEPT !.at = "touchFind"] ELSE Idle)
    /\ UNCHANGED <<policy, users, rows, removed, flows, cookie, codes, earned, entered, now, events>>

(* --------------------------- The end of a login -------------------------- *)
\* prove-control: the password, or a code to a confirmed factor where there is no
\* password, of the account that was found; nothing to ask for, a refusal or a
\* blocked account end the login.
ProveControl(c) ==
    LET q == call[c] IN
    /\ At(c, "prove")
    /\ \/ /\ users[q.user].active
          /\ Earn(q.sub, q.user)
          /\ Goes(c, [q EXCEPT !.at = "linkIdentity", !.ends = "enter"])
       \/ Goes(c, Idle) /\ UNCHANGED earned
    /\ UNCHANGED <<policy, users, rows, removed, flows, cookie, codes, entered, now, events>>

\* The account gate of sso-callback, which comes after the identity was found;
\* prove-control was gated before it linked.
Enter(c) ==
    LET q == call[c] IN
    /\ At(c, "gate") \/ At(c, "enter")
    /\ entered' = IF At(c, "enter") \/ users[q.user].active
                  THEN entered \cup {<<q.sub, q.user>>} ELSE entered
    /\ Goes(c, Idle)
    /\ UNCHANGED <<policy, users, rows, removed, flows, cookie, codes, earned, now, events>>

(* --------------------------- Connected accounts -------------------------- *)
\* DELETE :provider/:subject lists the user's identities, looks at the password when
\* it is the last, and then deletes by provider and subject.
StartUnlink(c, i) ==
    LET user == rows[i].user IN
    /\ At(c, "idle") /\ Happens
    /\ Owned(user) = {i} => ~users[user].initial
    /\ Goes(c, [Idle EXCEPT !.at = "unlink", !.sub = rows[i].sub, !.user = user])
    /\ UNCHANGED <<policy, users, rows, removed, flows, cookie, codes, earned, entered, now>>
Unlink(c) ==
    /\ At(c, "unlink")
    /\ removed' = removed \cup RowsOf(call[c].sub)
    /\ rows' = [i \in DOMAIN rows \ RowsOf(call[c].sub) |-> rows[i]]
    /\ Goes(c, Idle)
    /\ UNCHANGED <<policy, users, flows, cookie, codes, earned, entered, now, events>>

\* The server dies, or a store call fails.
Fail(c) ==
    /\ ~At(c, "idle") /\ Happens
    /\ Goes(c, Idle)
    /\ UNCHANGED <<policy, users, rows, removed, flows, cookie, codes, earned, entered, now>>

Tick ==
    /\ now < MaxTime
    /\ now' = now + 1
    /\ UNCHANGED <<policy, users, rows, removed, flows, cookie, codes, call, earned, entered, events>>

Next ==
    \/ \E b \in Browsers, user \in {NoUser} \cup DOMAIN Locals : Begin(b, user)
    \/ \E seed \in DOMAIN flows, sub \in Subjects : Grant(seed, sub)
    \/ \E c \in Call :
           \/ \E b \in Browsers, seed \in DOMAIN flows, k \in codes : Callback(c, b, seed, k)
           \/ Resolve(c) \/ Match(c) \/ CreateFederatedUser(c) \/ DenySignup(c) \/ ActivateAccount(c)
           \/ Link(c) \/ TouchFind(c) \/ TouchReplace(c) \/ LinkIdentity(c)
           \/ ProveControl(c) \/ Enter(c)
           \/ \E i \in DOMAIN rows : StartUnlink(c, i)
           \/ Unlink(c) \/ Fail(c)
    \/ Tick

Spec == Init /\ [][Next]_vars

(* ------------------------------ Properties ------------------------------- *)
\* An identity opens one account, and only one it belongs to: the user made for it,
\* the one a trusted verified email names, one whose owner proved control in the
\* same login, or one who asked for the link from the browser the answer came to;
\* and one that was removed stays removed until it is linked anew, a login that had
\* read its row included; however logins, links and removals overlap or break off
\* (federated-login-service.ts:100-107, auth-workflow.ts:6675-6678, touchLogin).
IdentitiesAreEarned ==
    /\ \A i \in DOMAIN rows : <<rows[i].sub, rows[i].user>> \in earned
    /\ \A i, j \in DOMAIN rows : rows[i].sub = rows[j].sub => i = j
    /\ entered \subseteq earned
    /\ removed \cap DOMAIN rows = {}

=============================================================================
