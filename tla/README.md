# Verification of aoothjs

TLA+ models of the concurrent core of aoothjs, the TLC runs that check them on
small instances, and TLAPS proofs of their main properties for every instance.

aoothjs is a set of TypeScript packages for authentication and authorization.
Everything runs on the JavaScript event loop, on one server or on several that
share a store. Code between two `await`s is atomic, and everything else
interleaves: two requests of one user, two tabs with one refresh token, a
request and the administrator who signs the user out. The models therefore cut
every operation at its `await`s: one action is one store operation taking
effect together with the code up to the next one.

## Contents

| file | what it is |
| --- | --- |
| `AuthCredential.tla` | the credential orchestrator over a stateful store: issue, refresh, theft response, revocations |
| `SessionAuthority.tla` | what the orchestrator promises, without rows, rotation or failures |
| `ValidateCache.tla` | the process-local cache of validated tokens and its evictions |
| `DatabaseSessions.tla` | the orchestrator over the SQL store, statement by statement, with tokens hashed at rest, behind the guard and the session routes |
| `RedisSessions.tla` | the orchestrator over the Redis store, command by command |
| `StatelessTokens.tla` | the orchestrator over signed or sealed tokens, a denylist and a user's epoch |
| `CookieClient.tla` | the tabs of a browser, their cookies, and the refresh and logout routes |
| `RateLimit.tla` | the fixed-window limiter, its stores and its pair of interceptors |
| `AuthzServer.tla` | the authorization server: authorize, consent, code, token, refresh grant, dynamic clients |
| `GrantAuthority.tla` | what the authorization server promises, without stores, cookies or failures |
| `UserAccount.tla` | one account of `@aooth/user`: sign-in counters and lock, one-time codes, invitations |
| `SeenDevices.tla`, `UserDevices.tla` | the rest of the account: trusted and seen devices (and what is made of their lists), the password's history, shared snapshots |
| `FederatedLogin.tla` | signing in through an identity provider, linked identities |
| `WfTrigger.tla`, `WorkflowSchemas.tla`, `AuthWorkflow.tla` | the workflow trigger, the six schemas, and their steps over one account |
| `ScopePolicy.tla`, `AccessControl.tla`, `TableMeta.tla` | the algebra of database scopes, a table controller under it, and what it tells of itself |
| `Services.tla`, `Authorization.tla`, `Accounts.tla` | the modules that share nothing and are checked by one run, as one specification each |
| `AuthCredential_proofs`, `ValidateCache_proofs`, `UserAccount_proofs`, `Accounts_proofs`, `Authorization_proofs`, `Services_proofs`, `Access_proofs`, `AuthWorkflow_proofs` | the theorems, see "Proofs" |
| `MC*.tla` | instances for TLC, one `.cfg` per run |
| `PROJECT.json` | components, runs, mutants, the map from definitions to source lines, hazards, theorems |

Three runs ask about several modules that share nothing. `Services` puts
`StatelessTokens`, `RedisSessions`, `RateLimit`, `FederatedLogin` and
`CookieClient` side by side, `Authorization` the authorization server and the
table of its sessions, `Accounts` the two halves of an account. A variable says
which module a behaviour is about, and the variables of the others stay `Off`;
the modules themselves know nothing of each other. The MC modules extend these
three and only give values to their constants, so the runs and the theorems are
about the same formulas.

## The system

| component | state it keeps | operations | talks to |
| --- | --- | --- | --- |
| credential orchestrator (`packages/auth/src/credential`) | consumed single-use refresh tokens (stateless stores only), the validate cache | `issue`, `validate`, `refresh`, `revoke`, `revokeSession`, `revokeOtherSessions`, `revokeAllForUser`, listings | a credential store, a denylist |
| credential stores (`auth/src/stores`, `auth/src/redis`, `auth/src/atscript-db`) | rows by token, an index by user; denylist and per-user epochs for the stateless ones | `persist`, `retrieve`, `update`, `revoke`, `consume`, `touch`, `revokeAllForUser`, `listForUser` | the clock, Redis, SQL |
| rate limiting (`auth/src/rate-limit`, `auth-moost/src/rate-limit`) | counters by key and window | `check`, `peek`, `reset` | a counter store |
| authorization server (`auth/src/authz`, `auth-moost/src/authz`) | pending authorizations, single-use codes, dynamically registered clients | authorize, consent, redeem, refresh grant | orchestrator, workflow |
| client (`auth/src/client`) | the token pair, the refresh in flight | authenticated fetch, refresh on 401 | the HTTP API |
| users (`packages/user`) | the user record: password and history, lock, MFA methods, trusted and seen devices, invitation | `login`, `verifyMfa`, `changePassword`, lock / unlock, MFA and device management, invitations | a user store with compare-and-set, a clock |
| identity providers (`packages/idp`) | the state parameter and PKCE verifier, provider registry | start, callback, link | providers, users |
| workflows (`auth-moost/src/workflow`, `wf-trigger`) | the paused workflow's context and its handle | login, invite, recovery, consent, with pause and resume | users, orchestrator, authorization server |
| HTTP controllers and guard (`auth-moost/src`) | none of their own | login, refresh, logout, sessions | orchestrator |
| role-based access (`arbac-core`, `arbac`, `arbac-moost`) | registered roles; evaluations memoised per request | evaluate, merge scopes, project and filter records | the database controllers |
| login page helper (`login-client`), `e2e-demo`, `docs` | none shared | | |

How they interact: a login ends in `AuthCredential.issue`; every request goes
through `validate`; a client refreshes with `refresh`; the callers of the
revocations are the sessions and auth controllers, the workflows (password
change, recovery, device removal) and the OAuth controller. The orchestrator
never locks: its correctness is a protocol between calls over the store.

What is hard, in this order of consequence:

* a revocation must win over refreshes that read the session's row before it
  and write after it (`sweepUntilEmpty`, `assertStillLive`);
* rotation with a grace window: lost replies and retries, two tabs, replay;
* store operations that reject, and servers that die, half way;
* a process-local cache of validated tokens racing a revocation;
* decisions taken from a row read before a hash or a store reply (lockout,
  one-time codes, re-invites), and counters shared by requests (rate limits);
* single-use things used twice: authorization codes, invitations, workflow
  handles, stateless refresh tokens.

Properties that make each component correct: a revoked session stays revoked
and only what was named is revoked (orchestrator); a family has one line of
successors, a fixed ceiling and a dead past (rotation); a revoked token is not
served from the cache (validate cache); a code, invitation or handle works once
(authorization server, users, workflows); failures are counted and locks
respected under concurrency (users, rate limits); merging scopes grants what
some role grants and nothing more (access control).

## AuthCredential

`live` is the set of tokens the store has an unexpired row for and `row` the
last state stored under each token; tokens are numbered in the order they are
minted. `call` holds each call in flight: its label `pc` names the next store
operation, and its other fields are the local variables of the code (the token
presented, the `now` captured at the start, the pair minted, the rows still to
delete, the pass). `held` is what clients have been told, `issued` the sessions
whose `issue()` has returned, `revoked` the issued sessions a revocation has
returned for; these three are history and no action's guard depends on
`revoked`.

| code | actions |
| --- | --- |
| `issue`, `enforceConcurrencyLimit` | `StartIssue`, `CheckLimit`, `Evict`, `IssueAccess`, `IssueRefresh` |
| `refresh`, lookup and rotation choice | `StartRefresh`, `FindRefuses`, `FindFresh`, `FindReplay`, `FindInGrace` |
| `rotateWithGrace`, successor | `GraceHit`, `GraceReplay` |
| `issueAccessFromRefresh`, `issueRotatedPair` | `MintAccess`, `MintRefresh`, `Stamp` |
| `assertStillLive` | `RecheckReplies`, `RecheckRefuses`, `Undo` |
| `respondToRefreshReuse` | `TheftResponse` (continues as a sweep or a purge) |
| `sweepUntilEmpty` | `SweepPass`, `RevokeRow`, `RevokeRowFails`, `OrphanedRow`, `SweepDone` |
| `revokeAllForUser` | `Purge`, `PurgeAgain`, `PurgeDone` |
| `revoke(token)` | `RevokeToken` |
| a store operation that rejects, a server that dies | `Fail` (what is written stays), the failing halves of `Undo`, `OrphanedRow`, `RevokeRowFails` |
| the clock | `Tick`, which also drops expired rows: no store returns them |

Abstractions. The guard a caller passes to `refresh` may refuse at any point
before the rotation: `FindRefuses` is always possible, which also covers a
missing row. A session id is minted by `issue` and not reused; `providedSessionId`
is not modelled. The per-mint refresh option has the instance's ttl. The
listing and `revokeAllForUser` of the store are one step each, as in the memory
and SQL stores; Redis, whose listing is several commands, is the subject of
`RedisSessions`.
Hashing at rest changes store keys, not the protocol, and the sealing of
successors is the identity on the pair for a client that holds the token
(a pair that cannot be opened leads to the theft response). The activity stamp
of `validate` (`touch`) writes no field the protocol reads; that neither it nor
hashing brings a row back is what `DatabaseSessions` is about.

### Runs

| run | instance | what it shows |
| --- | --- | --- |
| `rotation_races` | two clients refreshing at once and a revoker, one session, six tokens, sliding rotation, theft response on the whole user, one repeated pass | that the orchestrator implements `SessionAuthority`, over every interleaving of two rotations, grace hits, replays and a sweep |
| `failing_store` | two clients, a revoker, two sessions of one user, one clock tick, one failure | `RevokedTokensDead` and `OnlyTargetsDie` when any store operation, any of the parallel revokes or a server fails |
| `single_flight` | a client with one refresh in flight per session, per-mint families, concurrency limit 1, two clock ticks past the grace window | `OneHead`, `CeilingHolds`, `SupersededIsDead`, with lost replies, late retries and theft responses |
| `eventual_revocation` | two clients, a revoker, two sessions, `evict-oldest`, with fairness | `RevokedDrains`, `EveryCallEnds` |
| `multi_tab` | two clients, no single flight | a counterexample to `OneHead`, see the findings |

Bounds. `MaxToken` 6 is one login and two full rotations, so a successor can be
rotated while its parent is retried; 4 is one rotation next to a second login.
A call that mints starts only when the tokens left cover every mint in flight
(`RoomToMint`), so the bound never cuts a call in half. `MaxRevokePasses` is 1 or 2 where the
code has 8: the first and the last pass behave differently, more passes repeat
the middle. Times are counted in ticks with `GraceMs` 1 below the ttls, so that
retries fall inside and outside the window. `rotation_races` and
`eventual_revocation` hold the clock still: with it moving, the number of
interleavings of two rotations exceeds what can be enumerated, and expiry only
removes rows; `failing_store` and `single_flight` move it. Clients are
interchangeable, hence the symmetry; the run with liveness uses none.

`SingleFlight` and `SlowCalls` say under which use a property holds; under those
hypotheses the three properties are also proved, while `OnlyTargetsDie`,
`RevokedTokensDead` and the refinement hold, and are proved, without any.
`OneHead` and `SupersededIsDead` need a client that keeps one refresh of a
session in flight, as `packages/auth/src/client` does inside one page.
`CeilingHolds` needs calls that are short against the clock: a fixed-ceiling
rotation computes the rest of the ceiling from the `now` captured at its start,
and the store adds it to the clock when it persists, so the stored `expiresAt`
may exceed the original one by the duration of the call.

Fairness (`FairSpec`) is weak fairness of the steps of every call that has
started: a promise that was created is run by the event loop, and a store
operation is answered. Nothing is assumed of clients, of revokers starting a
call, of failures or of the clock.

### Finding

`rotateWithGrace` says that "a multi-tab race converges on one successor". It
does when the second tab reads the row after the first has stamped it. If both
read it unrotated, both mint a pair, both stamp, both find the row alive in
`assertStillLive`, and the session has two refresh tokens that each rotate on
their own (`multi_tab`, seven steps after the login). A revocation still kills
both: `RevokedTokensDead` has no single-flight assumption.

## ValidateCache

One process: its `validate` calls, its revocations and the map. `cached[t]` is
until when t's entry holds; the map's insertion order is the order of that
time, since `set` re-inserts at the end and the clock does not go back. Of the
epoch only equality matters: a validation is `clean` while the epoch it
captured is current. A store read is two steps (`Read` when it takes effect,
`Fill` or `Answer` when its reply is handled), and so is the removal of a row
(`WriteRow`, then the eviction `EvictAgain` of the `finally` block), because the
race is between those. Another process is `RevokeElsewhere`. The denylist,
looked up in parallel with the row, is not modelled.

`stale_entries` runs one validation at a time against two revocations of any
kind (single token, sweep, whole user) and one of another process, with two
tokens, a map of one entry, a failure and a clock that passes both an entry's
time and a token's expiry. It checks that a token the process has finished
revoking is not in the map (`RevokedNotCached`), that a stale entry is served
for less than `ttlMs` plus the duration of the read that filled it
(`StaleBounded`; the documentation says `ttlMs`), and that the map stays within
its maximum (`SizeBounded`). In the run a read takes less than a tick
(`MaxReadTime` 0); the theorem covers slower ones and any number of
validations.

A sweep answers for the tokens it took itself. If two sweeps of one session
overlap, the second can find the rows gone and return while the first one's
second eviction is still due; an entry cached meanwhile goes with that
eviction. This window of one store reply is listed among the hazards.

## UserAccount

One account and the `UserService` calls that race on it. `row` is the stored
record, `call` the calls in flight: the label `at` names the next store
operation, the other fields are the locals of the code. A read and the checks
on it are one action, each write is another, so a password hash or a store
reply between them lets every other call in.

The stores write in two ways. `store.update` without `expectedVersion` applies
to whatever the row is by now (`Update`); `withCas` reads, computes a patch and
writes only if the version has not moved (`CasRead`, `CasWrite`, `CasMiss`),
twice at most. Versions are only compared with the one read, so a call keeps
`fresh`: nobody has written since its read. Every write, also one of another
part of the row (`OtherWrite`), makes the other calls' reads stale.

| code | actions |
| --- | --- |
| `login`, `assertCanSignIn`, `ensureNotLockedOrThrow` | `LoginRight`, `LoginWrong`, `AssertCanSignIn`, `Lift` |
| `recordLogin`, `incrementAndMaybeLock` | `RecordLogin`, `RecordPasswordless`, `Fail` |
| `verifyMfa` | `VerifyMfaRight`, `VerifyMfaWrong`, then `Lift`, the compare-and-set steps, `Fail` |
| `withCas` | `CasRead`, `CasWrite`, `CasMiss` |
| `acceptInvitation`, `addMfaMethod`, `confirmMfaMethod` | `Accept`, `AddTotp`, `ConfirmTotp`, then the compare-and-set steps |
| `revokeInvitation` | `Revoke`, the compare-and-set steps, `Recheck`, `DeleteClaimed` |
| re-invite (the workflow's `create-user` step) | `Reinvite`, `WriteInvite` |
| `removeMfaMethod` | `RemoveMethod`, `WriteMethods` |
| `lockAccount`, `unlockAccount`, `activateAccount`, `deactivateAccount`, `deleteUser`, other single writes | the actions of those names, `OtherWrite` |

`wins`, `spent`, `tries`, `revoked` and `lastLink` record history. `spent`
restarts when the list of factors is edited (`addMfaMethod`, `removeMfaMethod`:
the guard against replays lives in that list), `tries` when the code resets the
counter or lifts a lock. Of the second factors only totp has state; the others
matter because writing the list writes totp too. A link or a code is a number;
0 is the missing nonce of rows and links older than 0.2, and the code that
matches nothing.

| run | instance | what it shows |
| --- | --- | --- |
| `accounts` | two calls on a member's account and on an invited one, with and without nonce, two links; threshold 3, codes of two windows, a clock that passes the end of a lock; and the devices (`UserDevices`) | `OneWinnerPerCode`, `NoGuessLost`, `LockComesInTime`, `LinkAcceptedOnce`, `InvitationsAreClaimed`, and for the devices `DevicesAreKept`, `PasswordsAreFresh`, `SnapshotsAreCurrent` |
| `renewal` | the invited account alone | a counterexample to `AcceptedNeverRevoked`, see below |

Bounds. Two calls give every pair of races; the theorems cover any number.
Threshold 3 leaves one state below the one where a single guess trips the lock;
`MaxFailed` 4 stops new wrong guesses after the counter passed it. `MaxAttempts` is 2, as in
the code. Two links are the first invitation and its renewal. The account can
be deleted and is not created again, and the clock stops at its bound, so the
runs do not check for deadlock.

`LockComesInTime` is the bound the code gives: the decision to lock is taken
from the counter read before the check of the password, so each other call in
flight can add one guess beyond the threshold. A threshold of 1, where every
guess locks and nothing is left to count, is excluded.

### Finding

A re-invite reads the row, tests `pendingInvitation` and then writes
`pendingInvitation: true` with a plain update. If the invitation is accepted
between the two, the account in use becomes pending again (the step's comment
says it answers 409 "rather than silently re-pending a live user"), and a
revocation, which finds a pending row whose version stands still, deletes it
(`docs/moost/invites.md` says it "deletes nothing when the invite was already
accepted"). The compare-and-set of the acceptance and the conditional delete of
the revocation do what they promise; `InvitationsAreClaimed` is proved.

## DatabaseSessions

The same protocol over a store whose operations are not atomic: the SQL store's
`update` is a `findOne` and a `replaceOne`, its `touch` the same pair or, where
the table has `updateOne`, a patch, its `retrieve` deletes a row it finds
expired, and a revocation is a `findMany` and deletes. Tokens may be hashed at
rest, with rows left from before (`hash` is `off`, `migrate` or `on`). A value a
request can present is `<<t, n>>`, token `t` hashed `n` times; keys of the table
and the `credentialId` shown in listings are such values too, so that presenting
a fingerprint where a token is expected is a state of the model.

| code | actions |
| --- | --- |
| `issue` at login | `StartLogin`, `InsertAccess`, `InsertRefresh` |
| `validate` and `find` with their fallback to a legacy key | `Request`, `Find`, `FindLegacy`, `Found`, `NotFound` |
| the activity stamp | `Touch`, `TouchWrites` |
| `refresh` with rotation and grace | `FoundRefresh`, `FoundSuccessor`, `InsertAccess`, `InsertRefresh`, `Stamp`, `Replace`, `Look`, `Theft` |
| the status, sessions, revoke-one, revoke-others and logout routes | `Status`, `ListRoute`, `RevokeRoute`, `OthersRoute`, `LogoutRoute`, `RevokeAll` |
| `sweepUntilEmpty`, `revokeAllForUser` | `List`, `Purge`, `Delete`, `Done`, `GaveUp`, `Reply` |
| a rejecting statement, the clock | `Fail`, `Tick` |

`authorization` runs it on three deployments (no column for metadata and no
hashing; migrating, with a legacy pair without a session id; hashing on, with a
legacy pair in a session), two requests in flight and the mixes of requests
`Budgets` lists. `EndedSessionsStayOut`, `CallersAreKnown` and
`RowsKeepTheirTerms` are checked there and proved for every deployment.

Abstractions and limits. A rotation computes what is left of a ceiling from the
clock it read at its start and the row's expiry from the clock at the insert;
as in `AuthCredential` without `SlowCalls`, the clock does not tick between the
two. A legacy row without a session id is a session of its own, so the two
tokens of a rotated legacy pair are two sessions: `ended` is asked of each. That
`replaceOne` never inserts is taken from the library's contract (external).

## RedisSessions

One user's refresh rows in Redis, where a credential is a key with a time to
live and a member of an index set, and every command is a step: `Persist` (SET)
and `Index` (SADD), `Stamp`/`Write` (GET, SET XX), `Touch`, `Recheck`, `Undo` and
`Unindex`; a listing is `List` (SMEMBERS), a `Get` per member and a `Prune` of
those whose key is gone; `Del`, `Srem`, `Swept`; and `Purge`, `PurgeDel`,
`PurgeSrem` for a whole user. `Expire` drops a key but not its index member,
`Die` ends a call after any command.

`auth-credential.ts:1074-1088` argues from a listing that is one step. The run
asks whether the argument survives the listing being several:
`RevokedRowsAreGone` says that it does when no other revocation overlaps and
nothing expires meanwhile, and that the key of every token somebody holds is in
the index. When two revocations overlap, one may delete a row between the
SMEMBERS and the GET of the other, which hides its successor from that pass; the
module's ghost `closed` leaves those cases out, and they are named in the
property's comment.

## StatelessTokens

The JWT and the sealed store: a token is its state, and what ends one is a
denylist of ids and a per-user epoch in the process. `AskDenylist` and
`CheckEpoch` are the two looks of a lookup, `Consume` and `ConsumeDenies` the
single use of a refresh token, `Update` the rewrite under sliding rotation,
`Restart` forgets what was in memory. Milliseconds and the seconds of a JWT's
`exp` are both there (`Second`), because the epoch compares one with the other.
`SignedOutMeansOut`: after a sign-out no token minted by a call that began before
it is accepted. `AnsweredIsSpent`: a refresh token answered with a pair is not
answered again by a later call, up to the millisecond it expires. Overlapping
calls may share it, which the code's comments allow.

## CookieClient

`createAuthedFetch` in two tabs that share a cookie jar, and the routes behind
it. A request carries the cookies of the moment it is sent, is served some time
later or never, and answers land in any order with the cookies they set
(`LandCookies`). `OneRefreshAtATime` is what `AuthCredential` assumes of a client
under `SingleFlight`; `LogoutMeansOver` says that with `logoutOn` set to
`auth-failure` a tab logs out only when the token it presented is dead. The answer
of a refresh may get lost after it was carried out as well as before: the token
is spent then and the tab left without a successor (a token works once here; the
grace of `AuthCredential` is left out). Observed and within those properties: a
late refusal of an old refresh clears the cookies a newer sign-in has set.

## RateLimit

Requests pass a pair of interceptors, possibly registered twice, around the
guard; each evaluates the policies of its phase and takes one decision from all
of them. In memory a check is one step; over Redis it reads its server's clock,
sends an INCR per rule and a PEXPIRE after the one that created a counter, and
the server may die in between (`StartCheck`, `Incr`, `Pexpire`, `Die`).
`CountsAreKept` is two claims: of the requests counted in a window at most `limit`
are served, and a rejected request was preceded by `limit` others on a key that
rejected it, whose window ends no later than its `Retry-After`.

A deployment says how far each server's clock is ahead and how late an increment
may land; `SitesHold` bounds the two together by a window, because a counter is
kept for two. That is as far as the code goes: where the fastest and the slowest
server are a window apart and an increment is late as well, the counter the
fastest makes expires before the slowest has ended its window, and the budget is
overdrawn. The `services` run has servers a window apart, and servers and
increments half a window each, on a clock that runs until such a counter has
expired; the other deployments stop after one window. That the properties hold of
any deployment within `SitesHold`, for any windows, limits, clocks and numbers of
requests, is proved (`BudgetsAreKept`). `SitesHold` also says that one id has one
list of rules and that a route names an id once; a route that named one twice
would count each request twice.

## AuthzServer

A handle is an authorization request with the browser and the application
instance (the holder of the PKCE verifier) that asked; a code names its handle.
Calls are cut at their awaits, and `consume` of a pending request or a code at
the read and the delete, as the database stores do it.

| code | actions |
| --- | --- |
| `GET /auth/authorize`, `resolveClient` with its touch | `Authorize`, `Touch`, `Create` |
| the login workflow's pause at the consent form | `Login`, `Consent` |
| `mint-authz-code` | `Mint`, `MintCheck`, `MintCode`, `Drop` |
| `POST /auth/token`, code grant | `Token`, `Claim`, `Authenticate`, `Issue` |
| refresh grant and its guard | `Refresh`, `Rotate` |
| `POST /auth/register` | `Register`, `Sweep`, `Count`, `Store` |
| expiry, age, administrators, failures | `PendingExpires`, `CodeExpires`, `Age`, `Block`, `Fail` |

`GrantAuthority` has three actions: an application asks through a browser, a
user at that browser grants a code, the code is redeemed once by whoever asked.
`ImplementsGrants` is the refinement; `SessionsStayWithTheirClient` and
`UsedClientsStay` are about what it does not say, the sessions after redemption
and the collection of unused registrations. The run gives two calls, two
handles, two codes, two browsers and applications, a registered client and three
dynamic ids to four mixes of calls and faults: a request and its consent raced
twice, the same with failures, redemption against refresh and registration, and
three registrations against the limit of one.

## AuthWorkflow, WfTrigger, WorkflowSchemas

`WfTrigger` is the trigger: a paused run is a state that was persisted under one
of three strategies, of which a sealed one (`encapsulated`) can be resumed any
number of times, by overlapping requests; a request starts a run or resumes a
state and goes from step to step until one asks for input, the schema ends or a
step throws. `WorkflowSchemas` has the six schemas of `auth-moost` as sequences
of steps with the facts that let them run. `AuthWorkflow` has a handler per step
(60 of them) over one account, and walks the schema between them (`Follow`).

A code is the id of its counters in the shadow store, wrong guesses are also
counted per target (`failures`); nothing secret is in a context. The ghost `log` records what a request did and on which proofs:
`SessionsAreProved`, `StaleRunsAreDead` and `ManageNeedsChallenge` read it;
`ActiveMeansPassword` and `GuessesAreBounded` read the account and the counters.

The `workflows` run is the union of twenty-one deployments (`MCAuthWorkflow`),
each bringing a few hazards together: two factors with the password changed or
the account locked meanwhile, a change of the password just before the login
itself asks for a new one, a federated login whose lock a recovery lifts, a first login with enrolment for an authorization
request, link login, the e-mail guard, a federated login with and without a
linked identity, silent authorization, trusted devices with a risk engine and a
session limit, an invitation renewed or revoked, recovery in both modes,
password change, the management of factors, signup. Two requests, at most three
paused states, two codes, one restored state; `Bounds` gives each deployment its
runs, resumes and outside changes.

Two excuses in `StaleRunsAreDead` are what the code does. A login that sets a
password itself (an expired or initial one) skips `check-password-unchanged` from
there on, so a change made elsewhere between its password check and its form
goes unnoticed. A login that was paused when its account was locked can sign in
once a recovery has unlocked, or an administrator has activated, the account.

## ScopePolicy, AccessControl, TableMeta

`ScopePolicy` is the algebra: union and intersection of projections, merged and
conjoined filters, controls, writable fields, forced values, reference checks and
sub-scopes. A filter is the set of rows it passes, the paths it reads and whether
the in-memory evaluator knows it, so that a filter that cannot be compiled is a
case of its own.

`AccessControl` is a table controller: who the caller is (`Begin`, `FetchReads`,
`FetchArrives`, with the shared record cache, `Invalidate` and `Expire`), what he
may do (`Authorize`), a query (`Query`), a write (`Guard`, `CheckBefore`, `Write`,
`CheckWritten`, `ReadBack`), with or without a transaction. The properties compare
with `Granted`, which reads the rules alone: `RepliesAreGranted` and
`WritesAreGranted` ask it of the user and, for an attenuated credential, of its
claims as well. `RevokedRolesAreGone` is about the cache.

The check in memory reads a leaf that a row leaves out as missing, so such a row
passes `$ne`, `$nin`, `$not`, `$exists: false` and a test for null. Without a
transaction an insert or a replace is checked as it is given
(`docs/moost/db-controllers.md:89`), and what the database then fills in may lie
outside the check. `WritesAreGranted` excuses exactly that (`asGiven`): the row as
written is in the check, or there is no transaction, the body leaves out a field
of the check, and as given it satisfies it. The clerk's drafts in `access` are such a check over a column with a default.

`TableMeta` adds what the controller tells of itself: the description with its
memo (`Describe`), forms, row actions offered, run and delegated, value help.

The `access` run has a workload per question: every pair of scopes read, written
by merging and by replacing stores, two overlapping writes with and without a
transaction, roles that change under two requests, two callers described in
turn, actions. The rows have three values in a reference and two elsewhere; the
roles cover every kind of projection, filter, control and part.

Observed, and not asked by the properties: a block that is hidden but writable
is kept whole in a description, links inside it included; a grant of `remove`
alone makes hidden fields "writeOnly"; without any read grant a description is
not pruned, by design; two sides whose projections share nothing leave the user's
projection and no rows.

Not modelled: several rows in one request, the version column and `$cas`,
aggregation, `ignoreConflicts`, patterns of resources and actions (sets of names
here), custom scope fields, eviction from the record cache at its maximum, the
expansion of shared types, unions and arrays in a description.

## UserDevices

What `UserService` keeps of an account besides its sign-in state. `Trust` and
`RevokeTrustedDevice`, `DeviceRecognition` and `RevokeSeenDevices`,
`ApplyPasswordChange`, `WriteElse` are its calls, `Update`, `CasRead`, `CasWrite`
and `End` the store operations under `observeWrites`, `GetUserSnapshot` and
`SnapshotReads` the reads that requests share while no write is under way.
`DevicesAreKept`: no step brings a revoked device back, and the ledger of seen
devices loses no record that is in use. `PasswordsAreFresh`: while changes do not
overlap, a password is none of the `historyLength + 1` before it.
`SnapshotsAreCurrent`: a shared snapshot is no older than the last write that was
reported done when it is served.

What the plain (not compare-and-set) writes allow, and the properties exclude by
name: two overlapping revocations of trusted devices write back each other's
device; two overlapping password changes lose an entry of the history; and a
change proved with a password that was replaced meanwhile still writes.

## FederatedLogin

The round trip over the browser (`Begin`, `Grant` at the provider, `Callback`
with state, cookie and nonce), the resolution of the identity (`Resolve`, `Match`,
`CreateFederatedUser`, `DenySignup`, `ActivateAccount`, `Link`, `TouchFind`,
`TouchReplace`, `Enter`), linking from an account or by proving control
(`LinkIdentity`, `ProveControl`) and `Unlink`, each store call a step, each call
able to die after any (`Fail`). `IdentitiesAreEarned`: an identity opens one
account, which it belongs to, and one that was removed stays removed. Observed:
two removals at once can leave an account without a way to sign in; a login in
flight outlives the revocations of an unlink; a creation that dies half way
leaves a user without an identity row.

The five modules `StatelessTokens`, `RedisSessions`, `RateLimit`,
`FederatedLogin`, `CookieClient` are checked by `services`, with the bounds in
`MCServices`: two or three calls, three tokens, rows or pairs, two to four ticks,
a handful of events. Each bound leaves room for the hazard its module is about:
a token refreshed twice and signed out; a rotation inside a sweep; a counter
without an expiry and two clocks; a login, a link and a removal of one identity;
a refresh overtaken by a sign-in.

## Proofs

All theorems hold for every value of the constants, under the named assumptions
of the modules (types, positive bounds, a non-empty `Session`), which TLC
evaluates on the instances. Where a theorem needs more, its statement says so
with `ASSUME`. Each proof module follows one pattern: a step lemma per action
and conjunct of the invariant, a theorem that collects them, and a temporal
theorem.

| theorem | statement |
| --- | --- |
| `AuthCredential_proofs!TypeCorrect` | `Spec => []TypeOK` |
| `AuthCredential_proofs!InvCorrect` | `Spec => [](TypeOK /\ RevocationInv)` |
| `AuthCredential_proofs!RevokedStaysDead` | `Spec => []RevokedTokensDead` |
| `AuthCredential_proofs!Implementation` | `Spec => ImplementsAuthority`: every step is a grant, a lapse or a close of `SessionAuthority`, or a stutter |
| `AuthCredential_proofs!RowsOnlyDieForAReason` | `Spec => OnlyTargetsDie` |
| `AuthCredential_proofs!CeilingIsKept` | `ASSUME SlowCalls = FALSE PROVE Spec => []CeilingHolds` |
| `AuthCredential_proofs!RotationCorrect` | `ASSUME SingleFlight PROVE Spec => [](TypeOK /\ FlightInv)` |
| `AuthCredential_proofs!OneSuccessorLine`, `SupersededYieldsNothing` | under the same hypothesis `Spec => []OneHead`, `Spec => SupersededIsDead` |
| `ValidateCache_proofs!TypeCorrect` | `Spec => []TypeOK` |
| `ValidateCache_proofs!RevokedStaysOut` | `Spec => []RevokedNotCached` |
| `ValidateCache_proofs!StaleEnds`, `SizeStaysBounded` | `Spec => []StaleBounded`, `Spec => []SizeBounded` |
| `UserAccount_proofs!TypeCorrect` | `Spec => []TypeOK` |
| `UserAccount_proofs!CodesAreSpent` | `Spec => []OneWinnerPerCode` |
| `UserAccount_proofs!GuessesAreCounted`, `LockIsInTime` | `Spec => []NoGuessLost`, `Spec => []LockComesInTime` |
| `UserAccount_proofs!LinksAreSingleUse`, `InvitationsEndClaimed` | `Spec => []LinkAcceptedOnce`, `Spec => InvitationsAreClaimed` |
| `Authorization_proofs!InvCorrect` | `Spec => []Inv`, the inductive invariant |
| `Authorization_proofs!SessionsAreTheirClients`, `UsedClientsAreKept` | `Spec => []SessionsStayWithTheirClient`, `Spec => []UsedClientsStay` |
| `Authorization_proofs!Implementation` | `Spec => ImplementsGrants`: a step asks, grants or redeems once in `GrantAuthority`, or stutters |
| `Accounts_proofs!DeviceInvCorrect` | `AccountsSpec => [](start = "devices" => DeviceInv)`, for any deployments with a number of past passwords to keep |
| `Accounts_proofs!LedgerInvCorrect`, `RevokedDevicesStayOut` | `AccountsSpec => [](start = "devices" => LedgerInv)`, `AccountsSpec => DevicesAreKept`, for any cap of the ledger and any time to live |
| `Accounts_proofs!SnapshotsStayCurrent`, `PasswordsStayFresh` | `AccountsSpec => []SnapshotsAreCurrent`, `AccountsSpec => []PasswordsAreFresh` |
| `Authorization_proofs!TableInvCorrect` | `ServerSpec => [](start = "sessions" => TableInv)`, for every setup `SetupsHold` describes |
| `Authorization_proofs!RevocationsEndSessions`, `CallersAreTheirTokens`, `TermsAreKept` | `ServerSpec => []EndedSessionsStayOut`, `ServerSpec => []CallersAreKnown`, `ServerSpec => []RowsKeepTheirTerms` |
| `Services_proofs!TokenInvCorrect`, `SpentTokensNeverReturn` | `Spec => []SpentTokensStayDead`, for every deployment of the stateless stores `DeploymentsHold` describes |
| `Services_proofs!RedisInvCorrect`, `RevokedRowsStayGone` | `Spec => []RevokedRowsAreGone` |
| `Services_proofs!LimitInvCorrect`, `BudgetsAreKept` | `Spec => []CountsAreKept`, for every deployment `SitesHold` describes |
| `Services_proofs!LoginInvCorrect`, `IdentitiesOpenTheirAccount` | `Spec => []IdentitiesAreEarned`, for every first table `TablesHold` describes |
| `Services_proofs!ClientInvCorrect`, `TabsAreKeptSignedIn` | `Spec => []TabsKeepTheirSession`, for any assignment of calls to tabs |
| `Access_proofs!AccessInvCorrect`, `ChangesOfRolesAreSeen` | `MetaSpec => []AccessInv`, `MetaSpec => []RevokedRolesAreGone`, for any roles, tables and workloads |
| `AuthWorkflow_proofs!WfInvCorrect` | `Spec => []WfInv`, for any deployments and any number of requests, codes and restores |
| `AuthWorkflow_proofs!SignInsAreProved`, `ActiveAccountsChose`, `FactorsAreChallenged` | `Spec => []SessionsAreProved`, `Spec => []ActiveMeansPassword`, `Spec => []ManageNeedsChallenge` |
| `AuthWorkflow_proofs!GuessInvCorrect`, `GuessesStayBounded` | `Spec => []GuessInv`, `Spec => []GuessesAreBounded` |

### The orchestrator

`RevokedTokensDead` is not inductive: it says nothing of a refresh that has
minted a pair and not replied yet. `RevocationInv` adds what such calls know.
`StoreInv`: a live token of a revoked session is held by nobody and is no row's
successor. `CallInv`: everything a refresh has minted or will re-deliver
belongs to the session of the token it was given, which a client holds; a
session being issued is not yet issued; a revocation aims at issued sessions in
its scope. `DistinctIssues`: no two calls issue the same session. The step that
needs it is the reply: `RecheckReplies` requires the presented row to be alive,
that token is held, so by `StoreInv` its session is not revoked. The step that
establishes it is the final empty listing of a sweep: no row of the target is
left, so nothing live contradicts it.

The theorems about rotation build on it with three more invariants. Each was checked by
TLC on the instances of the orchestrator's runs before it was proved.

* `AimInv`, for `OnlyTargetsDie`. The rows a sweep has still to delete were in
  its scope when they were listed, and they stay in it, because a row's session
  and the session's user never change. A refresh that undoes its mint
  (`assertStillLive` failed) found its own row gone, and since tokens are not
  minted twice that row never returns; the deletion is therefore the end of a
  session that was already ending.
* `CeilingInv`, for `CeilingHolds`. With `SlowCalls = FALSE` a refresh works at
  the `now` it captured (`Punctual`), on a row that is within the ceiling of its
  session, and what it mints inherits that ceiling. Without the hypothesis the
  property is false by the duration of a call, as said above.
* `FlightInv`, for `OneHead` and `SupersededIsDead`. `LineInv`: a session has at
  most one heir, a live refresh token that is not rotated and is held or named
  as a successor, and only issued sessions have refresh rows. `OneFlight`: no
  two refreshes of a session are minting. `Flies`: the row a minting refresh
  works on is still the one it read, unmarked, and a token that was superseded
  stays so and gets no refresh further than its recorded successor.

`SingleFlight` is what one page of the client guarantees (`TabsAreKeptSignedIn`
in `Services_proofs`), and `multi_tab` shows that the theorem needs it.

### ValidateCache

`CacheInv`: a token the process has finished revoking is gone from the store,
not cached, and no clean validation holds it. Every step preserves this
(`QuietStable`), for any number of validations, because an eviction moves the
epoch before a validation that read earlier can fill the map. `StaleInv` relates
the time of an entry, that of the read that filled it and that of the removal.

### UserAccount

The account's theorems share `CallInv`: a call whose read is still fresh finds
the row as it judged it, which is what makes the compare-and-set writes safe.
`CodeInv`: a code newer than `lastUsedWindow` was not accepted. `LinkInv`: the
link a pending row asks for was not accepted. `GuessInv` is a counting argument.
A call is soft while it may still count a guess without setting the lock; the
guesses taken plus the soft calls stay within
`Threshold + Cardinality(Proc) - 2`. A call becomes soft only when it reads a
counter at most `Threshold - 2`, and since no guess is lost there were no more
guesses than that; counting one uses up a soft call, and a call that is not soft
sets the lock.

### AuthzServer

`SessionsStayWithTheirClient` says which clients' refreshes a session has served;
that no other can depends on what was stored several requests earlier. `Inv`
follows a request through. `RequestsHold`: a browser's binding cookie is of a
request that browser made. `CodesHold`: a code goes back to a request and its
browser. `RedemptionsHold`: a code is redeemed by the one call whose delete hit
its row. `SessionsHold`: a session goes back to a code and is its client's.
`StampsHold`: a request that was stamped keeps its client registered as used,
so that the sweep of unused registrations passes it by. `CallsHold` says the
same of the values a call carries between two of its awaits. The second half of
`UsedClientsStay` needs a count, `LimitHolds`: the registrations stored, with
those about to be, stay below the limit plus the calls in flight. The refinement
maps `Create` to an ask, `MintCode` to a grant and `Issue`, the answer to a
redeemed code, to its redemption; every other step, the claim of the code
included, is a stutter.

### Accounts (UserDevices)

`DeviceInv` has two parts that need each other only for the state of a call.
For the snapshots: no version that was written is ahead of the row's, `done` is
one of those, and a snapshot with the present epoch that has been read was read
no earlier than the last report. It is kept because the epoch moves when a write
begins and again when it ends: a snapshot asked for before the end of a write has
an older epoch by the time that write is reported (`DeviceSnapshotsHold`).
For the passwords: while no two changes have overlapped, the row's history is the
last passwords in order, of the length the deployment keeps, and the one change
that may be on its way was compared with exactly that history
(`DevicePasswordsHold`). Of the lists of devices nothing is assumed, so that
these two theorems do not depend on how records are sorted or evicted.

`LedgerInv` is about those lists. A call names the devices on its list, the one it
revokes and those it has revoked; a device that a call is still to add is named by
no other call and is on no list (`LedgerApart`), so whatever else lands, adding it
brings nothing back that was revoked. What adds or slides goes through `withCas`:
while the version it read is still the row's, the list it will write is the one
its mutator makes of the row, which has no device but those of the row and the
new one, and loses none in use beyond the cap (`LedgerMakes`). What revokes a
trusted device does not: it writes back the list it read, less one. That list has
none that was revoked before (`LedgerRevokeHolds`), and of two revocations that
overlap neither is reported as alone (`LedgerCalm`), which is where the property
stops. The lemmas it rests on say what `SeenDevices` makes of a list. A filter and
a sort are given there by the indices they take and the place of each, the number
of those before it, instead of by recursion, so that their facts (`InOrderIs`,
`FilteredIs`, `EvictedIs`) follow from the library's theorems about finite sets.
`Accounts` assumes that the cap and the time to live are numbers
(`DeviceAssumption`).

### Authorization (DatabaseSessions)

`SetupsHold` says what a deployment is: its settings, its budgets of requests,
and legacy rows whose ids are not those of sessions to come, whose refresh
tokens end within their ceiling, and that fit the deployment's columns.
`Authorization` assumes it (`SetupAssumption`), and TLC evaluates it on the
instances. The invariant is `TypeOK`, `TableCallsHold`, `TableTokensHold` and
`TableRowsHold`. Its idea: call a session's name closed once a revocation of it
has found no row left or has returned. Closed names are names of
tokens somebody holds, and no row of a token that was handed out, or that a call
could still deliver, has a closed name. A pair under way is kin to the token it
was minted for; that token is held, and as long as its row is present its name
is not closed, so handing out the pair keeps the invariant; once the row is
gone, the look that precedes every reply refuses. Neither the deferred stamp
(`Touch`, `TouchWrites`) nor the two statements of a `replaceOne` can bring a
row back, which is the part of the proof the SQL store is about.

### Services

The theorems are about `Services`, whose constants are those of its five modules;
`ServiceAssumptions` collects what four of them assume of their deployments
(`DeploymentsHold`, `SitesHold`, `TablesHold`, `CallsHaveTabs`).

*StatelessTokens.* `SignedOutMeansOut` follows from `TokenEpochInv`: a token
carries the time its call began, and the epoch it is held against is the time of
the last sign-out. `AnsweredIsSpent` needs `TokenSpentInv`. A token is dead when
it has lapsed, is from before the epoch, or is denied. What was answered is dead,
and stays so: the denylist keeps an id exactly as long as its token would open
(`OpensUntil`; for a JWT a fact about the seconds of `exp`, proved for any length
of a second), the epoch only moves on, and a restart that forgets either forgets
with it which tokens were answered. `TokenLateHolds` carries this through the
steps of a lookup, in the order each store takes them: a later call that is past
the denylist and the epoch has a token that has lapsed meanwhile, and what it
mints then is not a second answer to a token that works.

*RedisSessions.* `RevokedRowsAreGone` is one of the conjuncts of `RedisInv`; the
others say why. What a writer is about to hand out belongs to the session of a row
somebody holds (`RedisWriterHolds`), no two writers have the same row or open the
same session (`RedisDistinct`), and what a revocation is about to take out of the
index has no key any more (`RedisRevokerHolds`), so that the index covers the
keys. `RedisCalmHolds` is the argument about a listing that is several commands:
as long as no other revocation overlaps, every session to be closed that still has
a key is either found or among the members the pass has yet to ask for. A rotation
that persists a successor meanwhile has its old row in that pass, or re-checks it
after the pass deleted it and undoes its own.

*RateLimit.* `LimitInv` has three parts. `LimitCountersOK`: a counter without an
expiry stays, and one with an expiry lasts until the last increment of its window,
by whichever server's clock (`LimitLasts`); this is where `SitesHold` is used, at
`Pexpire`, and with it an increment always finds the counter of its window
(`LimitFound`). `LimitTallyOK`: so each count of a counter was told to one request,
and each request was told one count of a key. It needs that a request is not
counted twice on a key: the policies it has yet to be checked against have ids it
was not counted on (`LimitAheadOK`), as a phase is evaluated once, however often
the interceptors are attached (`LimitPlanOK`). `LimitRequestsOK`: a request that was
told more than a limit holds an item that is violated and resets no sooner than
that window ends, and holds a violated item only then (`LimitItemsOK`). Items are
folded twice, the rules of a check and the checks so far, and each time the item
`PickGoverning` keeps is violated if one is and resets last of those
(`LimitGoverning`, which needs that finitely many numbers have a largest). The two
claims follow by counting: requests served in a window were told different numbers
up to the limit, and the numbers up to the limit were told to different requests
before the one that was rejected.

*FederatedLogin.* `LoginRowsHold`: the rows of the identity table are pairs that
were earned, one per identity. `LoginNumbersHold`: row numbers are never reused,
removed rows included, which is what makes the `touch` of a row read earlier
harmless: it finds the row as it was read or not at all (`LoginCallHolds`).
`LoginCookiesHold`: a browser's cookie is of a round trip that began there.

*CookieClient.* `ClientFlightInv` says that a refresh on the wire is the one
flight of its tab and that waiting calls have a flight to wait for;
`ClientEndInv`, that the server refuses only spent tokens and that a spent token
stays spent. The first half of `TabsKeepTheirSession` is the hypothesis
`SingleFlight` of the rotation theorems, for a session that lives in one page.

### Access (AccessControl, TableMeta)

`RevokedRolesAreGone` compares what a request acts on with what it was bound to
know when it began. `AccessInv` follows the shared fetch: one that the cache holds
is of the user it is kept for and, once it has read, knows every change that was
told (`CacheIsCurrent`; `Invalidate` is what keeps it), and one that a call waits
for knows what had been told when that call began (`CallsAreCurrent`), also when
the fetch was begun by a call that has long ended. The proof leaves the data
alone: it holds for any roles, scopes, rows and descriptions. `None` is assumed
not to be a call.

### AuthWorkflow

The theorems assume that deployments are what `Deployment` says
(`PoliciesAssumption`), that requests are finitely many and at least one
(`RequestsAssumption`), and that the limits are numbers (`LimitsAssumption`).

The steps a login has passed are not in the state: a paused run is a position
in a schema and a context, and a sealed one can be resumed after any other.
`WfInv` therefore says of each position what a context there must hold. A
context is `Good` when what it claims was earned (`Earned`: a passed challenge
came with a proof by a factor, unless the deployment lets silent sign-ins do
without; the `sub` of a login with a password, a link, a provider's answer or a
session; an invitation's with the inbox it was sent to) and when it names no
account and no code that does not exist yet (`Owned`). It has `Reached` a position when each
gate before it has been passed (`Upto`) and what a later step decides is not
decided yet (`Ahead`). Every paused state and every running request is good for
where it stands (`Sound`), and a log entry has the proofs its kind asks for
(`Entry`), which are the two properties about proofs.

The proof is in three layers. The schemas are read row by row, so that the
position of each gate and the facts it depends on are plain statements. `Walk`
and `WalkOn` show that the engine's `Follow`, from any position and with any
context that has reached it, stops at a position that context has reached: it
skips no gate whose conditions hold. And for each of the steps a lemma
(`...Moves`) shows that its handler leaves a good context that has reached where
the walk begins; `MovedKeeps` and `StepKeeps` collect them. `ActiveMeansPassword`
is a conjunct of `WfInv`. The steps that activate an account rely on a fact of
the context, that a password was set; the last conjunct of `Owned` says that the
account, if it is still the one the run is for, then has one its owner chose.

`GuessInv` is a counting argument. A submission counts an attempt first and
compares afterwards, so for each code the comparisons made plus the requests
between these two steps are at most the attempts counted (`CodeCounts`), and for
each target the failures plus the requests about to guess stay below
`MaxFailures + Cardinality(Requests)` (`TargetCounts`). The requests are counted
where they stand, and it makes no difference how many of them came from one
sealed state.

### Only model-checked

* `RevokedDrains` and `EveryCallEnds`: liveness under fairness, outside the
  prover's reach.
* `StaleRunsAreDead` of `AuthWorkflow`: the gates are proved, but not yet that
  what they compare is from when it should be. It needs a second invariant, of
  how the stamps and nonces of a run age against the account row through each
  step.
* `RepliesAreGranted`, `WritesAreGranted`, `DescriptionsAreExact` and
  `AnswersStayInTheirRows`: unions and intersections over sets of roles are folds,
  and what a fold computes for every set needs an induction over data.

## Not modelled

* `login-client` (a browser helper that keeps no shared state), `e2e-demo` and
  `docs`, generated code, and the code that only formats requests, replies and
  messages.
* The identity providers' HTTP exchange and signature checks: a provider answers
  with an identity or fails.
* The wording and the delivery of the workflows' messages, and the defaults of
  their options: a deployment of `MCAuthWorkflow` chooses them.
* The Redis denylist and the limiter's `SCAN`; eviction from the record cache at
  its maximum.
* A session revoked between the two writes of its own `issue`
  (`auth-credential.ts:553`): no client holds any of it yet and the model counts
  a session as issued once `issue` returns, so no property covers it; the hazard
  is listed for that reason.
