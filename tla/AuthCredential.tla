---------------------------- MODULE AuthCredential ----------------------------
(***************************************************************************)
(* The credential orchestrator of packages/auth (class AuthCredential)     *)
(* over a STATEFUL CredentialStore: issue, refresh (none / always /        *)
(* sliding, rotation with grace), theft response and the revocations.      *)
(*                                                                         *)
(* Every public method is an async function, so one step of this module is *)
(* "one store operation takes effect, and the code up to the next await".  *)
(* Any number of calls (constants Client and Revoker) run interleaved, on  *)
(* one server or on several sharing the store.  A stored row whose         *)
(* expiresAt has passed is dropped by the clock: no store returns it, and  *)
(* memory.ts deletes it the next time it is looked at.                     *)
(***************************************************************************)
EXTENDS Integers, FiniteSets

CONSTANTS
    Client, Revoker,  \* slots for calls in flight: issue / refresh, revocations
    Session, User,    \* opaque session ids and user ids
    UserOf,           \* the user each session id is minted for
    MaxToken,         \* bound: tokens ever minted
    Rotation,         \* refresh.rotation: "none", "always" or "sliding"
    GraceMs,          \* refresh.rotationGraceMs
    AccessTtl,        \* accessTtl
    RefreshTtl,       \* refresh.ttl
    Plans,            \* refresh options given to issue(), see Plan below
    ReuseResponse,    \* refresh.reuseResponse: "session" or "user"
    MaxConcurrent,    \* maxConcurrent, 0 when not set
    OnLimit,          \* onLimit: "reject" or "evict-oldest"
    MaxRevokePasses,  \* MAX_REVOKE_PASSES (8 in the code)
    MaxTime,          \* bound: clock ticks
    MaxFailures,      \* bound: store operations that reject
    SlowCalls,        \* may the clock move while a call is in flight?
    SingleFlight      \* do clients keep one refresh per session in flight?

\* issue({ refresh }): omitted, a per-mint object, or false.
Plan == {"instance", "perMint", "noRefresh"}

ASSUME BoundsAssumption ==
    /\ MaxToken \in Nat
    /\ MaxTime \in Nat
    /\ MaxFailures \in Nat
    /\ MaxConcurrent \in Nat
    /\ MaxRevokePasses \in Nat \ {0}

ASSUME ConfigAssumption ==
    /\ Rotation \in {"none", "always", "sliding"}
    /\ ReuseResponse \in {"session", "user"}
    /\ OnLimit \in {"reject", "evict-oldest"}
    /\ GraceMs \in Nat
    /\ AccessTtl \in Nat \ {0}
    /\ RefreshTtl \in Nat \ {0}
    /\ Plans \subseteq Plan
    /\ SlowCalls \in BOOLEAN
    /\ SingleFlight \in BOOLEAN

ASSUME SessionAssumption ==
    /\ UserOf \in [Session -> User]
    /\ Session # {}

VARIABLES
    live,      \* tokens the store has a row for
    row,       \* what was last stored under each token
    minted,    \* tokens minted so far: 1 .. minted (random ids never collide)
    sessions,  \* session ids minted so far
    call,      \* the state of each call in flight
    now,       \* clock.now()
    failures,  \* store operations that have rejected
    held,      \* tokens handed out in a reply
    issued,    \* sessions whose issue() has returned
    revoked    \* issued sessions a revocation has returned for

vars == <<live, row, minted, sessions, call, now, failures, held, issued, revoked>>

Call == Client \cup Revoker
None == 0
Token == 1 .. MaxToken
Never == -1
AnySession == CHOOSE s \in Session : TRUE

\* CredentialState, the fields the protocol reads.  "ceiling" is not a field
\* of the code: it is the expiresAt the family's refresh token got from issue().
Row == [sess : Session, kind : {"access", "refresh"}, perMint : BOOLEAN,
        iat : Nat, exp : Nat, ceiling : Nat,
        rotatedAt : Nat \cup {Never}, succA : Token \cup {None}, succR : Token \cup {None}]

BlankRow == [sess |-> AnySession, kind |-> "access", perMint |-> FALSE,
             iat |-> 0, exp |-> 0, ceiling |-> 0,
             rotatedAt |-> Never, succA |-> None, succR |-> None]

IssuePc == {"limit", "evict", "issueAccess", "issueRefresh"}
RotatePc == {"mintAccess", "mintRefresh", "stamp", "recheck", "undo"}
RefreshPc == {"find", "successor"} \cup RotatePc
SweepPc == {"list", "revokes", "orphaned"}
PurgePc == {"purge", "purgeList"}

\* What a revocation matches: revokeSession, revokeOtherSessions, revokeAllForUser.
Scope == {"one", "others", "all"}

CallState ==
    [pc : {"idle"} \cup IssuePc \cup RefreshPc \cup SweepPc \cup PurgePc,
     sess : Session,              \* issue: the new session; revoke: the one named
     plan : Plan,                 \* issue: its refresh option
     tok : Token \cup {None},     \* refresh: the token presented
     at : Nat,                    \* the `now` captured by issue / refresh
     a : Token \cup {None},       \* the access token minted, or to re-deliver
     r : Token \cup {None},       \* the refresh token minted, or to re-deliver
     scope : Scope,
     todo : SUBSET Token,         \* row deletions still to happen
     pass : 0 .. MaxRevokePasses,
     target : SUBSET Session,     \* issued sessions in scope when it was called
     stale : BOOLEAN]             \* was tok superseded when it was presented?

Idle == [pc |-> "idle", sess |-> AnySession, plan |-> "instance", tok |-> None, at |-> 0,
         a |-> None, r |-> None, scope |-> "one", todo |-> {}, pass |-> 0,
         target |-> {}, stale |-> FALSE]

-----------------------------------------------------------------------------
(* Configuration a family carries from its mint.                           *)

\* metadata.refreshRotation wins over the instance configuration.
RotationOf(t) == IF row[t].perMint THEN "always" ELSE Rotation

\* Mutant: a fixed-ceiling rotation starts a new lifetime.
SlidingTtl(t, at) == RefreshTtl

\* The refresh expiry a rotation of t at time `at` gives its successor, as a
\* lifetime counted from the moment the store persists it.
RotatedTtl(t, at) ==
    IF RotationOf(t) = "always"
    THEN IF row[t].exp > at THEN row[t].exp - at ELSE 0
    ELSE RefreshTtl

GraceOver(t, at) == GraceMs = 0 \/ at - row[t].rotatedAt > GraceMs

-----------------------------------------------------------------------------
(* The store.                                                              *)

\* persistAs(): expiresAt is recomputed from the store's clock.
Persist(t, r, ttl) ==
    /\ minted < MaxToken
    /\ t = minted + 1
    /\ minted' = t
    /\ row' = [row EXCEPT ![t] = [r EXCEPT !.exp = now + ttl]]
    /\ live' = IF ttl > 0 THEN live \cup {t} ELSE live

Rows(u) == {t \in live : UserOf[row[t].sess] = u}
AccessRows(u) == {t \in Rows(u) : row[t].kind = "access"}

\* Bound: a call that mints starts only while MaxToken leaves room for every
\* token it and the calls in flight can still mint (a rotated token mints none).
MintPc == IssuePc \cup {"find", "successor", "mintAccess", "mintRefresh"}
RoomToMint == minted + 2 * Cardinality({d \in Call : call[d].pc \in MintPc}) + 2 <= MaxToken

Goto(c, label) == call' = [call EXCEPT ![c].pc = label]
End(c) == call' = [call EXCEPT ![c] = Idle]

-----------------------------------------------------------------------------
(* issue()                                                                 *)

StartIssue(c, s, p) ==
    /\ call[c].pc = "idle"
    /\ s \notin sessions
    /\ RoomToMint
    /\ sessions' = sessions \cup {s}
    /\ call' = [call EXCEPT ![c] =
          [Idle EXCEPT !.pc = IF MaxConcurrent > 0 THEN "limit" ELSE "issueAccess",
                       !.sess = s, !.plan = p, !.at = now]]
    /\ UNCHANGED <<live, row, minted, now, failures, held, issued, revoked>>

\* enforceConcurrencyLimit(): list, then accept, reject, or pick the oldest.
CheckLimit(c) ==
    /\ call[c].pc = "limit"
    /\ LET mine == AccessRows(UserOf[call[c].sess])
           excess == Cardinality(mine) - MaxConcurrent + 1
       IN  \/ /\ excess <= 0
              /\ call' = [call EXCEPT ![c].pc = "issueAccess", ![c].at = now]
           \/ /\ excess > 0
              /\ OnLimit = "reject"
              /\ End(c)
           \/ /\ excess > 0
              /\ OnLimit = "evict-oldest"
              /\ \E oldest \in SUBSET mine :
                    /\ Cardinality(oldest) = excess
                    /\ \A x \in oldest, y \in mine \ oldest : row[x].iat <= row[y].iat
                    /\ call' = [call EXCEPT ![c].pc = "evict", ![c].todo = oldest]
    /\ UNCHANGED <<live, row, minted, sessions, now, failures, held, issued, revoked>>

\* The evictions are awaited one by one, oldest first.
Evict(c) ==
    /\ call[c].pc = "evict"
    /\ \E t \in call[c].todo :
          /\ \A x \in call[c].todo : row[t].iat <= row[x].iat
          /\ live' = live \ {t}
          /\ call' = IF call[c].todo = {t}
                     THEN [call EXCEPT ![c].todo = {}, ![c].pc = "issueAccess", ![c].at = now]
                     ELSE [call EXCEPT ![c].todo = @ \ {t}]
    /\ UNCHANGED <<row, minted, sessions, now, failures, held, issued, revoked>>

\* The tokens a call has minted so far, or is about to re-deliver.
TokensOf(c) == {call[c].a, call[c].r} \ {None}

NewRow(s, kind, perMint, iat, ceiling) ==
    [BlankRow EXCEPT !.sess = s, !.kind = kind, !.perMint = perMint,
                     !.iat = iat, !.ceiling = ceiling]

IssueAccess(c) ==
    /\ call[c].pc = "issueAccess"
    /\ \E t \in Token :
          /\ Persist(t, NewRow(call[c].sess, "access", call[c].plan = "perMint", call[c].at,
                               call[c].at + RefreshTtl), AccessTtl)
          /\ IF call[c].plan = "noRefresh"
             THEN /\ End(c)
                  /\ held' = held \cup {t}
                  /\ issued' = issued \cup {call[c].sess}
             ELSE /\ call' = [call EXCEPT ![c].pc = "issueRefresh", ![c].a = t]
                  /\ UNCHANGED <<held, issued>>
    /\ UNCHANGED <<sessions, now, failures, revoked>>

IssueRefresh(c) ==
    /\ call[c].pc = "issueRefresh"
    /\ \E t \in Token :
          /\ Persist(t, NewRow(call[c].sess, "refresh", call[c].plan = "perMint", call[c].at,
                               now + RefreshTtl), RefreshTtl)
          /\ held' = held \cup TokensOf(c) \cup {t}
    /\ issued' = issued \cup {call[c].sess}
    /\ End(c)
    /\ UNCHANGED <<sessions, now, failures, revoked>>

-----------------------------------------------------------------------------
(* refresh()                                                               *)

\* t was rotated, and the client has moved on from the pair that replaced it.
Superseded(t) ==
    /\ row[t].rotatedAt # Never
    /\ \/ row[t].succR \notin live
       \/ row[row[t].succR].rotatedAt # Never

InRefresh(s) == {d \in Call : call[d].pc \in RefreshPc /\ row[call[d].tok].sess = s}

\* Any token ever handed out may be presented, by its client or a copy of it.
StartRefresh(c, t) ==
    /\ call[c].pc = "idle"
    /\ t \in held
    /\ RoomToMint \/ row[t].rotatedAt # Never
    /\ SingleFlight => InRefresh(row[t].sess) = {}
    /\ call' = [call EXCEPT ![c] = [Idle EXCEPT !.pc = "find", !.tok = t, !.at = now,
                                                !.stale = Superseded(t)]]
    /\ UNCHANGED <<live, row, minted, sessions, now, failures, held, issued, revoked>>

\* INVALID_TOKEN: no row, or not a refresh row; or the caller's guard threw.
FindRefuses(c) ==
    /\ call[c].pc = "find"
    /\ End(c)
    /\ UNCHANGED <<live, row, minted, sessions, now, failures, held, issued, revoked>>

FoundRefresh(c) ==
    /\ call[c].pc = "find"
    /\ call[c].tok \in live
    /\ row[call[c].tok].kind = "refresh"

\* Nothing to hold against this token: go and mint.
FindFresh(c) ==
    /\ FoundRefresh(c)
    /\ RotationOf(call[c].tok) = "none" \/ row[call[c].tok].rotatedAt = Never
    /\ Goto(c, "mintAccess")
    /\ UNCHANGED <<live, row, minted, sessions, now, failures, held, issued, revoked>>

\* respondToRefreshReuse(): revoke the family, or everything of the user.
TheftResponse(c) ==
    LET s == row[call[c].tok].sess IN
    call' = [call EXCEPT ![c] =
        [Idle EXCEPT !.sess = s,
                     !.pc = IF ReuseResponse = "session" THEN "list" ELSE "purge",
                     !.scope = IF ReuseResponse = "session" THEN "one" ELSE "all",
                     !.target = IF ReuseResponse = "session" THEN {s} \cap issued
                                ELSE {x \in issued : UserOf[x] = UserOf[s]}]]

\* An already rotated token: replay when the grace window is over, ...
FindReplay(c) ==
    /\ FoundRefresh(c)
    /\ RotationOf(call[c].tok) # "none"
    /\ row[call[c].tok].rotatedAt # Never
    /\ GraceOver(call[c].tok, call[c].at)
    /\ TheftResponse(c)
    /\ UNCHANGED <<live, row, minted, sessions, now, failures, held, issued, revoked>>

\* ... and within it, depending on the successor pair read with the row.
FindInGrace(c) ==
    LET old == row[call[c].tok] IN
    /\ FoundRefresh(c)
    /\ RotationOf(call[c].tok) # "none"
    /\ old.rotatedAt # Never
    /\ ~GraceOver(call[c].tok, call[c].at)
    /\ call' = [call EXCEPT ![c].pc = "successor", ![c].a = old.succA, ![c].r = old.succR]
    /\ UNCHANGED <<live, row, minted, sessions, now, failures, held, issued, revoked>>

\* Mutant: the successor may have been rotated itself.
SuccessorExists(c) == call[c].r \in live

\* find(successor.refreshToken): the family is still parked on that pair.
SuccessorCurrent(c) == call[c].r \in live /\ row[call[c].r].rotatedAt = Never

\* Re-deliver the pair verbatim; nothing is minted or written.
GraceHit(c) ==
    /\ call[c].pc = "successor"
    /\ SuccessorCurrent(c)
    /\ held' = held \cup TokensOf(c)
    /\ End(c)
    /\ UNCHANGED <<live, row, minted, sessions, now, failures, issued, revoked>>

\* Mutant: a replay is looked up again instead of answered.
GraceReplayRetries(c) ==
    /\ call[c].pc = "successor"
    /\ ~SuccessorCurrent(c)
    /\ Goto(c, "find")
    /\ UNCHANGED <<live, row, minted, sessions, now, failures, held, issued, revoked>>

GraceReplay(c) ==
    /\ call[c].pc = "successor"
    /\ ~SuccessorCurrent(c)
    /\ TheftResponse(c)
    /\ UNCHANGED <<live, row, minted, sessions, now, failures, held, issued, revoked>>

MintAccess(c) ==
    LET old == row[call[c].tok] IN
    /\ call[c].pc = "mintAccess"
    /\ \E t \in Token :
          /\ Persist(t, NewRow(old.sess, "access", old.perMint, call[c].at, old.ceiling),
                     AccessTtl)
          /\ call' = [call EXCEPT ![c].a = t,
                                  ![c].pc = IF RotationOf(call[c].tok) = "none"
                                            THEN "recheck" ELSE "mintRefresh"]
    /\ UNCHANGED <<sessions, now, failures, held, issued, revoked>>

MintRefresh(c) ==
    LET old == row[call[c].tok] IN
    /\ call[c].pc = "mintRefresh"
    /\ \E t \in Token :
          /\ Persist(t, NewRow(old.sess, "refresh", old.perMint, call[c].at, old.ceiling),
                     RotatedTtl(call[c].tok, call[c].at))
          /\ call' = [call EXCEPT ![c].r = t, ![c].pc = "stamp"]
    /\ UNCHANGED <<sessions, now, failures, held, issued, revoked>>

\* Mutant: the old row is not marked rotated.
StampForgotten(c) ==
    /\ call[c].pc = "stamp"
    /\ Goto(c, "recheck")
    /\ UNCHANGED <<live, row, minted, sessions, now, failures, held, issued, revoked>>

\* Mutant: the update re-creates a row that is gone.
StampUpserts(c) ==
    /\ call[c].pc = "stamp"
    /\ row' = [row EXCEPT ![call[c].tok].rotatedAt = call[c].at,
                          ![call[c].tok].succA = call[c].a,
                          ![call[c].tok].succR = call[c].r]
    /\ live' = live \cup {call[c].tok}
    /\ Goto(c, "recheck")
    /\ UNCHANGED <<minted, sessions, now, failures, held, issued, revoked>>

\* store.update(): writes the row as read, rotated; a no-op when it is gone.
Stamp(c) ==
    /\ call[c].pc = "stamp"
    /\ row' = IF call[c].tok \in live
              THEN [row EXCEPT ![call[c].tok].rotatedAt = call[c].at,
                               ![call[c].tok].succA = call[c].a,
                               ![call[c].tok].succR = call[c].r]
              ELSE row
    /\ Goto(c, "recheck")
    /\ UNCHANGED <<live, minted, sessions, now, failures, held, issued, revoked>>

\* assertStillLive(): reply when the presented row still exists ...
RecheckReplies(c) ==
    /\ call[c].pc = "recheck"
    /\ call[c].tok \in live
    /\ held' = held \cup TokensOf(c)
    /\ End(c)
    /\ UNCHANGED <<live, row, minted, sessions, now, failures, issued, revoked>>

\* ... otherwise take the new rows back and refuse.
RecheckRefuses(c) ==
    /\ call[c].pc = "recheck"
    /\ call[c].tok \notin live
    /\ call' = [call EXCEPT ![c].pc = "undo", ![c].todo = TokensOf(c)]
    /\ UNCHANGED <<live, row, minted, sessions, now, failures, held, issued, revoked>>

\* Mutant: a refused refresh leaves its rows.
UndoForgotten(c) ==
    /\ call[c].pc = "undo"
    /\ End(c)
    /\ UNCHANGED <<live, row, minted, sessions, now, failures, held, issued, revoked>>

\* Promise.allSettled over the minted tokens: each revoke may fail on its own.
Undo(c) ==
    /\ call[c].pc = "undo"
    /\ \E t \in call[c].todo :
          /\ \/ live' = live \ {t} /\ UNCHANGED failures
             \/ failures < MaxFailures /\ failures' = failures + 1 /\ UNCHANGED live
          /\ IF call[c].todo = {t} THEN End(c)
             ELSE call' = [call EXCEPT ![c].todo = @ \ {t}]
    /\ UNCHANGED <<row, minted, sessions, now, held, issued, revoked>>

-----------------------------------------------------------------------------
(* Revocations.                                                            *)

Revocation(s, scope, pc, target) ==
    [Idle EXCEPT !.sess = s, !.scope = scope, !.pc = pc, !.target = target]

StartRevokeSession(c, s) ==
    /\ call[c].pc = "idle"
    /\ s \in sessions
    /\ call' = [call EXCEPT ![c] = Revocation(s, "one", "list", {s} \cap issued)]
    /\ UNCHANGED <<live, row, minted, sessions, now, failures, held, issued, revoked>>

StartRevokeOthers(c, keep) ==
    /\ call[c].pc = "idle"
    /\ keep \in issued
    /\ call' = [call EXCEPT ![c] =
          Revocation(keep, "others", "list",
                     {x \in issued : UserOf[x] = UserOf[keep] /\ x # keep})]
    /\ UNCHANGED <<live, row, minted, sessions, now, failures, held, issued, revoked>>

StartRevokeAll(c, u) ==
    /\ call[c].pc = "idle"
    /\ \E s \in Session : UserOf[s] = u
    /\ call' = [call EXCEPT ![c] =
          Revocation(CHOOSE s \in Session : UserOf[s] = u, "all", "purge",
                     {x \in issued : UserOf[x] = u})]
    /\ UNCHANGED <<live, row, minted, sessions, now, failures, held, issued, revoked>>

\* revoke(token): a single store operation, needs no slot of its own.
RevokeToken(t) ==
    /\ t \in held \cap live
    /\ live' = live \ {t}
    /\ UNCHANGED <<row, minted, sessions, call, now, failures, held, issued, revoked>>

\* Mutant: every sweep matches the whole user.
InScopeIgnoringKeep(s, d) == UserOf[s] = UserOf[d.sess]

InScope(s, d) ==
    /\ UserOf[s] = UserOf[d.sess]
    /\ d.scope = "one" => s = d.sess
    /\ d.scope = "others" => s # d.sess

\* Mutant: only refresh rows are swept.
MatchedRefreshRows(c) ==
    {t \in live : row[t].kind = "refresh" /\ InScope(row[t].sess, call[c])}

MatchedRows(c) == {t \in live : InScope(row[t].sess, call[c])}

\* A listing that finds no match ends the sweep: the revocation returns.
SweepDone(c) ==
    /\ call[c].pc = "list"
    /\ MatchedRows(c) = {}
    /\ revoked' = revoked \cup call[c].target
    /\ End(c)
    /\ UNCHANGED <<live, row, minted, sessions, now, failures, held, issued>>

SweepPass(c) ==
    /\ call[c].pc = "list"
    /\ MatchedRows(c) # {}
    /\ call' = [call EXCEPT ![c].pc = "revokes", ![c].todo = MatchedRows(c)]
    /\ UNCHANGED <<live, row, minted, sessions, now, failures, held, issued, revoked>>

\* Another pass, or revocationDidNotConverge() after MAX_REVOKE_PASSES.
NextPass(c, label) ==
    IF call[c].pass >= MaxRevokePasses THEN End(c)
    ELSE call' = [call EXCEPT ![c].todo = {}, ![c].pc = label, ![c].pass = @ + 1]

\* The rows of one pass are revoked in parallel (Promise.all).
RevokeRow(c) ==
    /\ call[c].pc = "revokes"
    /\ \E t \in call[c].todo :
          /\ live' = live \ {t}
          /\ IF call[c].todo = {t} THEN NextPass(c, "list")
             ELSE call' = [call EXCEPT ![c].todo = @ \ {t}]
    /\ UNCHANGED <<row, minted, sessions, now, failures, held, issued, revoked>>

\* One of them rejects: the caller sees the error, the others run on.
RevokeRowFails(c) ==
    /\ call[c].pc = "revokes"
    /\ failures < MaxFailures
    /\ failures' = failures + 1
    /\ \E t \in call[c].todo :
          IF call[c].todo = {t} THEN End(c)
          ELSE call' = [call EXCEPT ![c].pc = "orphaned", ![c].todo = @ \ {t}]
    /\ UNCHANGED <<live, row, minted, sessions, now, held, issued, revoked>>

OrphanedRow(c) ==
    /\ call[c].pc = "orphaned"
    /\ \E t \in call[c].todo :
          /\ \/ live' = live \ {t} /\ UNCHANGED failures
             \/ failures < MaxFailures /\ failures' = failures + 1 /\ UNCHANGED live
          /\ IF call[c].todo = {t} THEN End(c)
             ELSE call' = [call EXCEPT ![c].todo = @ \ {t}]
    /\ UNCHANGED <<row, minted, sessions, now, held, issued, revoked>>

\* store.revokeAllForUser(): one statement in memory and SQL stores.
Purge(c) ==
    /\ call[c].pc = "purge"
    /\ live' = live \ Rows(UserOf[call[c].sess])
    /\ NextPass(c, "purgeList")
    /\ UNCHANGED <<row, minted, sessions, now, failures, held, issued, revoked>>

PurgeDone(c) ==
    /\ call[c].pc = "purgeList"
    /\ Rows(UserOf[call[c].sess]) = {}
    /\ revoked' = revoked \cup call[c].target
    /\ End(c)
    /\ UNCHANGED <<live, row, minted, sessions, now, failures, held, issued>>

PurgeAgain(c) ==
    /\ call[c].pc = "purgeList"
    /\ Rows(UserOf[call[c].sess]) # {}
    /\ Goto(c, "purge")
    /\ UNCHANGED <<live, row, minted, sessions, now, failures, held, issued, revoked>>

-----------------------------------------------------------------------------
(* The environment.                                                        *)

\* A store operation rejects, or the server dies under the call: what the
\* call has already written stays, and nothing further happens.
Fail(c) ==
    /\ call[c].pc \notin {"idle", "undo", "revokes", "orphaned"}
    /\ failures < MaxFailures
    /\ failures' = failures + 1
    /\ End(c)
    /\ UNCHANGED <<live, row, minted, sessions, now, held, issued, revoked>>

Tick ==
    /\ now < MaxTime
    /\ SlowCalls \/ \A c \in Call : call[c].pc = "idle"
    /\ now' = now + 1
    /\ live' = {t \in live : row[t].exp > now + 1}
    /\ UNCHANGED <<row, minted, sessions, call, failures, held, issued, revoked>>

Init ==
    /\ live = {}
    /\ row = [t \in Token |-> BlankRow]
    /\ minted = 0
    /\ sessions = {}
    /\ call = [c \in Call |-> Idle]
    /\ now = 0
    /\ failures = 0
    /\ held = {}
    /\ issued = {}
    /\ revoked = {}

\* What a call does by itself once started.
IssueStep(c) == CheckLimit(c) \/ Evict(c) \/ IssueAccess(c) \/ IssueRefresh(c)

RefreshStep(c) ==
    \/ FindFresh(c) \/ FindReplay(c) \/ FindInGrace(c)
    \/ GraceHit(c) \/ GraceReplay(c)
    \/ MintAccess(c) \/ MintRefresh(c) \/ Stamp(c)
    \/ RecheckReplies(c) \/ RecheckRefuses(c) \/ Undo(c)

RevokeStep(c) ==
    \/ SweepDone(c) \/ SweepPass(c) \/ RevokeRow(c) \/ OrphanedRow(c)
    \/ Purge(c) \/ PurgeDone(c) \/ PurgeAgain(c)

StartClient(c) ==
    \/ \E s \in Session, p \in Plans : StartIssue(c, s, p)
    \/ \E t \in Token : StartRefresh(c, t)

StartRevoker(c) ==
    \/ \E s \in Session : StartRevokeSession(c, s) \/ StartRevokeOthers(c, s)
    \/ \E u \in User : StartRevokeAll(c, u)

StartClients == \E c \in Client : StartClient(c)
StartRevokers == \E c \in Revoker : StartRevoker(c)

Next ==
    \/ StartClients
    \/ StartRevokers
    \/ \E c \in Call : \/ IssueStep(c)
                       \/ RefreshStep(c)
                       \/ FindRefuses(c)
                       \/ RevokeStep(c)
                       \/ RevokeRowFails(c)
                       \/ Fail(c)
    \/ \E t \in Token : RevokeToken(t)
    \/ Tick

Spec == Init /\ [][Next]_vars

\* A promise that was started is run to its end by the event loop.
Fairness ==
    \A c \in Call : WF_vars(IssueStep(c) \/ RefreshStep(c) \/ FindRefuses(c) \/ RevokeStep(c))

FairSpec == Spec /\ Fairness
-----------------------------------------------------------------------------
(* Properties.                                                             *)

\* Every variable has its type; in particular no revocation runs more than
\* MAX_REVOKE_PASSES passes (the loops of sweepUntilEmpty and revokeAllForUser).
TypeOK ==
    /\ live \subseteq Token
    /\ row \in [Token -> Row]
    /\ minted \in 0 .. MaxToken
    /\ sessions \subseteq Session
    /\ call \in [Call -> CallState]
    /\ \A c \in Call : call[c].pc \in RefreshPc => call[c].tok \in Token
    /\ now \in Nat
    /\ failures \in 0 .. MaxFailures
    /\ held \subseteq Token
    /\ issued \subseteq Session
    /\ revoked \subseteq Session

\* Once a revocation of a session has returned - revokeSession,
\* revokeOtherSessions, revokeAllForUser or a theft response - no token of
\* that session that any client was ever given works again, whatever refreshes
\* were in flight when it ran and whatever store operations failed.
RevokedTokensDead ==
    \A t \in held : row[t].sess \in revoked => t \notin live

\* Rows only disappear for a reason: expiry, a single-token revoke or the
\* concurrency limit, a revocation whose scope the row is in, or the undo of
\* a refresh whose own token is gone.  Nobody else's session is signed out.
OnlyTargetsDie ==
    [][\A t \in live \ live' :
          \/ row[t].exp <= now'
          \/ t \in held /\ UNCHANGED call
          \/ \E c \in Call :
                \/ call[c].pc = "evict" /\ t \in call[c].todo
                \/ call[c].pc = "undo" /\ t \in call[c].todo /\ call[c].tok \notin live
                \/ call[c].pc \in SweepPc /\ call[c].scope = "one"
                      /\ row[t].sess = call[c].sess
                \/ call[c].pc \in SweepPc /\ call[c].scope = "others"
                      /\ row[t].sess # call[c].sess
                \/ call[c].pc = "purge" /\ UserOf[row[t].sess] = UserOf[call[c].sess]]_vars

\* The refresh tokens a client could still rotate from.
Heads(s) ==
    {t \in held \cap live : row[t].sess = s /\ row[t].kind = "refresh" /\ row[t].rotatedAt = Never}

\* A session has one successor line: rotating, re-delivering within grace and
\* retrying after a lost reply never leave a client two refresh tokens that
\* each rotate on their own ("a multi-tab race converges on one successor",
\* rotateWithGrace).
OneHead == \A s \in Session : Cardinality(Heads(s)) <= 1

\* A refresh token whose successor was already rotated or revoked when it was
\* presented yields nothing, even inside the grace window (RefreshConfig.rotation).
SupersededIsDead ==
    [][\A c \in Call : call[c].stale => ~MintAccess(c) /\ ~GraceHit(c)]_vars

\* A fixed-ceiling family ('always', and every per-mint family) never outlives
\* the expiry its refresh token was issued with, however often it is rotated.
CeilingHolds ==
    \A t \in live :
        row[t].kind = "refresh" /\ RotationOf(t) = "always" => row[t].exp <= row[t].ceiling

\* A revoked session leaves no rows behind: whatever a refresh in flight
\* minted for it is taken back, so listSessions() does not show it for ever.
RevokedDrains ==
    \A s \in Session : s \in revoked ~> [](\A t \in live : row[t].sess # s)

\* Every call is answered: no refresh, theft response or revocation spins or
\* waits for ever, whoever else is running.
EveryCallEnds == \A c \in Call : []<>(call[c].pc = "idle")

-----------------------------------------------------------------------------
(* The invariant behind RevokedTokensDead, see AuthCredential_proofs.      *)

\* The store and the ghosts: only minted tokens occur; a rotated row names a
\* pair of its own session; and nobody holds, and no row can re-deliver, a live
\* token of a revoked session.
StoreInv ==
    /\ live \subseteq 1 .. minted
    /\ held \subseteq 1 .. minted
    /\ revoked \subseteq issued
    /\ issued \subseteq sessions
    /\ \A t \in Token : row[t].succA <= minted /\ row[t].succR <= minted
    /\ \A t \in 1 .. minted : \A x \in {row[t].succA, row[t].succR} \ {None} :
          row[x].sess = row[t].sess
    /\ \A t \in live : row[t].sess \in revoked =>
          t \notin held /\ \A x \in Token : row[x].succA # t /\ row[x].succR # t

\* A call in state d: a revocation aims at issued sessions in its scope; a
\* session being issued is known to nobody else; a refresh works for the one
\* session of the token it was given, which a client holds.
CallInv(d) ==
    /\ d.a <= minted /\ d.r <= minted
    /\ d.target \subseteq issued
    /\ \A s \in d.target : InScope(s, d)
    /\ d.pc \in IssuePc => d.sess \in sessions \ issued /\ d.r = None
    /\ d.pc = "issueRefresh" => d.a # None /\ row[d.a].sess = d.sess
    /\ d.pc \in RefreshPc =>
          /\ d.tok \in held
          /\ \A t \in {d.a, d.r} \ {None} : row[t].sess = row[d.tok].sess
    /\ d.pc = "successor" =>
          \A t \in {d.a, d.r} : t \in live => row[t].sess \notin revoked

DistinctIssues ==
    \A c, d \in Call :
        call[c].pc \in IssuePc /\ call[d].pc \in IssuePc /\ call[c].sess = call[d].sess => c = d

RevocationInv ==
    /\ StoreInv
    /\ \A c \in Call : CallInv(call[c])
    /\ DistinctIssues

-----------------------------------------------------------------------------
(* What the orchestrator promises, see SessionAuthority.                   *)

Authority == INSTANCE SessionAuthority WITH
    Token <- Token,
    usable <- {<<t, row[t].sess>> : t \in held \cap live},
    closed <- revoked

ImplementsAuthority == Authority!Spec
=============================================================================
