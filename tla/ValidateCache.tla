----------------------------- MODULE ValidateCache -----------------------------
(***************************************************************************)
(* The opt-in validateCache of AuthCredential: a process-local map from    *)
(* access tokens to the state validate() read for them, so that most       *)
(* requests need no store round trip.  What can go wrong is the race       *)
(* between a validation that is reading the store and a revocation of the  *)
(* token it reads: the code evicts before and after every store write and  *)
(* moves an epoch, so that a validation that overlaps an eviction does not *)
(* fill the cache.                                                         *)
(*                                                                         *)
(* The module follows ONE process: its validations, its revocations and    *)
(* its cache.  Other processes on the same store are the action            *)
(* RevokeElsewhere; the tokens come from Mint (module AuthCredential says  *)
(* when they may).  A store read is two steps, the moment it takes effect  *)
(* and the moment its reply is handled; so is a row's removal.             *)
(***************************************************************************)
EXTENDS Integers, FiniteSets

CONSTANTS
    Token,            \* the tokens that may ever be minted
    Refresh,          \* those of kind "refresh"
    Session, User,
    SessionOf,        \* the session of each token
    UserOf,           \* the user of each session
    Validator,        \* slots for validate() calls in flight
    Revoker,          \* slots for revocations in flight
    Lifetime,         \* the ttl each token is minted with
    TtlMs,            \* validateCache.ttlMs
    MaxEntries,       \* validateCache.max
    MaxRevokePasses,  \* MAX_REVOKE_PASSES (8 in the code)
    MaxReadTime,      \* bound: ticks a store read may take
    MaxTime,          \* bound: clock ticks
    MaxFailures       \* bound: store operations that reject

ASSUME CacheAssumption ==
    /\ TtlMs \in Nat \ {0}
    /\ MaxEntries \in Nat \ {0}
    /\ MaxRevokePasses \in Nat \ {0}
    /\ MaxReadTime \in Nat
    /\ MaxTime \in Nat
    /\ MaxFailures \in Nat

ASSUME TokenAssumption ==
    /\ Refresh \subseteq Token
    /\ SessionOf \in [Token -> Session]
    /\ UserOf \in [Session -> User]
    /\ Lifetime \in [Token -> Nat \ {0}]
    /\ Token # {}
    /\ User # {}

VARIABLES
    live,        \* tokens the store has an unexpired row for
    minted,      \* tokens minted so far
    expiresAt,   \* expiresAt of each minted token
    removedAt,   \* when a revocation took each token's row
    cached,      \* the Map: until when each token's entry holds
    validation,  \* validate() calls in flight
    call,        \* revocations in flight
    closed,      \* tokens a revocation of this process has returned for
    now, failures

vars == <<live, minted, expiresAt, removedAt, cached, validation, call, closed,
          now, failures>>

Never == -1
AnyToken == CHOOSE t \in Token : TRUE
AnyUser == CHOOSE u \in User : TRUE

TokensOf(u) == {t \in Token : UserOf[SessionOf[t]] = u}
TokensIn(S) == {t \in Token : SessionOf[t] \in S}

(* ------------------------------- The cache ------------------------------ *)
Cached == {t \in Token : cached[t] # Never}

\* Mutant: an entry is used whatever its age.
HitAnyAge(t) == cached[t] # Never

Hit(t) == cached[t] > now

\* The Map keeps insertion order, which is the order of `until`: set() always
\* re-inserts at the end and the clock does not go back.
Oldest == {t \in Cached : \A u \in Cached : cached[t] <= cached[u]}
Drop(T) == [t \in Token |-> IF t \in T THEN Never ELSE cached[t]]

\* Mutant: the map is never full.
PutUnbounded(t) == cached' = [cached EXCEPT ![t] = now + TtlMs]

Put(t) ==
    \/ /\ Cardinality(Cached \ {t}) < MaxEntries
       /\ cached' = [cached EXCEPT ![t] = now + TtlMs]
    \/ /\ Cardinality(Cached \ {t}) >= MaxEntries
       /\ \E old \in Oldest \ {t} :
             cached' = [Drop({old}) EXCEPT ![t] = now + TtlMs]

\* Mutant: an eviction does not move the epoch.
EvictSilently(T) ==
    /\ cached' = Drop(T)
    /\ UNCHANGED validation

\* delete / deleteUser: drop the entries and move the epoch.  Only equality of
\* epochs matters: a validation is clean while the epoch it captured is current.
Evict(T) ==
    /\ cached' = Drop(T)
    /\ validation' = [v \in Validator |-> [validation[v] EXCEPT !.clean = FALSE]]

(* ------------------------------- validate() ----------------------------- *)
ValidationState ==
    [pc : {"idle", "read", "reply"}, tok : Token, clean : BOOLEAN, since : Nat]

Waiting == [pc |-> "idle", tok |-> AnyToken, clean |-> FALSE, since |-> 0]

\* Not cached, or not any more: capture the epoch and start reading.
StartRead(v, t) ==
    /\ validation[v].pc = "idle"
    /\ t \in minted
    /\ ~Hit(t)
    /\ cached' = Drop({t})
    /\ validation' = [validation EXCEPT ![v] =
                        [pc |-> "read", tok |-> t, clean |-> TRUE, since |-> now]]
    /\ UNCHANGED <<live, minted, expiresAt, removedAt, call, closed, now, failures>>

\* A hit on a token that has expired meanwhile is evicted.  (Any other hit
\* answers from the cache and changes nothing.)
HitExpired(t) ==
    /\ Hit(t)
    /\ expiresAt[t] <= now
    /\ Evict({t})
    /\ UNCHANGED <<live, minted, expiresAt, removedAt, call, closed, now, failures>>

\* The store looks the row up; without one the call answers null.
Read(v) ==
    /\ validation[v].pc = "read"
    /\ validation' = IF validation[v].tok \in live
                     THEN [validation EXCEPT ![v].pc = "reply"]
                     ELSE [validation EXCEPT ![v] = Waiting]
    /\ UNCHANGED <<live, minted, expiresAt, removedAt, cached, call, closed, now, failures>>

ReadFails(v) ==
    /\ validation[v].pc = "read"
    /\ failures < MaxFailures
    /\ failures' = failures + 1
    /\ validation' = [validation EXCEPT ![v] = Waiting]
    /\ UNCHANGED <<live, minted, expiresAt, removedAt, cached, call, closed, now>>

Usable(t) == expiresAt[t] > now /\ t \notin Refresh

\* The state read is cached when it is a usable access token and no eviction
\* ran since the read was started.
Fill(v) ==
    /\ validation[v].pc = "reply"
    /\ Usable(validation[v].tok)
    /\ validation[v].clean
    /\ Put(validation[v].tok)
    /\ validation' = [validation EXCEPT ![v] = Waiting]
    /\ UNCHANGED <<live, minted, expiresAt, removedAt, call, closed, now, failures>>

Answer(v) ==
    /\ validation[v].pc = "reply"
    /\ ~(Usable(validation[v].tok) /\ validation[v].clean)
    /\ validation' = [validation EXCEPT ![v] = Waiting]
    /\ UNCHANGED <<live, minted, expiresAt, removedAt, cached, call, closed, now, failures>>

(* ------------------------------ Revocations ----------------------------- *)
\* "one" is revoke(token); "list" and "sweep" are sweepUntilEmpty; "purge",
\* "purgeList" and "finally" are revokeAllForUser; "orphaned" is a sweep whose
\* caller got an error while the revokes it started go on.
CallState ==
    [pc : {"idle", "one", "list", "sweep", "orphaned", "purge", "purgeList", "finally"},
     sessions : SUBSET Session,    \* what a sweep is for
     user : User,                  \* whom revokeAllForUser is for
     writing : SUBSET Token,       \* revokeKey calls before their store write
     evicting : SUBSET Token,      \* and after it, before their second eviction
     targets : SUBSET Token,       \* what the call answers for when it returns
     pass : 0 .. MaxRevokePasses,
     failed : BOOLEAN]

Idle == [pc |-> "idle", sessions |-> {}, user |-> AnyUser, writing |-> {},
         evicting |-> {}, targets |-> {}, pass |-> 0, failed |-> FALSE]

End(c) == call' = [call EXCEPT ![c] = Idle]

Remove(T) ==
    /\ live' = live \ T
    /\ removedAt' = [t \in Token |-> IF t \in T \cap live THEN now ELSE removedAt[t]]

StartRevoke(c, t) ==
    /\ call[c].pc = "idle"
    /\ t \in minted
    /\ Evict({t})
    /\ call' = [call EXCEPT ![c] = [Idle EXCEPT !.pc = "one", !.writing = {t},
                                                !.targets = {t}]]
    /\ UNCHANGED <<live, minted, expiresAt, removedAt, closed, now, failures>>

\* revokeSession and revokeOtherSessions: the sessions whose key matches.
StartSweep(c, S) ==
    /\ call[c].pc = "idle"
    /\ call' = [call EXCEPT ![c] = [Idle EXCEPT !.pc = "list", !.sessions = S]]
    /\ UNCHANGED <<live, minted, expiresAt, removedAt, cached, validation, closed,
                   now, failures>>

StartRevokeSession(c) == \E s \in Session : StartSweep(c, {s})

StartRevokeOthers(c) ==
    \E keep \in Session :
        StartSweep(c, {s \in Session : UserOf[s] = UserOf[keep]} \ {keep})

Matched(c) == live \cap TokensIn(call[c].sessions)

\* The listing, and up to the next await a revokeKey for each match.
ListRows(c) ==
    /\ call[c].pc = "list"
    /\ Matched(c) # {}
    /\ Evict(Matched(c))
    /\ call' = [call EXCEPT ![c].pc = "sweep", ![c].writing = Matched(c),
                            ![c].targets = @ \cup Matched(c)]
    /\ UNCHANGED <<live, minted, expiresAt, removedAt, closed, now, failures>>

ListEmpty(c) ==
    /\ call[c].pc = "list"
    /\ Matched(c) = {}
    /\ closed' = closed \cup call[c].targets
    /\ End(c)
    /\ UNCHANGED <<live, minted, expiresAt, removedAt, cached, validation, now, failures>>

RevokesPc == {"one", "sweep", "orphaned"}

WriteRow(c, t) ==
    /\ call[c].pc \in RevokesPc
    /\ t \in call[c].writing
    /\ Remove({t})
    /\ call' = [call EXCEPT ![c].writing = @ \ {t}, ![c].evicting = @ \cup {t}]
    /\ UNCHANGED <<minted, expiresAt, cached, validation, closed, now, failures>>

\* store.revoke rejects: the finally block still evicts, the call will throw.
WriteFails(c, t) ==
    /\ call[c].pc \in RevokesPc
    /\ t \in call[c].writing
    /\ failures < MaxFailures
    /\ failures' = failures + 1
    /\ call' = [call EXCEPT ![c].writing = @ \ {t}, ![c].evicting = @ \cup {t},
                            ![c].pc = "orphaned"]
    /\ UNCHANGED <<live, minted, expiresAt, removedAt, cached, validation, closed, now>>

\* The finally block of revokeKey.
EvictAgain(c, t) ==
    /\ call[c].pc \in RevokesPc
    /\ t \in call[c].evicting
    /\ Evict({t})
    /\ call' = [call EXCEPT ![c].evicting = @ \ {t}]
    /\ UNCHANGED <<live, minted, expiresAt, removedAt, closed, now, failures>>

AllSettled(c) == call[c].writing = {} /\ call[c].evicting = {}

RevokeReturns(c) ==
    /\ call[c].pc = "one"
    /\ AllSettled(c)
    /\ closed' = closed \cup call[c].targets
    /\ End(c)
    /\ UNCHANGED <<live, minted, expiresAt, removedAt, cached, validation, now, failures>>

OrphanEnds(c) ==
    /\ call[c].pc = "orphaned"
    /\ AllSettled(c)
    /\ End(c)
    /\ UNCHANGED <<live, minted, expiresAt, removedAt, cached, validation, closed,
                   now, failures>>

SweepAgain(c) ==
    /\ call[c].pc = "sweep"
    /\ AllSettled(c)
    /\ IF call[c].pass >= MaxRevokePasses
       THEN End(c)
       ELSE call' = [call EXCEPT ![c].pc = "list", ![c].pass = @ + 1]
    /\ UNCHANGED <<live, minted, expiresAt, removedAt, cached, validation, closed,
                   now, failures>>

\* The call answers for the tokens minted before it started.
StartRevokeAll(c, u) ==
    /\ call[c].pc = "idle"
    /\ Evict(TokensOf(u))
    /\ call' = [call EXCEPT ![c] = [Idle EXCEPT !.pc = "purge", !.user = u,
                                        !.targets = minted \cap TokensOf(u)]]
    /\ UNCHANGED <<live, minted, expiresAt, removedAt, closed, now, failures>>

\* store.revokeAllForUser; after MaxRevokePasses repetitions the call throws.
Purge(c) ==
    /\ call[c].pc = "purge"
    /\ Remove(TokensOf(call[c].user))
    /\ call' = IF call[c].pass >= MaxRevokePasses
               THEN [call EXCEPT ![c].pc = "finally", ![c].failed = TRUE]
               ELSE [call EXCEPT ![c].pc = "purgeList"]
    /\ UNCHANGED <<minted, expiresAt, cached, validation, closed, now, failures>>

PurgeList(c) ==
    /\ call[c].pc = "purgeList"
    /\ call' = IF live \cap TokensOf(call[c].user) = {}
               THEN [call EXCEPT ![c].pc = "finally"]
               ELSE [call EXCEPT ![c].pc = "purge", ![c].pass = @ + 1]
    /\ UNCHANGED <<live, minted, expiresAt, removedAt, cached, validation, closed,
                   now, failures>>

PurgeFails(c) ==
    /\ call[c].pc \in {"purge", "purgeList"}
    /\ failures < MaxFailures
    /\ failures' = failures + 1
    /\ call' = [call EXCEPT ![c].pc = "finally", ![c].failed = TRUE]
    /\ UNCHANGED <<live, minted, expiresAt, removedAt, cached, validation, closed, now>>

\* The finally block of revokeAllForUser, then its return.
Finally(c) ==
    /\ call[c].pc = "finally"
    /\ Evict(TokensOf(call[c].user))
    /\ closed' = IF call[c].failed THEN closed ELSE closed \cup call[c].targets
    /\ End(c)
    /\ UNCHANGED <<live, minted, expiresAt, removedAt, now, failures>>

ListFails(c) ==
    /\ call[c].pc = "list"
    /\ failures < MaxFailures
    /\ failures' = failures + 1
    /\ End(c)
    /\ UNCHANGED <<live, minted, expiresAt, removedAt, cached, validation, closed, now>>

(* ----------------------------- Surroundings ----------------------------- *)
Mint(t) ==
    /\ t \in Token \ minted
    /\ minted' = minted \cup {t}
    /\ live' = live \cup {t}
    /\ expiresAt' = [expiresAt EXCEPT ![t] = now + Lifetime[t]]
    /\ UNCHANGED <<removedAt, cached, validation, call, closed, now, failures>>

\* Another process, or a direct store write, takes a row.
RevokeElsewhere(t) ==
    /\ t \in live
    /\ Remove({t})
    /\ UNCHANGED <<minted, expiresAt, cached, validation, call, closed, now, failures>>

\* Rows whose expiresAt has passed are no longer found.
Tick ==
    /\ now < MaxTime
    /\ \A v \in Validator :
          validation[v].pc # "idle" => now < validation[v].since + MaxReadTime
    /\ now' = now + 1
    /\ live' = {t \in live : expiresAt[t] > now + 1}
    /\ UNCHANGED <<minted, expiresAt, removedAt, cached, validation, call, closed, failures>>

Init ==
    /\ live = {}
    /\ minted = {}
    /\ expiresAt = [t \in Token |-> 0]
    /\ removedAt = [t \in Token |-> Never]
    /\ cached = [t \in Token |-> Never]
    /\ validation = [v \in Validator |-> Waiting]
    /\ call = [c \in Revoker |-> Idle]
    /\ closed = {}
    /\ now = 0
    /\ failures = 0

ValidateStep(v) ==
    \/ \E t \in Token : StartRead(v, t)
    \/ Read(v) \/ ReadFails(v) \/ Fill(v) \/ Answer(v)

RowStep(c) == \E t \in Token : WriteRow(c, t) \/ WriteFails(c, t) \/ EvictAgain(c, t)

RevokeStep(c) ==
    \/ \E t \in Token : StartRevoke(c, t)
    \/ StartRevokeSession(c) \/ StartRevokeOthers(c)
    \/ ListRows(c) \/ ListEmpty(c) \/ ListFails(c)
    \/ RowStep(c) \/ RevokeReturns(c) \/ OrphanEnds(c) \/ SweepAgain(c)

PurgeStep(c) ==
    \/ \E u \in User : StartRevokeAll(c, u)
    \/ Purge(c) \/ PurgeList(c) \/ PurgeFails(c) \/ Finally(c)

StoreStep(t) == Mint(t) \/ RevokeElsewhere(t) \/ HitExpired(t)

Next ==
    \/ \E v \in Validator : ValidateStep(v)
    \/ \E c \in Revoker : RevokeStep(c) \/ PurgeStep(c)
    \/ \E t \in Token : StoreStep(t)
    \/ Tick

Spec == Init /\ [][Next]_vars

(* ------------------------------ Properties ------------------------------ *)
\* The state of the process and of the store stays well formed; in particular
\* no sweep goes past its last pass.
TypeOK ==
    /\ minted \subseteq Token
    /\ live \subseteq minted
    /\ closed \subseteq Token
    /\ expiresAt \in [Token -> Nat]
    /\ removedAt \in [Token -> Nat \cup {Never}]
    /\ cached \in [Token -> Nat \cup {Never}]
    /\ validation \in [Validator -> ValidationState]
    /\ call \in [Revoker -> CallState]
    /\ \A c \in Revoker : call[c].pc = "purgeList" => call[c].pass < MaxRevokePasses
    /\ now \in Nat
    /\ failures \in Nat

\* Once revoke(), revokeAllForUser() or a sweep of this process has returned,
\* the tokens it took are not in the cache, nor will a validation that was
\* reading one of them put it there.
RevokedNotCached == closed \cap Cached = {}

\* A token whose row is gone, whoever took it, is served from the cache for
\* less than ttlMs and the time the read that filled the entry took.
Served(t) == Hit(t) /\ expiresAt[t] > now
StaleBounded ==
    \A t \in Token :
        Served(t) /\ removedAt[t] # Never => now < removedAt[t] + TtlMs + MaxReadTime

\* The process never holds more than validateCache.max entries.
SizeBounded == Cardinality(Cached) <= MaxEntries

(* ------------------------- Inductive invariants ------------------------- *)
\* A validation that will put t into the cache unless an eviction intervenes.
Holds(v, t) ==
    validation[v].pc = "reply" /\ validation[v].tok = t /\ validation[v].clean

\* t is gone from the store and from the cache, and nothing brings it back.
Quiet(t) ==
    /\ t \in minted \ live
    /\ cached[t] = Never
    /\ \A v \in Validator : ~Holds(v, t)

\* What a revocation in flight has achieved for its targets.
CallInv(c) ==
    /\ call[c].targets \subseteq minted
    /\ call[c].pc = "list" => AllSettled(c)
    /\ call[c].pc \in {"one", "list", "sweep"} =>
          /\ call[c].targets \cap live \subseteq call[c].writing
          /\ \A t \in call[c].targets \ (call[c].writing \cup call[c].evicting) : Quiet(t)
    /\ call[c].pc \in {"purge", "purgeList", "finally"} =>
          call[c].targets \subseteq TokensOf(call[c].user)
    /\ call[c].pc \in {"purgeList", "finally"} /\ ~call[c].failed =>
          call[c].targets \cap live = {}

CacheInv ==
    /\ \A t \in closed : Quiet(t)
    /\ \A c \in Revoker : CallInv(c)

\* How old an entry, and the read behind it, can be.
StaleInv ==
    /\ \A t \in Token : cached[t] <= now + TtlMs
    /\ \A t \in Token : removedAt[t] <= now
    /\ \A t \in Token : t \in live \/ t \notin minted => removedAt[t] = Never
    /\ \A t \in Token : removedAt[t] # Never =>
          cached[t] <= removedAt[t] + TtlMs + MaxReadTime
    /\ \A v \in Validator : validation[v].pc # "idle" =>
          validation[v].since <= now /\ now <= validation[v].since + MaxReadTime
    /\ \A v \in Validator : validation[v].pc = "reply" =>
          LET gone == removedAt[validation[v].tok]
          IN gone # Never => validation[v].since <= gone

SizeInv == IsFiniteSet(Cached) /\ SizeBounded
=============================================================================
