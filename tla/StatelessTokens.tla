---------------------------- MODULE StatelessTokens ----------------------------
(***************************************************************************)
(* AuthCredential over a store without rows: the token is the state, signed *)
(* (CredentialStoreJwt) or sealed (CredentialStoreEncapsulated).  What      *)
(* revokes a token is elsewhere: a denylist of token ids, which drops an id *)
(* when its token has expired, and a per-user epoch in the memory of the    *)
(* process.  Nothing can be listed, so refresh() has no row to stamp and no *)
(* final look; single use rests on the denylist and on what the process     *)
(* remembers of consumed tokens.                                            *)
(*                                                                         *)
(* One user.  Of a pair only the refresh token is listed: the access token  *)
(* has the same times and falls with the same epoch.  The clock counts      *)
(* milliseconds, of which a second has Second; the exp claim of a JWT is in *)
(* seconds.  A Redis denylist survives a restart; the epoch, the consumed   *)
(* tokens and a denylist in memory do not.                                  *)
(***************************************************************************)
EXTENDS Integers, Sequences, FiniteSets

CONSTANTS
    Call,         \* slots for calls in flight
    Setups,       \* [store, denylist, rotation, accessTtl, refreshTtl]
    Second,       \* milliseconds in a second (1000 in the code)
    MaxToken,     \* bound: tokens minted
    MaxTime,      \* bound: the clock
    MaxEvents     \* bound: refreshes, revocations, failures and restarts

VARIABLES
    setup,        \* how this deployment is configured
    minted,       \* the tokens, which are their states
    held,         \* those a client was answered with
    denied,       \* until when the denylist keeps each token's id
    epoch,        \* the user's revocation epoch
    consumed,     \* refresh tokens the process remembers as used
    call,         \* calls in flight
    answered,     \* ghost: refresh tokens that were answered with a new pair (and by what a
                  \* restart does not forget)
    signedOut,    \* ghost: when this process last signed the user out
    now, events

vars == <<setup, minted, held, denied, epoch, consumed, call, answered, signedOut, now, events>>

None == -1
Tokens == DOMAIN minted
Idle == [at |-> "idle", tok |-> 0, start |-> 0, late |-> FALSE, pair |-> 0]
At(c, label) == call[c].at = label
Jwt == setup.store = "jwt"

Happens == events < MaxEvents /\ events' = events + 1

(* --------------------------- What a token says --------------------------- *)
\* jwtVerify: exp has passed when the current second reached it.
JwtVerifies(t) == now \div Second < minted[t].exp \div Second
\* Mutant: the id is kept for the seconds of exp, as if they were milliseconds.
JwtDenyUntilSeconds(t) == minted[t].exp \div Second
JwtDenyUntil(t) == (minted[t].exp \div Second) * Second

SealedOpens(t) == now < minted[t].exp
Opens(t) == IF Jwt THEN JwtVerifies(t) ELSE SealedOpens(t)
DenyUntil(t) == IF Jwt THEN JwtDenyUntil(t) ELSE minted[t].exp

\* Tokens of the millisecond of the revocation pass, so that a flow can revoke
\* and issue in one tick.
PassesEpoch(t) == epoch = None \/ minted[t].iat >= epoch

\* The denylists: `has` ignores and `add` may sweep what has lapsed; Redis is
\* not even told of an id that has.
InDenylist(t) == denied[t] > now
AddInMemory(t) == denied' = [denied EXCEPT ![t] = DenyUntil(t)]
AddInRedis(t) == denied' = IF DenyUntil(t) > now THEN [denied EXCEPT ![t] = DenyUntil(t)] ELSE denied
Deny(t) == IF setup.denylist = "memory" THEN AddInMemory(t) ELSE AddInRedis(t)

\* persist: a new token, whose lifetime is counted from the moment of the call.
\* `began` and `late` are ghosts: when the call that mints it began, and whether
\* it was minted for a token that had been answered by then and is still good.
Persisted(kind, iat, ttl, c) ==
    [kind |-> kind, iat |-> iat, exp |-> now + ttl,
     began |-> call[c].start, late |-> call[c].late /\ Opens(call[c].tok)]
Mint(state) ==
    /\ Len(minted) < MaxToken
    /\ minted' = Append(minted, state)
    /\ denied' = Append(denied, 0)

Move(c, label) == call' = [call EXCEPT ![c].at = label]
End(c) == call' = [call EXCEPT ![c] = Idle]

(* --------------------------------- issue() ------------------------------- *)
\* The awaits of issue() change nothing: its token carries the time it began,
\* and one that is signed after a revocation is as dead as one signed before.
\* (Bound: a second login only after a sign-out.)
Issue ==
    /\ minted = <<>> \/ signedOut # None
    /\ Mint([kind |-> "refresh", iat |-> now, exp |-> now + setup.refreshTtl,
             began |-> now, late |-> FALSE])
    /\ held' = held \cup {Len(minted) + 1}
    /\ UNCHANGED <<setup, epoch, consumed, call, answered, signedOut, now, events>>

(* -------------------------------- refresh() ------------------------------ *)
\* `now` is taken first; then find() opens the token, and a sealed one is held
\* against the epoch before the denylist is asked.
StartRefresh(c, t) ==
    /\ At(c, "idle") /\ t \in held /\ minted[t].kind = "refresh" /\ Happens
    /\ call' = [call EXCEPT ![c] =
                   [Idle EXCEPT !.tok = t, !.start = now, !.late = t \in answered,
                                !.at = IF Opens(t) /\ (Jwt \/ PassesEpoch(t)) THEN "denylist" ELSE "unknown"]]
    /\ UNCHANGED <<setup, minted, held, denied, epoch, consumed, answered, signedOut, now>>

\* retrieve: a JWT meets the epoch after the denylist has answered.
AskDenylist(c) ==
    /\ At(c, "denylist")
    /\ Move(c, IF InDenylist(call[c].tok) THEN "unknown" ELSE IF Jwt THEN "epoch" ELSE "guard")
    /\ UNCHANGED <<setup, minted, held, denied, epoch, consumed, answered, signedOut, now, events>>

CheckEpoch(c) ==
    /\ At(c, "epoch")
    /\ Move(c, IF PassesEpoch(call[c].tok) THEN "guard" ELSE "unknown")
    /\ UNCHANGED <<setup, minted, held, denied, epoch, consumed, answered, signedOut, now, events>>

\* lookupConsumedRefresh
Remembered(t) == t \in consumed /\ now < minted[t].exp

\* An unknown token that this process consumed is a replay: the theft response
\* has nothing to list, so it signs the whole user out.
Unknown(c) ==
    /\ At(c, "unknown") /\ ~Remembered(call[c].tok)
    /\ consumed' = consumed \ {call[c].tok}
    /\ End(c)
    /\ UNCHANGED <<setup, minted, held, denied, epoch, answered, signedOut, now, events>>

Replayed(c) ==
    /\ At(c, "unknown") /\ Remembered(call[c].tok)
    /\ consumed' = consumed \ {call[c].tok}
    /\ epoch' = now /\ signedOut' = now
    /\ End(c)
    /\ UNCHANGED <<setup, minted, held, denied, answered, now, events>>

\* The caller's guard may refuse.
Refuse(c) ==
    /\ At(c, "guard") /\ End(c)
    /\ UNCHANGED <<setup, minted, held, denied, epoch, consumed, answered, signedOut, now, events>>

RefreshNone(c) ==
    /\ At(c, "guard") /\ setup.rotation = "none"
    /\ Mint(Persisted("access", call[c].start, setup.accessTtl, c))
    /\ held' = held \cup {Len(minted) + 1} /\ End(c)
    /\ UNCHANGED <<setup, epoch, consumed, answered, signedOut, now, events>>

\* refreshAlways awaits consume() and ignores what it returns: a token that is
\* gone by now is rotated all the same.
JwtConsumes(t) == JwtVerifies(t) /\ PassesEpoch(t) /\ ~InDenylist(t)
SealedConsumes(t) == SealedOpens(t) /\ PassesEpoch(t) /\ ~InDenylist(t)
Consume(c) ==
    /\ At(c, "guard") /\ setup.rotation = "always"
    /\ Move(c, IF IF Jwt THEN JwtConsumes(call[c].tok) ELSE SealedConsumes(call[c].tok)
               THEN "deny" ELSE "mint")
    /\ UNCHANGED <<setup, minted, held, denied, epoch, consumed, answered, signedOut, now, events>>

ConsumeDenies(c) ==
    /\ At(c, "deny") /\ setup.rotation = "always"
    /\ Deny(call[c].tok) /\ Move(c, "mint")
    /\ UNCHANGED <<setup, minted, held, epoch, consumed, answered, signedOut, now, events>>

\* Mutant: what a rotation mints is stamped with the clock at the mint.
IssueRotatedPairLate(c, ttl) == Mint(Persisted("refresh", now, ttl, c))

\* issueRotatedPair, stamped with the `now` of the start of the call.
IssueRotatedPair(c, ttl) == Mint(Persisted("refresh", call[c].start, ttl, c))
Delivered(c, pair) ==
    /\ held' = held \cup {pair}
    /\ answered' = answered \cup {call[c].tok}

\* A fixed ceiling leaves the new refresh token what is left of the old one.
Left(c) == LET left == minted[call[c].tok].exp - call[c].start IN IF left < 0 THEN 0 ELSE left
RefreshAlways(c) ==
    /\ At(c, "mint")
    /\ consumed' = {t \in consumed : now < minted[t].exp} \cup {call[c].tok}
    /\ IssueRotatedPair(c, Left(c))
    /\ Delivered(c, Len(minted) + 1) /\ End(c)
    /\ UNCHANGED <<setup, epoch, signedOut, now, events>>

\* Sliding mints first.  update() then denies the old id and mints a token for
\* the stamped state that nobody is given.
RefreshSliding(c) ==
    /\ At(c, "guard") /\ setup.rotation = "sliding"
    /\ IssueRotatedPair(c, setup.refreshTtl)
    /\ call' = [call EXCEPT ![c].at = "update", ![c].pair = Len(minted) + 1]
    /\ UNCHANGED <<setup, held, epoch, consumed, answered, signedOut, now, events>>

JwtUpdate(t) == IF JwtVerifies(t) THEN Deny(t) ELSE UNCHANGED denied
SealedUpdate(t) == Deny(t)
Update(c) ==
    /\ At(c, "update")
    /\ IF Jwt THEN JwtUpdate(call[c].tok) ELSE SealedUpdate(call[c].tok)
    /\ Delivered(c, call[c].pair)
    /\ End(c)
    /\ UNCHANGED <<setup, minted, epoch, consumed, signedOut, now, events>>

(* ------------------------- Revocations, and the rest --------------------- *)
JwtRevokes(t) == JwtVerifies(t)
SealedRevokes(t) == TRUE
Revoke(t) ==
    /\ t \in held /\ minted[t].kind = "refresh"
    /\ IF Jwt THEN JwtRevokes(t) ELSE SealedRevokes(t)
    /\ Deny(t) /\ Happens
    /\ UNCHANGED <<setup, minted, held, epoch, consumed, call, answered, signedOut, now>>

RevokeAllForUser ==
    /\ minted # <<>>
    /\ epoch' = now /\ signedOut' = now /\ Happens
    /\ UNCHANGED <<setup, minted, held, denied, consumed, call, answered, now>>

\* A call whose denylist rejects, at whatever step it is.
Fail(c) ==
    /\ call[c].at \in {"denylist", "guard", "deny", "update"} /\ setup.denylist = "redis"
    /\ End(c) /\ Happens
    /\ UNCHANGED <<setup, minted, held, denied, epoch, consumed, answered, signedOut, now>>

Restart ==
    /\ Happens
    /\ epoch' = None /\ signedOut' = None /\ consumed' = {}
    /\ denied' = IF setup.denylist = "memory" THEN [t \in Tokens |-> 0] ELSE denied
    /\ answered' = IF setup.denylist = "memory" \/ epoch # None THEN {} ELSE answered
    /\ call' = [c \in Call |-> Idle]
    /\ UNCHANGED <<setup, minted, held, now>>

Tick == /\ now < MaxTime /\ now' = now + 1
        /\ UNCHANGED <<setup, minted, held, denied, epoch, consumed, call, answered, signedOut, events>>

Init == /\ setup \in Setups
        /\ minted = <<>> /\ denied = <<>> /\ held = {} /\ consumed = {} /\ answered = {}
        /\ epoch = None /\ signedOut = None /\ now = 0 /\ events = 0
        /\ call = [c \in Call |-> Idle]

Next ==
    \/ \E c \in Call : \/ AskDenylist(c) \/ CheckEpoch(c)
                       \/ Unknown(c) \/ Replayed(c) \/ Refuse(c) \/ RefreshNone(c) \/ Consume(c)
                       \/ ConsumeDenies(c) \/ RefreshAlways(c) \/ RefreshSliding(c) \/ Update(c)
                       \/ Fail(c) \/ \E t \in Tokens : StartRefresh(c, t)
    \/ \E t \in Tokens : Revoke(t)
    \/ Issue \/ RevokeAllForUser \/ Restart \/ Tick

Spec == Init /\ [][Next]_vars

\* What deployments are: which store and denylist, which rotation, how long tokens last.
Setup == [store : {"jwt", "sealed"}, denylist : {"memory", "redis"},
          rotation : {"none", "always", "sliding"}, accessTtl : Nat, refreshTtl : Nat]
DeploymentsHold == Setups \subseteq Setup /\ Second \in Nat \ {0}

(* -------------------------------- Properties ----------------------------- *)
\* What validate() and find() accept.
Accepted(t) == Opens(t) /\ PassesEpoch(t) /\ ~InDenylist(t)

\* Once the user was signed out, by revokeAllForUser or by a replay, no token is
\* accepted that was minted by a call from before that millisecond: not even
\* the pair of a refresh that had found its token good and answered later.
\* (A restart forgets the epoch, as the stores document.)
SignedOutMeansOut ==
    signedOut # None => \A t \in held : Accepted(t) => minted[t].began >= signedOut

\* A refresh token that has been answered with a new pair is never answered
\* with another one by a later call, up to the millisecond it expires and
\* whatever the other calls do; overlapping calls may share it.  (A call that
\* outlives the token may find its id dropped from the denylist.)
AnsweredIsSpent ==
    setup.rotation # "none" => \A t \in Tokens : ~minted[t].late
=============================================================================
