----------------------------- MODULE Services_proofs -----------------------------
(***************************************************************************)
(* Proofs about the services: the inductive invariant of each, proved about *)
(* its instance in Services, and from these that a behaviour of Services    *)
(* keeps it.                                                                *)
(***************************************************************************)
EXTENDS Services, FiniteSetTheorems, WellFoundedInduction, TLAPS

(***************************************************************************)
(* StatelessTokens                                                          *)
(***************************************************************************)

(* ------------------------------ The invariant ---------------------------- *)
TokenRecord == [kind : {"access", "refresh"}, iat : Nat, exp : Nat, began : Nat, late : BOOLEAN]
TokenLabel == {"idle", "denylist", "epoch", "unknown", "guard", "deny", "mint", "update"}
TokenCallState == [at : TokenLabel, tok : Nat, start : Nat, late : BOOLEAN, pair : Nat]

TokenStoresOK ==
    /\ setup \in Tokens!Setup /\ now \in Nat
    /\ minted \in Seq(TokenRecord) /\ denied \in Seq(Nat) /\ Len(denied) = Len(minted)
    /\ held \subseteq Tokens!Tokens /\ answered \subseteq Tokens!Tokens
    /\ epoch \in Nat \cup {Tokens!None} /\ (epoch # Tokens!None => epoch <= now)
TokenCallOK(k) ==
    /\ k.at # "idle" => k.tok \in Tokens!Tokens
    /\ k.at = "update" => k.pair \in Tokens!Tokens
TokenTypeOK ==
    /\ TokenStoresOK
    /\ call \in [TokenCalls -> TokenCallState]
    /\ \A c \in TokenCalls : TokenCallOK(call[c])

\* A token says when the call that minted it began; the ghost and the epoch agree.
TokenEpochInv ==
    /\ epoch = signedOut
    /\ \A t \in Tokens!Tokens : minted[t].iat = minted[t].began

\* A token works no more: it has lapsed, it is from before the epoch, or it is denied.
TokenDead(t) == ~Tokens!Opens(t) \/ ~Tokens!PassesEpoch(t) \/ Tokens!InDenylist(t)

\* A rotation mints for a token that is dead by then; and a call for a token that was
\* answered before does not get past what killed it.
TokenLateHolds(k) ==
    /\ k.at = "mint" => TokenDead(k.tok)
    /\ k.late /\ k.at = "denylist" => TokenDead(k.tok) /\ (Tokens!Jwt \/ ~Tokens!Opens(k.tok) \/ Tokens!InDenylist(k.tok))
    /\ k.late /\ k.at = "epoch" => ~Tokens!Opens(k.tok) \/ ~Tokens!PassesEpoch(k.tok)
    /\ k.late /\ k.at \in {"guard", "deny", "mint", "update"} => ~Tokens!Opens(k.tok)

\* The denylist keeps an id as long as its token would open; what was answered is dead.
TokenSpentInv ==
    /\ \A t \in Tokens!Tokens : denied[t] \in {0, Tokens!DenyUntil(t)}
    /\ \A t \in answered : TokenDead(t)
    /\ \A c \in TokenCalls : TokenLateHolds(call[c])
    /\ \A t \in Tokens!Tokens : ~minted[t].late

TokenInv == TokenTypeOK /\ TokenEpochInv /\ TokenSpentInv

(* ------------------------------ Time and tokens -------------------------- *)
LEMMA TokenSeconds ==
  ASSUME NEW s \in Nat \ {0}, NEW n \in Nat, NEW e \in Nat
  PROVE  /\ e \div s \in Nat /\ (e \div s) * s \in Nat
         /\ n \div s < e \div s <=> n < (e \div s) * s
<1>1. PICK q \in Nat : q = n \div s
  OBVIOUS
<1>2. PICK k \in Nat : k = e \div s
  OBVIOUS
<1>3. q * s <= n /\ n < q * s + s
  BY <1>1
<1>4. k * s \in Nat /\ q * s \in Nat
  OBVIOUS
<1>5. ASSUME q < k PROVE n < k * s
  <2>1. PICK d \in Nat : k = q + 1 + d
    <3>1. k - q - 1 \in Nat /\ k = q + 1 + (k - q - 1)
      BY <1>5
    <3> QED BY <3>1
  <2>2. k * s = q * s + s + d * s /\ d * s \in Nat
    BY <2>1
  <2> QED BY <1>3, <1>4, <2>2
<1>6. ASSUME k <= q PROVE k * s <= n
  <2>1. PICK d \in Nat : q = k + d
    <3>1. q - k \in Nat /\ q = k + (q - k)
      BY <1>6
    <3> QED BY <3>1
  <2>2. q * s = k * s + d * s /\ d * s \in Nat
    BY <2>1
  <2> QED BY <1>3, <1>4, <2>2
<1>7. q < k <=> n < k * s
  BY <1>3, <1>4, <1>5, <1>6
<1> QED BY <1>1, <1>2, <1>4, <1>7

\* A token opens exactly until the denylist would drop it.
LEMMA TokenOpensUntil ==
  ASSUME Tokens!DeploymentsHold, TokenStoresOK, NEW t \in Tokens!Tokens
  PROVE  Tokens!DenyUntil(t) \in Nat /\ (Tokens!Opens(t) <=> now < Tokens!DenyUntil(t))
<1>1. minted[t].exp \in Nat /\ now \in Nat /\ Second \in Nat \ {0}
  <2>1. minted[t] \in TokenRecord /\ now \in Nat
    BY DEF TokenStoresOK, Tokens!Tokens
  <2> QED BY <2>1 DEF TokenRecord, Tokens!DeploymentsHold
<1>2. PICK e \in Nat : e = minted[t].exp
  BY <1>1
<1>3. PICK n \in Nat : n = now
  BY <1>1
<1>4. CASE Tokens!Jwt
  BY <1>1, <1>2, <1>3, <1>4, TokenSeconds DEF Tokens!DenyUntil, Tokens!JwtDenyUntil, Tokens!Opens,
                                              Tokens!JwtVerifies
<1>5. CASE ~Tokens!Jwt
  BY <1>1, <1>5 DEF Tokens!DenyUntil, Tokens!Opens, Tokens!SealedOpens
<1> QED BY <1>4, <1>5

(* ------------------------------- What a step does ------------------------ *)
\* Short of a restart, tokens stay what they are, time and the epoch move on, and the
\* denylist gains what it then keeps.
TokenLater ==
    /\ setup' = setup /\ now <= now' /\ Tokens!Tokens \subseteq Tokens!Tokens'
    /\ \A t \in Tokens!Tokens : minted'[t] = minted[t] /\ denied'[t] \in {denied[t], Tokens!DenyUntil(t)}
    /\ epoch' = epoch \/ epoch' = now

LEMMA TokenDeadStays ==
  ASSUME Tokens!DeploymentsHold, TokenInv, TokenLater, TokenStoresOK', NEW t \in Tokens!Tokens
  PROVE  /\ Tokens!DenyUntil(t)' = Tokens!DenyUntil(t)
         /\ ~Tokens!Opens(t) => ~Tokens!Opens(t)'
         /\ ~Tokens!PassesEpoch(t) => ~Tokens!PassesEpoch(t)'
         /\ ~Tokens!Opens(t) \/ Tokens!InDenylist(t) => ~Tokens!Opens(t)' \/ Tokens!InDenylist(t)'
         /\ TokenDead(t) => TokenDead(t)'
<1>1. /\ setup' = setup /\ minted'[t] = minted[t] /\ now \in Nat /\ now' \in Nat /\ now <= now'
      /\ t \in Tokens!Tokens' /\ minted[t] \in TokenRecord
      /\ epoch' = epoch \/ (epoch' = now /\ (epoch # Tokens!None => epoch <= now))
      /\ epoch \in Nat \cup {Tokens!None}
  BY DEF TokenLater, TokenInv, TokenTypeOK, TokenStoresOK, Tokens!Tokens
<1>2. Tokens!DenyUntil(t)' = Tokens!DenyUntil(t)
  BY <1>1 DEF Tokens!DenyUntil, Tokens!JwtDenyUntil, Tokens!Jwt
<1>3. /\ Tokens!DenyUntil(t) \in Nat /\ (Tokens!Opens(t) <=> now < Tokens!DenyUntil(t))
      /\ (Tokens!Opens(t)' <=> now' < Tokens!DenyUntil(t)')
  <2>1. TokenStoresOK
    BY DEF TokenInv, TokenTypeOK
  <2>2. Tokens!DenyUntil(t) \in Nat /\ (Tokens!Opens(t) <=> now < Tokens!DenyUntil(t))
    BY <2>1, TokenOpensUntil
  <2>3. PICK e \in Nat : e = minted[t].exp
    BY <1>1 DEF TokenRecord
  <2>4. PICK n \in Nat : n = now'
    BY <1>1
  <2>5. Second \in Nat \ {0}
    BY DEF Tokens!DeploymentsHold
  <2>6. CASE Tokens!Jwt
    <3>1. n \div Second < e \div Second <=> n < (e \div Second) * Second
      BY <2>3, <2>4, <2>5, TokenSeconds
    <3>2. /\ Tokens!Opens(t)' <=> n \div Second < e \div Second
          /\ Tokens!DenyUntil(t)' = (e \div Second) * Second
      BY <1>1, <2>3, <2>4, <2>6 DEF Tokens!Opens, Tokens!JwtVerifies, Tokens!DenyUntil,
                                    Tokens!JwtDenyUntil, Tokens!Jwt
    <3> QED BY <2>2, <2>4, <3>1, <3>2
  <2>7. CASE ~Tokens!Jwt
    BY <1>1, <2>2, <2>7 DEF Tokens!Opens, Tokens!SealedOpens, Tokens!DenyUntil, Tokens!Jwt
  <2> QED BY <2>6, <2>7
<1>4. ~Tokens!Opens(t) => ~Tokens!Opens(t)'
  BY <1>1, <1>2, <1>3
<1>5. ~Tokens!PassesEpoch(t) => ~Tokens!PassesEpoch(t)'
  <2>1. minted[t].iat \in Nat
    BY <1>1 DEF TokenRecord
  <2> QED BY <1>1, <2>1 DEF Tokens!PassesEpoch, Tokens!None
<1>6. ~Tokens!Opens(t) \/ Tokens!InDenylist(t) => ~Tokens!Opens(t)' \/ Tokens!InDenylist(t)'
  <2>1. denied[t] \in {0, Tokens!DenyUntil(t)} /\ denied'[t] \in {denied[t], Tokens!DenyUntil(t)}
    BY DEF TokenInv, TokenSpentInv, TokenLater
  <2> QED BY <1>1, <1>2, <1>3, <2>1 DEF Tokens!InDenylist
<1> QED BY <1>2, <1>4, <1>5, <1>6 DEF TokenDead

\* A call in state k, and so one that does not move, keeps what it knows.
LEMMA TokenLateStays ==
  ASSUME Tokens!DeploymentsHold, TokenInv, TokenLater, TokenStoresOK', NEW k, TokenCallOK(k),
         TokenLateHolds(k)
  PROVE  TokenCallOK(k)' /\ TokenLateHolds(k)'
<1>1. TokenCallOK(k)'
  BY DEF TokenCallOK, TokenLater
<1>2. CASE k.at = "idle"
  <2>1. k.at \notin {"mint", "denylist", "epoch", "guard", "deny", "update"}
    BY <1>2
  <2> QED BY <1>1, <2>1, Zenon DEF TokenLateHolds
<1>3. CASE k.at # "idle"
  <2>1. k.tok \in Tokens!Tokens
    BY <1>3 DEF TokenCallOK
  <2>2. /\ ~Tokens!Opens(k.tok) => ~Tokens!Opens(k.tok)'
        /\ ~Tokens!PassesEpoch(k.tok) => ~Tokens!PassesEpoch(k.tok)'
        /\ ~Tokens!Opens(k.tok) \/ Tokens!InDenylist(k.tok) => ~Tokens!Opens(k.tok)' \/ Tokens!InDenylist(k.tok)'
        /\ TokenDead(k.tok) => TokenDead(k.tok)'
    BY <2>1, TokenDeadStays
  <2>3. Tokens!Jwt' = Tokens!Jwt
    BY DEF TokenLater, Tokens!Jwt
  <2>4. (k.at = "mint" => TokenDead(k.tok))'
    BY <2>2 DEF TokenLateHolds
  <2>5. (k.late /\ k.at = "denylist" => TokenDead(k.tok) /\ (Tokens!Jwt \/ ~Tokens!Opens(k.tok) \/ Tokens!InDenylist(k.tok)))'
    BY <2>2, <2>3 DEF TokenLateHolds
  <2>6. (k.late /\ k.at = "epoch" => ~Tokens!Opens(k.tok) \/ ~Tokens!PassesEpoch(k.tok))'
    BY <2>2 DEF TokenLateHolds
  <2>7. (k.late /\ k.at \in {"guard", "deny", "mint", "update"} => ~Tokens!Opens(k.tok))'
    BY <2>2 DEF TokenLateHolds
  <2> QED BY <1>1, <2>4, <2>5, <2>6, <2>7 DEF TokenLateHolds
<1> QED BY <1>1, <1>2, <1>3

\* What a step adds: tokens that are not late, and answers for tokens that are dead.
TokenSound ==
    /\ \A t \in Tokens!Tokens' \ Tokens!Tokens :
          minted'[t].iat = minted'[t].began /\ ~minted'[t].late /\ denied'[t] = 0
    /\ \A t \in answered' \ answered : TokenDead(t)'

LEMMA TokenStoresMove ==
  ASSUME Tokens!DeploymentsHold, TokenInv, TokenLater, TokenStoresOK', TokenSound,
         epoch' = signedOut'
  PROVE  /\ TokenEpochInv'
         /\ \A t \in Tokens!Tokens' : (denied[t] \in {0, Tokens!DenyUntil(t)})' /\ ~minted'[t].late
         /\ \A t \in answered' : TokenDead(t)'
<1>1. TokenEpochInv'
  BY DEF TokenInv, TokenEpochInv, TokenLater, TokenSound
<1>2. \A t \in Tokens!Tokens' : (denied[t] \in {0, Tokens!DenyUntil(t)})' /\ ~minted'[t].late
  <2>1. ASSUME NEW t \in Tokens!Tokens PROVE denied'[t] \in {0, Tokens!DenyUntil(t)'} /\ ~minted'[t].late
    <3>1. Tokens!DenyUntil(t)' = Tokens!DenyUntil(t)
      BY TokenDeadStays
    <3> QED BY <3>1 DEF TokenInv, TokenSpentInv, TokenLater
  <2> QED BY <2>1 DEF TokenSound
<1>3. \A t \in answered' : TokenDead(t)'
  <2>1. ASSUME NEW t \in answered PROVE TokenDead(t)'
    <3>1. t \in Tokens!Tokens /\ TokenDead(t)
      BY DEF TokenInv, TokenTypeOK, TokenStoresOK, TokenSpentInv
    <3> QED BY <3>1, TokenDeadStays
  <2> QED BY <2>1 DEF TokenSound
<1> QED BY <1>1, <1>2, <1>3

LEMMA TokenCallStays ==
  ASSUME Tokens!DeploymentsHold, TokenInv, TokenLater, TokenStoresOK', NEW c \in TokenCalls,
         call'[c] = call[c]
  PROVE  TokenCallOK(call[c])' /\ TokenLateHolds(call[c])'
<1>1. PICK k : k = call[c]
  OBVIOUS
<1>2. call'[c] = k /\ TokenCallOK(k) /\ TokenLateHolds(k)
  BY <1>1 DEF TokenInv, TokenTypeOK, TokenSpentInv
<1>3. TokenCallOK(k)' /\ TokenLateHolds(k)'
  BY <1>2, TokenLateStays
<1> QED BY <1>2, <1>3 DEF TokenCallOK, TokenLateHolds

LEMMA TokenCallMoves ==
  ASSUME Tokens!DeploymentsHold, TokenInv, TokenLater, TokenStoresOK', TokenSound,
         epoch' = signedOut',
         NEW c \in TokenCalls, NEW k \in TokenCallState, call' = [call EXCEPT ![c] = k],
         TokenCallOK(k)', TokenLateHolds(k)'
  PROVE  TokenInv'
<1>1. call \in [TokenCalls -> TokenCallState] /\ call' \in [TokenCalls -> TokenCallState] /\ call'[c] = k
  BY DEF TokenInv, TokenTypeOK
<1>2. ASSUME NEW d \in TokenCalls PROVE TokenCallOK(call[d])' /\ TokenLateHolds(call[d])'
  <2>1. CASE d = c
    BY <1>1, <2>1 DEF TokenCallOK, TokenLateHolds
  <2>2. CASE d # c
    BY <1>1, <2>2, TokenCallStays
  <2> QED BY <2>1, <2>2
<1> QED BY <1>1, <1>2, TokenStoresMove DEF TokenInv, TokenTypeOK, TokenSpentInv

\* The stores change, the calls do not.
LEMMA TokenNoCallMoves ==
  ASSUME Tokens!DeploymentsHold, TokenInv, TokenLater, TokenStoresOK', TokenSound,
         epoch' = signedOut', call' = call
  PROVE  TokenInv'
<1>1. call' \in [TokenCalls -> TokenCallState]
  BY DEF TokenInv, TokenTypeOK
<1>2. ASSUME NEW d \in TokenCalls PROVE TokenCallOK(call[d])' /\ TokenLateHolds(call[d])'
  BY TokenCallStays
<1> QED BY <1>1, <1>2, TokenStoresMove DEF TokenInv, TokenTypeOK, TokenSpentInv

\* A call moves on and nothing else happens.
TokenStores == <<setup, minted, held, denied, epoch, answered, signedOut, now>>
LEMMA TokenOnlyCallMoves ==
  ASSUME Tokens!DeploymentsHold, TokenInv, UNCHANGED TokenStores,
         NEW c \in TokenCalls, NEW k \in TokenCallState, call' = [call EXCEPT ![c] = k],
         TokenCallOK(k), TokenLateHolds(k)
  PROVE  TokenInv'
<1>1. TokenStoresOK'
  BY DEF TokenInv, TokenTypeOK, TokenStoresOK, TokenStores, Tokens!Tokens
<1>2. TokenLater
  BY DEF TokenInv, TokenTypeOK, TokenStoresOK, TokenLater, TokenStores, Tokens!Tokens
<1>3. TokenSound /\ epoch' = signedOut'
  BY DEF TokenSound, TokenStores, Tokens!Tokens, TokenInv, TokenEpochInv
<1>4. TokenCallOK(k)' /\ TokenLateHolds(k)'
  BY <1>1, <1>2, TokenLateStays
<1> QED BY <1>1, <1>2, <1>3, <1>4, TokenCallMoves

\* A new token.
LEMMA TokenMinted ==
  ASSUME TokenStoresOK, NEW s \in TokenRecord, Tokens!Mint(s), setup' = setup, now' = now,
         epoch' = epoch
  PROVE  /\ minted' \in Seq(TokenRecord) /\ Len(minted') = Len(minted) + 1
         /\ Tokens!Tokens' = Tokens!Tokens \cup {Len(minted) + 1} /\ Len(minted) + 1 \notin Tokens!Tokens
         /\ minted'[Len(minted) + 1] = s
         /\ \A t \in Tokens!Tokens : minted'[t] = minted[t]
<1>1. minted \in Seq(TokenRecord) /\ minted' = Append(minted, s)
  BY DEF TokenStoresOK, Tokens!Mint
<1> QED BY <1>1 DEF Tokens!Tokens

LEMMA TokenMintStores ==
  ASSUME Tokens!DeploymentsHold, TokenInv, NEW s \in TokenRecord, Tokens!Mint(s),
         UNCHANGED <<setup, epoch, now, signedOut>>,
         s.iat = s.began, ~s.late, held' \subseteq held \cup {Len(minted) + 1},
         answered' \subseteq Tokens!Tokens, \A t \in answered' \ answered : TokenDead(t)
  PROVE  TokenStoresOK' /\ TokenLater /\ TokenSound /\ epoch' = signedOut' /\ Len(minted) + 1 \in Tokens!Tokens'
<1>1. TokenStoresOK
  BY DEF TokenInv, TokenTypeOK
<1>2. /\ minted' \in Seq(TokenRecord) /\ Len(minted') = Len(minted) + 1
      /\ Tokens!Tokens' = Tokens!Tokens \cup {Len(minted) + 1} /\ Len(minted) + 1 \notin Tokens!Tokens
      /\ minted'[Len(minted) + 1] = s
      /\ \A t \in Tokens!Tokens : minted'[t] = minted[t]
  BY <1>1, TokenMinted
<1>3. /\ denied' \in Seq(Nat) /\ Len(denied') = Len(denied) + 1
      /\ denied'[Len(denied) + 1] = 0 /\ \A t \in DOMAIN denied : denied'[t] = denied[t]
  <2>1. denied \in Seq(Nat) /\ denied' = Append(denied, 0)
    BY <1>1 DEF TokenStoresOK, Tokens!Mint
  <2> QED BY <2>1
<1>4. Len(denied) = Len(minted) /\ DOMAIN denied = Tokens!Tokens
  BY <1>1 DEF TokenStoresOK, Tokens!Tokens
<1>5. TokenStoresOK'
  BY <1>1, <1>2, <1>3, <1>4 DEF TokenStoresOK
<1>6. TokenLater
  BY <1>1, <1>2, <1>3, <1>4 DEF TokenLater, TokenStoresOK
<1>7. \A t \in answered' \ answered : TokenDead(t)'
  BY <1>5, <1>6, TokenDeadStays
<1>8. TokenSound
  BY <1>2, <1>3, <1>4, <1>7 DEF TokenSound
<1> QED BY <1>2, <1>5, <1>6, <1>8 DEF TokenInv, TokenEpochInv

\* An id is denied, which its token does not survive.
LEMMA TokenDenyStores ==
  ASSUME Tokens!DeploymentsHold, TokenInv, NEW t \in Tokens!Tokens, Tokens!Deny(t),
         UNCHANGED <<setup, minted, epoch, now, signedOut>>,
         held' \subseteq Tokens!Tokens, answered' \subseteq answered \cup {t}
  PROVE  /\ TokenStoresOK' /\ TokenLater /\ TokenSound /\ epoch' = signedOut'
         /\ TokenDead(t)'
<1>1. TokenStoresOK /\ denied \in Seq(Nat) /\ DOMAIN denied = Tokens!Tokens /\ now \in Nat /\ Tokens!Tokens' = Tokens!Tokens
  BY DEF TokenInv, TokenTypeOK, TokenStoresOK, Tokens!Tokens
<1>2. Tokens!DenyUntil(t) \in Nat /\ (Tokens!Opens(t) <=> now < Tokens!DenyUntil(t))
  BY <1>1, TokenOpensUntil
<1>3. denied' = [denied EXCEPT ![t] = Tokens!DenyUntil(t)] \/ (denied' = denied /\ ~(Tokens!DenyUntil(t) > now))
  BY DEF Tokens!Deny, Tokens!AddInMemory, Tokens!AddInRedis
<1>4. denied' \in Seq(Nat) /\ Len(denied') = Len(denied)
      /\ \A x \in Tokens!Tokens : denied'[x] \in {denied[x], Tokens!DenyUntil(x)}
  <2>1. CASE denied' = [denied EXCEPT ![t] = Tokens!DenyUntil(t)]
    <3>1. denied' \in Seq(Nat) /\ Len(denied') = Len(denied)
      BY <1>1, <1>2, <2>1
    <3> QED BY <1>1, <2>1, <3>1
  <2>2. CASE denied' = denied
    BY <1>1, <2>2
  <2> QED BY <1>3, <2>1, <2>2
<1>5. TokenStoresOK'
  BY <1>1, <1>4 DEF TokenStoresOK
<1>6. TokenLater
  BY <1>1, <1>4 DEF TokenLater, Tokens!Tokens
<1>7. TokenDead(t)'
  <2>1. CASE Tokens!Opens(t)
    <3>1. denied' = [denied EXCEPT ![t] = Tokens!DenyUntil(t)] /\ Tokens!DenyUntil(t) > now
      BY <1>1, <1>2, <1>3, <2>1
    <3>2. denied'[t] > now'
      BY <1>1, <3>1
    <3> QED BY <3>2 DEF TokenDead, Tokens!InDenylist
  <2>2. CASE ~Tokens!Opens(t)
    BY <1>5, <1>6, <2>2, TokenDeadStays DEF TokenDead
  <2> QED BY <2>1, <2>2
<1>8. TokenSound
  BY <1>1, <1>7 DEF TokenSound
<1> QED BY <1>5, <1>6, <1>7, <1>8 DEF TokenInv, TokenEpochInv

\* What a call for an answered token mints is not late: that token does not open.
LEMMA TokenPersistedOK ==
  ASSUME Tokens!DeploymentsHold, TokenInv, NEW c \in TokenCalls, NEW kind \in {"access", "refresh"},
         NEW ttl \in Nat,
         call[c].at \in {"guard", "mint"}
  PROVE  /\ Tokens!Persisted(kind, call[c].start, ttl, c) \in TokenRecord
         /\ Tokens!Persisted(kind, call[c].start, ttl, c).iat = Tokens!Persisted(kind, call[c].start, ttl, c).began
         /\ ~Tokens!Persisted(kind, call[c].start, ttl, c).late
<1>1. call[c] \in TokenCallState /\ TokenLateHolds(call[c]) /\ now + ttl \in Nat
  BY DEF TokenInv, TokenTypeOK, TokenStoresOK, TokenSpentInv
<1>2. call[c].start \in Nat /\ call[c].late \in BOOLEAN
  BY <1>1 DEF TokenCallState
<1>3. (call[c].late /\ Tokens!Opens(call[c].tok)) = FALSE
  BY <1>1, <1>2 DEF TokenLateHolds
<1>4. Tokens!Persisted(kind, call[c].start, ttl, c) =
        [kind |-> kind, iat |-> call[c].start, exp |-> now + ttl, began |-> call[c].start, late |-> FALSE]
  BY <1>3 DEF Tokens!Persisted
<1> QED BY <1>1, <1>2, <1>4 DEF TokenRecord

(* --------------------------------- Steps --------------------------------- *)
LEMMA TokenIdleOK == Tokens!Idle \in TokenCallState /\ TokenCallOK(Tokens!Idle) /\ TokenLateHolds(Tokens!Idle)
<1>1. Tokens!Idle \in TokenCallState /\ Tokens!Idle.at = "idle"
  BY DEF Tokens!Idle, TokenCallState, TokenLabel
<1>2. Tokens!Idle.at \notin {"mint", "denylist", "epoch", "guard", "deny", "update"}
  BY <1>1
<1> QED BY <1>1, <1>2, Zenon DEF TokenCallOK, TokenLateHolds

\* A call that goes on to another label, with what it knows by then.
LEMMA TokenLabelled ==
  ASSUME Tokens!DeploymentsHold, TokenInv, UNCHANGED TokenStores, NEW c \in TokenCalls,
         NEW label \in TokenLabel,
         call[c].at # "idle", Tokens!Move(c, label), label # "update", label # "denylist",
         label = "mint" => TokenDead(call[c].tok),
         call[c].late /\ label = "epoch" => ~Tokens!Opens(call[c].tok) \/ ~Tokens!PassesEpoch(call[c].tok),
         call[c].late /\ label \in {"guard", "deny", "mint"} => ~Tokens!Opens(call[c].tok)
  PROVE  TokenInv'
<1>1. call[c] \in TokenCallState /\ call[c].tok \in Tokens!Tokens /\ call \in [TokenCalls -> TokenCallState]
  BY DEF TokenInv, TokenTypeOK, TokenCallOK
<1>2. PICK k : k = [call[c] EXCEPT !.at = label]
  OBVIOUS
<1>3. k \in TokenCallState /\ k.at = label /\ k.tok = call[c].tok /\ k.late = call[c].late
  BY <1>1, <1>2 DEF TokenCallState
<1>4. call' = [call EXCEPT ![c] = k]
  BY <1>1, <1>2 DEF Tokens!Move
<1>5. TokenCallOK(k) /\ TokenLateHolds(k)
  BY <1>1, <1>3 DEF TokenCallOK, TokenLateHolds
<1> QED BY <1>3, <1>4, <1>5, TokenOnlyCallMoves

LEMMA TokenEnded ==
  ASSUME Tokens!DeploymentsHold, TokenInv, UNCHANGED TokenStores, NEW c \in TokenCalls,
         Tokens!End(c)
  PROVE  TokenInv'
  BY TokenIdleOK, TokenOnlyCallMoves DEF Tokens!End

LEMMA TokenStartRefreshStep ==
  ASSUME Tokens!DeploymentsHold, TokenInv, NEW c \in TokenCalls, NEW t \in Tokens!Tokens,
         Tokens!StartRefresh(c, t)
  PROVE  TokenInv'
<1>1. PICK label \in {"denylist", "unknown"} :
          label = IF Tokens!Opens(t) /\ (Tokens!Jwt \/ Tokens!PassesEpoch(t)) THEN "denylist" ELSE "unknown"
  OBVIOUS
<1>2. PICK late \in BOOLEAN : late = (t \in answered)
  <2>1. CASE t \in answered
    <3>1. TRUE = (t \in answered)
      BY <2>1
    <3> QED BY <3>1
  <2>2. CASE t \notin answered
    <3>1. FALSE = (t \in answered)
      BY <2>2
    <3> QED BY <3>1
  <2> QED BY <2>1, <2>2
<1>3. PICK k : k = [Tokens!Idle EXCEPT !.tok = t, !.start = now, !.late = late, !.at = label]
  OBVIOUS
<1>4. t \in Nat /\ now \in Nat
  BY DEF TokenInv, TokenTypeOK, TokenStoresOK, Tokens!Tokens
<1>5. k \in TokenCallState /\ k.at = label /\ k.tok = t /\ k.late = late
  BY <1>3, <1>4 DEF Tokens!Idle, TokenCallState, TokenLabel
<1>6. call' = [call EXCEPT ![c] = k] /\ UNCHANGED TokenStores
  BY <1>1, <1>2, <1>3 DEF Tokens!StartRefresh, TokenStores
<1>7. late => TokenDead(t)
  BY <1>2 DEF TokenInv, TokenSpentInv
<1>8. TokenCallOK(k) /\ TokenLateHolds(k)
  <2>1. TokenCallOK(k)
    BY <1>5 DEF TokenCallOK
  <2>2. k.late /\ k.at = "denylist" => TokenDead(t) /\ (Tokens!Jwt \/ ~Tokens!Opens(t) \/ Tokens!InDenylist(t))
    BY <1>1, <1>5, <1>7 DEF TokenDead
  <2>3. k.at \notin {"mint", "epoch", "guard", "deny", "update"}
    BY <1>5
  <2> QED BY <1>5, <2>1, <2>2, <2>3, Zenon DEF TokenLateHolds
<1> QED BY <1>5, <1>6, <1>8, TokenOnlyCallMoves

LEMMA TokenLookupStep ==
  ASSUME Tokens!DeploymentsHold, TokenInv, NEW c \in TokenCalls,
         Tokens!AskDenylist(c) \/ Tokens!CheckEpoch(c) \/ Tokens!Refuse(c) \/ Tokens!Unknown(c) \/ Tokens!Fail(c)
  PROVE  TokenInv'
<1>1. TokenLateHolds(call[c])
  BY DEF TokenInv, TokenSpentInv
<1>2. CASE Tokens!AskDenylist(c)
  <2>1. PICK label \in {"unknown", "epoch", "guard"} :
            label = IF Tokens!InDenylist(call[c].tok) THEN "unknown" ELSE IF Tokens!Jwt THEN "epoch" ELSE "guard"
    OBVIOUS
  <2>2. UNCHANGED TokenStores /\ call[c].at = "denylist" /\ Tokens!Move(c, label)
    BY <1>2, <2>1 DEF Tokens!AskDenylist, Tokens!At, TokenStores
  <2>3. /\ call[c].late /\ label = "epoch" => ~Tokens!Opens(call[c].tok) \/ ~Tokens!PassesEpoch(call[c].tok)
        /\ call[c].late /\ label = "guard" => ~Tokens!Opens(call[c].tok)
    BY <1>1, <2>1, <2>2 DEF TokenLateHolds, TokenDead
  <2> QED BY <2>1, <2>2, <2>3, TokenLabelled DEF TokenLabel
<1>3. CASE Tokens!CheckEpoch(c)
  <2>1. PICK label \in {"unknown", "guard"} :
            label = IF Tokens!PassesEpoch(call[c].tok) THEN "guard" ELSE "unknown"
    OBVIOUS
  <2>2. UNCHANGED TokenStores /\ call[c].at = "epoch" /\ Tokens!Move(c, label)
    BY <1>3, <2>1 DEF Tokens!CheckEpoch, Tokens!At, TokenStores
  <2>3. call[c].late /\ label = "guard" => ~Tokens!Opens(call[c].tok)
    BY <1>1, <2>1, <2>2 DEF TokenLateHolds
  <2> QED BY <2>1, <2>2, <2>3, TokenLabelled DEF TokenLabel
<1>4. CASE Tokens!Refuse(c)
  BY <1>4, TokenEnded DEF Tokens!Refuse, TokenStores
<1>5. CASE Tokens!Unknown(c)
  BY <1>5, TokenEnded DEF Tokens!Unknown, TokenStores
<1>6. CASE Tokens!Fail(c)
  BY <1>6, TokenEnded DEF Tokens!Fail, TokenStores
<1> QED BY <1>2, <1>3, <1>4, <1>5, <1>6

LEMMA TokenConsumeStep ==
  ASSUME Tokens!DeploymentsHold, TokenInv, NEW c \in TokenCalls, Tokens!Consume(c)
  PROVE  TokenInv'
<1>1. PICK label \in {"deny", "mint"} :
          label = IF IF Tokens!Jwt THEN Tokens!JwtConsumes(call[c].tok) ELSE Tokens!SealedConsumes(call[c].tok)
                  THEN "deny" ELSE "mint"
  OBVIOUS
<1>2. UNCHANGED TokenStores /\ call[c].at = "guard" /\ Tokens!Move(c, label)
  BY <1>1 DEF Tokens!Consume, Tokens!At, TokenStores
<1>3. label = "mint" => TokenDead(call[c].tok)
  BY <1>1 DEF Tokens!JwtConsumes, Tokens!SealedConsumes, TokenDead, Tokens!Opens
<1>4. call[c].late => ~Tokens!Opens(call[c].tok)
  BY <1>2 DEF TokenInv, TokenSpentInv, TokenLateHolds
<1> QED BY <1>1, <1>2, <1>3, <1>4, TokenLabelled DEF TokenLabel

LEMMA TokenConsumeDeniesStep ==
  ASSUME Tokens!DeploymentsHold, TokenInv, NEW c \in TokenCalls, Tokens!ConsumeDenies(c)
  PROVE  TokenInv'
<1>1. PICK t \in Tokens!Tokens : t = call[c].tok
  BY DEF TokenInv, TokenTypeOK, TokenCallOK, Tokens!ConsumeDenies, Tokens!At
<1>2. PICK k : k = [call[c] EXCEPT !.at = "mint"]
  OBVIOUS
<1>3. call[c] \in TokenCallState /\ call \in [TokenCalls -> TokenCallState] /\ call[c].at = "deny"
      /\ (call[c].late => ~Tokens!Opens(t))
  BY <1>1 DEF TokenInv, TokenTypeOK, TokenSpentInv, TokenLateHolds, Tokens!ConsumeDenies, Tokens!At
<1>4. k \in TokenCallState /\ k.at = "mint" /\ k.tok = t /\ k.late = call[c].late
  BY <1>1, <1>2, <1>3 DEF TokenCallState, TokenLabel
<1>5. call' = [call EXCEPT ![c] = k]
  BY <1>2, <1>3 DEF Tokens!ConsumeDenies, Tokens!Move
<1>6. TokenStoresOK' /\ TokenLater /\ TokenSound /\ epoch' = signedOut' /\ TokenDead(t)'
  <2>1. Tokens!Deny(t) /\ UNCHANGED <<setup, minted, epoch, now, signedOut>>
        /\ held' = held /\ answered' = answered
    BY <1>1 DEF Tokens!ConsumeDenies
  <2>2. held \subseteq Tokens!Tokens
    BY DEF TokenInv, TokenTypeOK, TokenStoresOK
  <2> QED BY <2>1, <2>2, TokenDenyStores
<1>7. k.late => ~Tokens!Opens(t)'
  BY <1>3, <1>4, <1>6, TokenDeadStays
<1>8. TokenCallOK(k)' /\ TokenLateHolds(k)'
  BY <1>4, <1>6, <1>7 DEF TokenCallOK, TokenLateHolds, TokenLater
<1> QED BY <1>4, <1>5, <1>6, <1>8, TokenCallMoves

\* A mint that ends its call.
LEMMA TokenMintEnds ==
  ASSUME Tokens!DeploymentsHold, TokenInv, NEW c \in TokenCalls, NEW s \in TokenRecord,
         Tokens!Mint(s), Tokens!End(c),
         UNCHANGED <<setup, epoch, now, signedOut>>, s.iat = s.began, ~s.late,
         held' \subseteq held \cup {Len(minted) + 1},
         answered' \subseteq Tokens!Tokens, \A t \in answered' \ answered : TokenDead(t)
  PROVE  TokenInv'
<1>1. TokenStoresOK' /\ TokenLater /\ TokenSound /\ epoch' = signedOut'
  BY TokenMintStores
<1>2. TokenCallOK(Tokens!Idle)' /\ TokenLateHolds(Tokens!Idle)' /\ Tokens!Idle \in TokenCallState
  BY <1>1, TokenIdleOK, TokenLateStays
<1> QED BY <1>1, <1>2, TokenCallMoves DEF Tokens!End

LEMMA TokenRefreshNoneStep ==
  ASSUME Tokens!DeploymentsHold, TokenInv, NEW c \in TokenCalls, Tokens!RefreshNone(c)
  PROVE  TokenInv'
<1>1. setup.accessTtl \in Nat
  BY DEF TokenInv, TokenTypeOK, TokenStoresOK, Tokens!Setup
<1>2. PICK s : s = Tokens!Persisted("access", call[c].start, setup.accessTtl, c)
  OBVIOUS
<1>3. s \in TokenRecord /\ s.iat = s.began /\ ~s.late
  BY <1>1, <1>2, TokenPersistedOK DEF Tokens!RefreshNone, Tokens!At
<1>4. answered \subseteq Tokens!Tokens
  BY DEF TokenInv, TokenTypeOK, TokenStoresOK
<1>5. /\ Tokens!Mint(s) /\ Tokens!End(c) /\ UNCHANGED <<setup, epoch, now, signedOut>>
      /\ held' = held \cup {Len(minted) + 1} /\ answered' = answered
  BY <1>2 DEF Tokens!RefreshNone
<1> QED BY <1>3, <1>4, <1>5, TokenMintEnds

LEMMA TokenRefreshAlwaysStep ==
  ASSUME Tokens!DeploymentsHold, TokenInv, NEW c \in TokenCalls, Tokens!RefreshAlways(c)
  PROVE  TokenInv'
<1>1. /\ call[c].tok \in Tokens!Tokens /\ call[c] \in TokenCallState /\ call[c].at = "mint"
      /\ TokenDead(call[c].tok) /\ minted \in Seq(TokenRecord) /\ answered \subseteq Tokens!Tokens
  BY DEF TokenInv, TokenTypeOK, TokenStoresOK, TokenCallOK, TokenSpentInv, TokenLateHolds,
         Tokens!RefreshAlways, Tokens!At
<1>2. Tokens!Left(c) \in Nat
  <2>1. minted[call[c].tok] \in TokenRecord
    BY <1>1 DEF Tokens!Tokens
  <2>2. minted[call[c].tok].exp \in Nat /\ call[c].start \in Nat
    BY <1>1, <2>1 DEF TokenRecord, TokenCallState
  <2>3. PICK left \in Int : left = minted[call[c].tok].exp - call[c].start
    BY <2>2
  <2> QED BY <2>3 DEF Tokens!Left
<1>3. PICK s : s = Tokens!Persisted("refresh", call[c].start, Tokens!Left(c), c)
  OBVIOUS
<1>4. s \in TokenRecord /\ s.iat = s.began /\ ~s.late
  BY <1>1, <1>2, <1>3, TokenPersistedOK
<1>5. /\ Tokens!Mint(s) /\ Tokens!End(c) /\ UNCHANGED <<setup, epoch, now, signedOut>>
      /\ held' = held \cup {Len(minted) + 1} /\ answered' = answered \cup {call[c].tok}
  BY <1>3 DEF Tokens!RefreshAlways, Tokens!IssueRotatedPair, Tokens!Delivered
<1>6. answered' \subseteq Tokens!Tokens /\ \A t \in answered' \ answered : TokenDead(t)
  BY <1>1, <1>5
<1> QED BY <1>4, <1>5, <1>6, TokenMintEnds

LEMMA TokenRefreshSlidingStep ==
  ASSUME Tokens!DeploymentsHold, TokenInv, NEW c \in TokenCalls, Tokens!RefreshSliding(c)
  PROVE  TokenInv'
<1>1. PICK t \in Tokens!Tokens : t = call[c].tok
  BY DEF TokenInv, TokenTypeOK, TokenCallOK, Tokens!RefreshSliding, Tokens!At
<1>2. /\ call[c] \in TokenCallState /\ call \in [TokenCalls -> TokenCallState] /\ call[c].at = "guard"
      /\ (call[c].late => ~Tokens!Opens(t)) /\ Len(minted) + 1 \in Nat
      /\ setup.refreshTtl \in Nat /\ held \subseteq Tokens!Tokens /\ answered \subseteq Tokens!Tokens
  <2>1. setup \in Tokens!Setup /\ minted \in Seq(TokenRecord)
    BY DEF TokenInv, TokenTypeOK, TokenStoresOK
  <2>2. setup.refreshTtl \in Nat /\ Len(minted) + 1 \in Nat
    BY <2>1 DEF Tokens!Setup
  <2> QED BY <1>1, <2>2 DEF TokenInv, TokenTypeOK, TokenStoresOK, TokenSpentInv, TokenLateHolds,
                            Tokens!RefreshSliding, Tokens!At
<1>3. PICK n \in Nat : n = Len(minted) + 1
  BY <1>2
<1>4. PICK k : k = [call[c] EXCEPT !.at = "update", !.pair = n]
  OBVIOUS
<1>5. k \in TokenCallState /\ k.at = "update" /\ k.tok = t /\ k.late = call[c].late /\ k.pair = n
  BY <1>1, <1>2, <1>4 DEF TokenCallState, TokenLabel
<1>6. call' = [call EXCEPT ![c] = k]
  BY <1>2, <1>3, <1>4 DEF Tokens!RefreshSliding
<1>7. PICK s : s = Tokens!Persisted("refresh", call[c].start, setup.refreshTtl, c)
  OBVIOUS
<1>8. s \in TokenRecord /\ s.iat = s.began /\ ~s.late
  BY <1>2, <1>7, TokenPersistedOK
<1>9. Tokens!Mint(s) /\ UNCHANGED <<setup, epoch, now, signedOut>> /\ held' = held /\ answered' = answered
  BY <1>7 DEF Tokens!RefreshSliding, Tokens!IssueRotatedPair
<1>10. TokenStoresOK' /\ TokenLater /\ TokenSound /\ epoch' = signedOut' /\ n \in Tokens!Tokens'
  BY <1>2, <1>3, <1>8, <1>9, TokenMintStores
<1>11. k.late => ~Tokens!Opens(t)'
  BY <1>2, <1>5, <1>10, TokenDeadStays
<1>12. TokenCallOK(k)' /\ TokenLateHolds(k)'
  BY <1>5, <1>10, <1>11 DEF TokenCallOK, TokenLateHolds, TokenLater
<1> QED BY <1>5, <1>6, <1>10, <1>12, TokenCallMoves

LEMMA TokenUpdateStep ==
  ASSUME Tokens!DeploymentsHold, TokenInv, NEW c \in TokenCalls, Tokens!Update(c)
  PROVE  TokenInv'
<1>1. PICK t \in Tokens!Tokens : t = call[c].tok
  BY DEF TokenInv, TokenTypeOK, TokenCallOK, Tokens!Update, Tokens!At
<1>2. call[c].pair \in Tokens!Tokens /\ held \subseteq Tokens!Tokens /\ TokenStoresOK
  BY DEF TokenInv, TokenTypeOK, TokenStoresOK, TokenCallOK, Tokens!Update, Tokens!At
<1>3. /\ UNCHANGED <<setup, minted, epoch, now, signedOut>> /\ Tokens!End(c)
      /\ held' \subseteq Tokens!Tokens /\ answered' = answered \cup {t}
  BY <1>1, <1>2 DEF Tokens!Update, Tokens!Delivered
<1>4. Tokens!Deny(t) \/ (denied' = denied /\ ~Tokens!Opens(t))
  BY <1>1 DEF Tokens!Update, Tokens!JwtUpdate, Tokens!SealedUpdate, Tokens!Opens
<1>5. TokenStoresOK' /\ TokenLater /\ TokenSound /\ epoch' = signedOut'
  <2>1. CASE Tokens!Deny(t)
    BY <1>3, <2>1, TokenDenyStores
  <2>2. CASE denied' = denied /\ ~Tokens!Opens(t)
    <3>1. TokenStoresOK'
      BY <1>2, <1>3, <2>2 DEF TokenStoresOK, Tokens!Tokens
    <3>2. TokenLater
      BY <1>2, <1>3, <2>2 DEF TokenLater, TokenStoresOK, Tokens!Tokens
    <3>3. TokenDead(t)'
      BY <2>2, <3>1, <3>2, TokenDeadStays DEF TokenDead
    <3>4. TokenSound
      BY <1>3, <3>3 DEF TokenSound, Tokens!Tokens
    <3> QED BY <1>3, <3>1, <3>2, <3>4 DEF TokenInv, TokenEpochInv
  <2> QED BY <1>4, <2>1, <2>2
<1>6. TokenCallOK(Tokens!Idle)' /\ TokenLateHolds(Tokens!Idle)' /\ Tokens!Idle \in TokenCallState
  BY <1>5, TokenIdleOK, TokenLateStays
<1> QED BY <1>3, <1>5, <1>6, TokenCallMoves DEF Tokens!End

\* The user is signed out, by a replay or a call.
LEMMA TokenSignedOutStores ==
  ASSUME Tokens!DeploymentsHold, TokenInv, epoch' = now, signedOut' = now,
         UNCHANGED <<setup, minted, held, denied, answered, now>>
  PROVE  TokenStoresOK' /\ TokenLater /\ TokenSound /\ epoch' = signedOut'
<1>1. TokenStoresOK /\ now \in Nat
  BY DEF TokenInv, TokenTypeOK, TokenStoresOK
<1>2. TokenStoresOK'
  BY <1>1 DEF TokenStoresOK, Tokens!Tokens
<1>3. TokenLater
  BY <1>1 DEF TokenLater, TokenStoresOK, Tokens!Tokens
<1> QED BY <1>2, <1>3 DEF TokenSound, Tokens!Tokens

LEMMA TokenReplayedStep ==
  ASSUME Tokens!DeploymentsHold, TokenInv, NEW c \in TokenCalls, Tokens!Replayed(c)
  PROVE  TokenInv'
<1>1. /\ epoch' = now /\ signedOut' = now /\ Tokens!End(c)
      /\ UNCHANGED <<setup, minted, held, denied, answered, now>>
  BY DEF Tokens!Replayed
<1>2. TokenStoresOK' /\ TokenLater /\ TokenSound /\ epoch' = signedOut'
  BY <1>1, TokenSignedOutStores
<1>3. TokenCallOK(Tokens!Idle)' /\ TokenLateHolds(Tokens!Idle)' /\ Tokens!Idle \in TokenCallState
  BY <1>2, TokenIdleOK, TokenLateStays
<1> QED BY <1>1, <1>2, <1>3, TokenCallMoves DEF Tokens!End

\* The steps that no call takes.
LEMMA TokenOtherStep ==
  ASSUME Tokens!DeploymentsHold, TokenInv,
         Tokens!Issue \/ Tokens!RevokeAllForUser \/ Tokens!Tick \/ Tokens!Restart \/ \E t \in Tokens!Tokens : Tokens!Revoke(t)
  PROVE  TokenInv'
<1>1. CASE Tokens!Issue
  <2>1. PICK s : s = [kind |-> "refresh", iat |-> now, exp |-> now + setup.refreshTtl,
                      began |-> now, late |-> FALSE]
    OBVIOUS
  <2>2. now \in Nat /\ setup.refreshTtl \in Nat /\ answered \subseteq Tokens!Tokens
    BY DEF TokenInv, TokenTypeOK, TokenStoresOK, Tokens!Setup
  <2>3. s \in TokenRecord /\ s.iat = s.began /\ ~s.late
    BY <2>1, <2>2 DEF TokenRecord
  <2>4. /\ Tokens!Mint(s) /\ UNCHANGED <<setup, epoch, now, signedOut, call>>
        /\ held' = held \cup {Len(minted) + 1} /\ answered' = answered
    BY <1>1, <2>1 DEF Tokens!Issue
  <2>5. TokenStoresOK' /\ TokenLater /\ TokenSound /\ epoch' = signedOut'
    BY <2>2, <2>3, <2>4, TokenMintStores
  <2> QED BY <2>4, <2>5, TokenNoCallMoves
<1>2. CASE Tokens!RevokeAllForUser
  BY <1>2, TokenSignedOutStores, TokenNoCallMoves DEF Tokens!RevokeAllForUser
<1>3. CASE Tokens!Tick
  <2>1. TokenStoresOK /\ now \in Nat /\ now' = now + 1
    BY <1>3 DEF Tokens!Tick, TokenInv, TokenTypeOK, TokenStoresOK
  <2>2. UNCHANGED <<setup, minted, held, denied, epoch, call, answered, signedOut>>
    BY <1>3 DEF Tokens!Tick
  <2>3. TokenStoresOK'
    BY <2>1, <2>2 DEF TokenStoresOK, Tokens!Tokens, Tokens!None
  <2>4. TokenLater
    BY <2>1, <2>2 DEF TokenLater, TokenStoresOK, Tokens!Tokens
  <2>5. TokenSound /\ epoch' = signedOut'
    BY <2>2 DEF TokenSound, Tokens!Tokens, TokenInv, TokenEpochInv
  <2> QED BY <2>2, <2>3, <2>4, <2>5, TokenNoCallMoves
<1>4. ASSUME NEW t \in Tokens!Tokens, Tokens!Revoke(t) PROVE TokenInv'
  <2>1. /\ Tokens!Deny(t) /\ UNCHANGED <<setup, minted, epoch, now, signedOut, call>>
        /\ held' = held /\ answered' = answered /\ held \subseteq Tokens!Tokens
    BY <1>4 DEF Tokens!Revoke, TokenInv, TokenTypeOK, TokenStoresOK
  <2>2. TokenStoresOK' /\ TokenLater /\ TokenSound /\ epoch' = signedOut'
    BY <2>1, TokenDenyStores
  <2> QED BY <2>1, <2>2, TokenNoCallMoves
<1>5. CASE Tokens!Restart
  <2>1. /\ UNCHANGED <<setup, minted, held, now>> /\ Tokens!Tokens' = Tokens!Tokens
        /\ epoch' = Tokens!None /\ signedOut' = Tokens!None /\ call' = [c \in TokenCalls |-> Tokens!Idle]
    BY <1>5 DEF Tokens!Restart, Tokens!Tokens
  <2>2. denied' = denied \/ (setup.denylist = "memory" /\ denied' = [t \in Tokens!Tokens |-> 0])
    BY <1>5 DEF Tokens!Restart
  <2>3. answered' = {} \/ (answered' = answered /\ setup.denylist # "memory" /\ epoch = Tokens!None)
    BY <1>5 DEF Tokens!Restart
  <2>4. minted \in Seq(TokenRecord) /\ denied \in Seq(Nat) /\ Len(denied) = Len(minted)
        /\ answered \subseteq Tokens!Tokens /\ Tokens!Tokens = 1 .. Len(minted)
    BY DEF TokenInv, TokenTypeOK, TokenStoresOK, Tokens!Tokens
  <2>5. denied' \in Seq(Nat) /\ Len(denied') = Len(minted)
        /\ \A t \in Tokens!Tokens : denied'[t] \in {0, denied[t]}
    <3>1. CASE denied' = denied
      BY <2>4, <3>1
    <3>2. CASE denied' = [t \in Tokens!Tokens |-> 0]
      <4>1. denied' = [t \in 1 .. Len(minted) |-> 0] /\ Len(minted) \in Nat
        BY <2>4, <3>2
      <4>2. denied' \in Seq(Nat) /\ Len(denied') = Len(minted)
        BY <4>1
      <4> QED BY <2>4, <4>1, <4>2
    <3> QED BY <2>2, <3>1, <3>2
  <2>6. TokenTypeOK'
    <3>1. TokenStoresOK'
      BY <2>1, <2>3, <2>5 DEF TokenInv, TokenTypeOK, TokenStoresOK, Tokens!None
    <3>2. call' \in [TokenCalls -> TokenCallState] /\ \A c \in TokenCalls : TokenCallOK(call[c])'
      BY <2>1, TokenIdleOK DEF TokenCallOK, Tokens!Idle
    <3> QED BY <3>1, <3>2 DEF TokenTypeOK
  <2>7. TokenEpochInv'
    BY <2>1 DEF TokenInv, TokenEpochInv
  <2>8. TokenSpentInv'
    <3>1. \A t \in Tokens!Tokens' : (denied[t] \in {0, Tokens!DenyUntil(t)})' /\ ~minted'[t].late
      <4>1. \A t \in Tokens!Tokens : Tokens!DenyUntil(t)' = Tokens!DenyUntil(t)
        BY <2>1 DEF Tokens!DenyUntil, Tokens!JwtDenyUntil, Tokens!Jwt
      <4> QED BY <2>1, <2>5, <4>1 DEF TokenInv, TokenSpentInv
    <3>2. \A t \in answered' : TokenDead(t)'
      <4>1. CASE answered' = answered /\ setup.denylist # "memory" /\ epoch = Tokens!None
        <5>1. denied' = denied /\ epoch' = epoch
          BY <2>1, <2>2, <4>1
        <5>2. \A t : TokenDead(t)' = TokenDead(t)
          BY <2>1, <5>1 DEF TokenDead, Tokens!Opens, Tokens!JwtVerifies, Tokens!SealedOpens,
                            Tokens!Jwt, Tokens!PassesEpoch, Tokens!InDenylist
        <5> QED BY <4>1, <5>2 DEF TokenInv, TokenSpentInv
      <4> QED BY <2>3, <4>1
    <3>3. ASSUME NEW c \in TokenCalls PROVE TokenLateHolds(call[c])'
      <4>1. call'[c].at \notin {"mint", "denylist", "epoch", "guard", "deny", "update"}
        BY <2>1 DEF Tokens!Idle
      <4> QED BY <4>1, Zenon DEF TokenLateHolds
    <3> QED BY <3>1, <3>2, <3>3 DEF TokenSpentInv
  <2> QED BY <2>6, <2>7, <2>8 DEF TokenInv
<1> QED BY <1>1, <1>2, <1>3, <1>4, <1>5

(* ------------------------------- Theorems -------------------------------- *)
LEMMA TokenInvInit == Tokens!DeploymentsHold /\ Tokens!Init => TokenInv
<1> SUFFICES ASSUME Tokens!DeploymentsHold, Tokens!Init PROVE TokenInv
  OBVIOUS
<1>1. /\ setup \in Tokens!Setup /\ now = 0 /\ minted = <<>> /\ denied = <<>> /\ held = {} /\ answered = {}
      /\ epoch = Tokens!None /\ signedOut = Tokens!None /\ call = [c \in TokenCalls |-> Tokens!Idle]
  BY DEF Tokens!Init, Tokens!DeploymentsHold
<1>2. Tokens!Tokens = {} /\ minted \in Seq(TokenRecord) /\ denied \in Seq(Nat) /\ Len(denied) = Len(minted)
  BY <1>1 DEF Tokens!Tokens
<1>3. \A c \in TokenCalls : TokenCallOK(call[c]) /\ TokenLateHolds(call[c])
  BY <1>1, TokenIdleOK
<1>4. TokenTypeOK
  BY <1>1, <1>2, <1>3, TokenIdleOK DEF TokenTypeOK, TokenStoresOK
<1> QED BY <1>1, <1>2, <1>3, <1>4 DEF TokenInv, TokenEpochInv, TokenSpentInv

LEMMA TokenInvStep == Tokens!DeploymentsHold /\ TokenInv /\ [Tokens!Next]_Tokens!vars => TokenInv'
<1> SUFFICES ASSUME Tokens!DeploymentsHold, TokenInv, [Tokens!Next]_Tokens!vars PROVE TokenInv'
  OBVIOUS
<1>1. ASSUME NEW c \in TokenCalls,
             \/ Tokens!AskDenylist(c) \/ Tokens!CheckEpoch(c) \/ Tokens!Unknown(c) \/ Tokens!Refuse(c) \/ Tokens!Fail(c)
             \/ Tokens!Consume(c) \/ Tokens!ConsumeDenies(c)
      PROVE  TokenInv'
  BY <1>1, TokenLookupStep, TokenConsumeStep, TokenConsumeDeniesStep
<1>2. ASSUME NEW c \in TokenCalls,
             Tokens!RefreshNone(c) \/ Tokens!RefreshAlways(c) \/ Tokens!RefreshSliding(c) \/ Tokens!Update(c) \/ Tokens!Replayed(c)
      PROVE  TokenInv'
  BY <1>2, TokenRefreshNoneStep, TokenRefreshAlwaysStep, TokenRefreshSlidingStep, TokenUpdateStep,
     TokenReplayedStep
<1>3. ASSUME NEW c \in TokenCalls, NEW t \in Tokens!Tokens,
             Tokens!StartRefresh(c, t) PROVE TokenInv'
  BY <1>3, TokenStartRefreshStep
<1>4. CASE Tokens!Issue \/ Tokens!RevokeAllForUser \/ Tokens!Tick \/ Tokens!Restart \/ \E t \in Tokens!Tokens : Tokens!Revoke(t)
  BY <1>4, TokenOtherStep
<1>5. CASE UNCHANGED Tokens!vars
  <2>1. UNCHANGED <<setup, minted, held, denied, epoch, answered, signedOut, now, call>>
    BY <1>5 DEF Tokens!vars
  <2>2. TokenStoresOK' /\ TokenLater
    BY <2>1 DEF TokenInv, TokenTypeOK, TokenStoresOK, TokenLater, Tokens!Tokens
  <2>3. TokenSound /\ epoch' = signedOut'
    BY <2>1 DEF TokenSound, Tokens!Tokens, TokenInv, TokenEpochInv
  <2> QED BY <2>1, <2>2, <2>3, TokenNoCallMoves
<1> QED BY <1>1, <1>2, <1>3, <1>4, <1>5 DEF Tokens!Next

LEMMA TokenInvGives == TokenInv => Tokens!SignedOutMeansOut /\ Tokens!AnsweredIsSpent
<1>1. TokenInv => Tokens!SignedOutMeansOut
  <2> SUFFICES ASSUME TokenInv, signedOut # Tokens!None, NEW t \in held, Tokens!Accepted(t)
               PROVE  minted[t].began >= signedOut
    BY DEF Tokens!SignedOutMeansOut
  <2>1. t \in Tokens!Tokens /\ epoch = signedOut /\ minted[t].iat = minted[t].began
    BY DEF TokenInv, TokenTypeOK, TokenStoresOK, TokenEpochInv
  <2> QED BY <2>1 DEF Tokens!Accepted, Tokens!PassesEpoch
<1>2. TokenInv => Tokens!AnsweredIsSpent
  BY DEF TokenInv, TokenSpentInv, Tokens!AnsweredIsSpent
<1> QED BY <1>1, <1>2

(***************************************************************************)
(* RedisSessions                                                            *)
(***************************************************************************)

(* ------------------------------ The invariant ---------------------------- *)
RedisLabel == {"idle", "persist", "index", "stamp", "write", "recheck", "undo", "unindex", "touch"} \cup Redis!Revoking
RedisCallState == [at : RedisLabel, old : Nat, new : Nat, session : Nat, work : SUBSET Nat,
              found : SUBSET Nat, dead : SUBSET Nat, closes : SUBSET Nat, pass : Nat,
              calm : BOOLEAN]

RedisStoresOK ==
    /\ row \in Seq(Nat) /\ logins \in Nat
    /\ keys \subseteq Redis!Rows /\ index \subseteq Redis!Rows /\ held \subseteq Redis!Rows
    /\ \A t \in Redis!Rows : row[t] <= logins

RedisHeldSessions == {row[t] : t \in held}

\* A row that is being written, and has been; the latter while it may yet be answered.
RedisUnwritten == {"persist", "index", "stamp", "write", "recheck"}
RedisListed == {"stamp", "write", "recheck"}
RedisWritten == {"index", "stamp", "write", "recheck", "undo", "unindex"}
RedisIsLogin(k) == k.at \in {"persist", "index"} /\ k.old = 0

\* A refresh answers for the session of a row that somebody holds, a login for one that
\* nobody has a row of.
RedisWriterHolds(k) ==
    /\ k.at \in RedisUnwritten /\ k.old # 0 => k.old \in held /\ k.session = row[k.old]
    /\ k.at \in RedisListed => k.old # 0
    /\ RedisIsLogin(k) => k.session <= logins /\ k.session \notin RedisHeldSessions
    /\ k.at \in RedisWritten => k.new \in Redis!Rows \ held
    /\ k.at \in RedisWritten \ {"undo", "unindex"} => row[k.new] = k.session
    /\ k.at \in RedisListed => (k.new \in keys => k.new \in index)
    /\ k.at = "unindex" => k.new \notin keys

\* What a revocation is about to take out of the index has no key.
RedisRevokerHolds(k) ==
    /\ k.work \cup k.found \cup k.dead \subseteq Redis!Rows
    /\ k.at = "purgeSrem" => k.work \cap keys = {}
    /\ k.at = "get" => k.dead \cap keys = {}
    /\ k.at \in {"del", "logout"} => k.found \cap keys = {}
    /\ k.at \in Redis!Revoking => /\ k.closes \subseteq RedisHeldSessions
                                  /\ k.session # Redis!All => k.closes \subseteq {k.session}
RedisCallHolds(k) == RedisWriterHolds(k) /\ RedisRevokerHolds(k)

RedisTypeOK == RedisStoresOK /\ call \in [RedisCalls -> RedisCallState]
RedisCallsHold == \A c \in RedisCalls : RedisCallHolds(call[c])

RedisDistinct ==
    \A c, d \in RedisCalls : c # d =>
        /\ call[c].at \in RedisWritten /\ call[d].at \in RedisWritten => call[c].new # call[d].new
        /\ RedisIsLogin(call[c]) /\ RedisIsLogin(call[d]) => call[c].session # call[d].session

\* A session whose rows are not all gone shows in the listing: by a row it has found or
\* has yet to ask for.
RedisOpen(s) == \E t \in held \cap keys : row[t] = s
RedisSeen(k, s) == \E t \in held \cap keys : t \in k.work \cup k.found /\ row[t] = s
RedisCovered(k) == \A s \in k.closes : RedisOpen(s) => RedisSeen(k, s)
RedisCalmHolds ==
    \A c \in Redis!Revokers : call[c].calm =>
        /\ Redis!Revokers = {c}
        /\ call[c].at = "get" => RedisCovered(call[c])

RedisInv ==
    /\ RedisTypeOK /\ RedisCallsHold /\ RedisDistinct /\ RedisCalmHolds
    /\ closed \subseteq RedisHeldSessions
    /\ Redis!RevokedRowsAreGone

(* ------------------------------ What a step keeps ------------------------ *)
\* No row changes, no key comes back, and no member that has one leaves the index.
RedisLater ==
    /\ Redis!Rows \subseteq Redis!Rows' /\ \A t \in Redis!Rows : row'[t] = row[t]
    /\ held \subseteq held' /\ logins <= logins'
    /\ keys' \cap Redis!Rows \subseteq keys
    /\ \A t \in index : t \in keys' => t \in index'

LEMMA RedisCallStays ==
  ASSUME RedisStoresOK, RedisStoresOK', RedisLater, NEW k \in RedisCallState, RedisCallHolds(k),
         k.at \in RedisWritten => k.new \notin held',
         RedisIsLogin(k) => k.session \notin RedisHeldSessions'
  PROVE  RedisCallHolds(k)'
<1>1. /\ \A t \in Redis!Rows : t \in Redis!Rows' /\ row'[t] = row[t]
      /\ \A t \in Redis!Rows : t \in keys' => t \in keys
      /\ RedisHeldSessions \subseteq RedisHeldSessions'
  BY DEF RedisStoresOK, RedisLater, RedisHeldSessions
<1>2. RedisWriterHolds(k)'
  <2>1. k.session <= logins => k.session <= logins'
    BY DEF RedisStoresOK, RedisLater, RedisCallState
  <2>2. /\ k.at \in RedisUnwritten /\ k.old # 0 => k.old \in held' /\ k.session = row'[k.old]
        /\ k.at \in RedisListed => k.old # 0
        /\ RedisIsLogin(k) => k.session <= logins' /\ k.session \notin RedisHeldSessions'
    BY <1>1, <2>1 DEF RedisCallHolds, RedisWriterHolds, RedisStoresOK, RedisLater
  <2>3. /\ k.at \in RedisWritten => k.new \in Redis!Rows' \ held'
        /\ k.at \in RedisWritten \ {"undo", "unindex"} => row'[k.new] = k.session
    BY <1>1 DEF RedisCallHolds, RedisWriterHolds
  <2>4. k.at \in RedisListed => (k.new \in keys' => k.new \in index')
    <3> SUFFICES ASSUME k.at \in RedisListed, k.new \in keys' PROVE k.new \in index'
      OBVIOUS
    <3>1. k.new \in Redis!Rows /\ (k.new \in keys => k.new \in index)
      BY DEF RedisCallHolds, RedisWriterHolds, RedisListed, RedisWritten
    <3> QED BY <1>1, <3>1 DEF RedisLater
  <2>5. k.at = "unindex" => k.new \notin keys'
    <3>1. k.at = "unindex" => k.new \in Redis!Rows /\ k.new \notin keys
      BY DEF RedisCallHolds, RedisWriterHolds, RedisWritten
    <3> QED BY <1>1, <3>1
  <2> QED BY <2>2, <2>3, <2>4, <2>5 DEF RedisWriterHolds, RedisIsLogin
<1>3. RedisRevokerHolds(k)'
  <2>1. \A t \in k.work \cup k.found \cup k.dead : t \in Redis!Rows /\ t \in Redis!Rows' /\ (t \in keys' => t \in keys)
    BY <1>1 DEF RedisCallHolds, RedisRevokerHolds
  <2> QED BY <1>1, <2>1 DEF RedisCallHolds, RedisRevokerHolds
<1> QED BY <1>2, <1>3 DEF RedisCallHolds

\* Calls in flight: one goes on, or ends, and the others stay as they are.
LEMMA RedisCallsMove ==
  ASSUME RedisTypeOK, RedisCallsHold, RedisDistinct, NEW c \in RedisCalls, NEW k \in RedisCallState,
         call' = [call EXCEPT ![c] = k], RedisStoresOK', RedisLater, RedisCallHolds(k)',
         \A d \in RedisCalls \ {c} :
            /\ call[d].at \in RedisWritten => call[d].new \notin held'
            /\ RedisIsLogin(call[d]) => call[d].session \notin RedisHeldSessions'
  PROVE  RedisTypeOK' /\ RedisCallsHold'
<1>1. RedisTypeOK' /\ \A d \in RedisCalls : call'[d] = IF d = c THEN k ELSE call[d]
  BY DEF RedisTypeOK
<1>2. ASSUME NEW d \in RedisCalls PROVE RedisCallHolds(call[d])'
  <2>1. CASE d = c
    BY <1>1, <2>1 DEF RedisCallHolds, RedisWriterHolds, RedisRevokerHolds, RedisIsLogin
  <2>2. CASE d # c
    <3>1. PICK q \in RedisCallState : q = call[d]
      BY DEF RedisTypeOK
    <3>2. RedisCallHolds(q)'
      BY <2>2, <3>1, RedisCallStays DEF RedisTypeOK, RedisCallsHold
    <3>3. call'[d] = q
      BY <1>1, <2>2, <3>1
    <3> QED BY <3>2, <3>3 DEF RedisCallHolds, RedisWriterHolds, RedisRevokerHolds, RedisIsLogin
  <2> QED BY <2>1, <2>2
<1> QED BY <1>1, <1>2 DEF RedisCallsHold

LEMMA RedisOthersKeep ==
  ASSUME RedisTypeOK, RedisCallsHold, RedisStoresOK', RedisLater, held' = held
  PROVE  \A d \in RedisCalls :
            /\ call[d].at \in RedisWritten => call[d].new \notin held'
            /\ RedisIsLogin(call[d]) => call[d].session \notin RedisHeldSessions'
<1>1. RedisHeldSessions' = RedisHeldSessions
  BY DEF RedisHeldSessions, RedisLater, RedisTypeOK, RedisStoresOK
<1> QED BY <1>1 DEF RedisCallsHold, RedisCallHolds, RedisWriterHolds

\* A call keeps the row it writes and the session it opens, or takes fresh ones.
RedisKeeps(k, next) ==
    /\ next.at \in RedisWritten => (k.at \in RedisWritten /\ next.new = k.new) \/ next.new \notin Redis!Rows
    /\ RedisIsLogin(next) => (RedisIsLogin(k) /\ next.session = k.session) \/ ~(next.session <= logins)

LEMMA RedisDistinctMoves ==
  ASSUME RedisTypeOK, RedisCallsHold, RedisDistinct, NEW c \in RedisCalls, NEW k \in RedisCallState,
         call' = [call EXCEPT ![c] = k], RedisKeeps(call[c], k)
  PROVE  RedisDistinct'
<1>1. \A d \in RedisCalls : call'[d] = IF d = c THEN k ELSE call[d]
  BY DEF RedisTypeOK
<1>2. \A d \in RedisCalls : /\ call[d].at \in RedisWritten => call[d].new \in Redis!Rows
                            /\ RedisIsLogin(call[d]) => call[d].session <= logins
  BY DEF RedisCallsHold, RedisCallHolds, RedisWriterHolds
<1>3. ASSUME NEW d \in RedisCalls, d # c
      PROVE  /\ k.at \in RedisWritten /\ call[d].at \in RedisWritten => k.new # call[d].new
             /\ RedisIsLogin(k) /\ RedisIsLogin(call[d]) => k.session # call[d].session
  BY <1>2, <1>3 DEF RedisKeeps, RedisDistinct
<1>4. ASSUME NEW d \in RedisCalls, NEW e \in RedisCalls, d # e
      PROVE  /\ call'[d].at \in RedisWritten /\ call'[e].at \in RedisWritten => call'[d].new # call'[e].new
             /\ RedisIsLogin(call'[d]) /\ RedisIsLogin(call'[e]) => call'[d].session # call'[e].session
  <2>1. CASE d = c
    <3>1. call'[d] = k /\ call'[e] = call[e] /\ e # c
      BY <1>1, <1>4, <2>1
    <3> QED BY <1>3, <3>1
  <2>2. CASE e = c
    <3>1. call'[e] = k /\ call'[d] = call[d] /\ d # c
      BY <1>1, <1>4, <2>2
    <3> QED BY <1>3, <3>1
  <2>3. CASE d # c /\ e # c
    <3>1. call'[e] = call[e] /\ call'[d] = call[d]
      BY <1>1, <1>4, <2>3
    <3> QED BY <1>4, <3>1 DEF RedisDistinct
  <2> QED BY <2>1, <2>2, <2>3
<1> QED BY <1>4 DEF RedisDistinct, RedisIsLogin

\* Only revocations take the key of a token somebody has, and only from rows of sessions
\* that were open do new tokens of them come.
RedisQuiet(k, next) ==
    /\ k.at \notin Redis!Revoking => next.at \notin Redis!Revoking /\ held \cap keys \subseteq keys'
    /\ next.at \in Redis!Revoking => next.calm = k.calm
    /\ \A t \in held' \ held : t \in keys' /\ row'[t] \in RedisHeldSessions => RedisOpen(row'[t])

LEMMA RedisCoveredStays ==
  ASSUME RedisTypeOK, RedisStoresOK', RedisLater, NEW k \in RedisCallState,
         k.closes \subseteq RedisHeldSessions, RedisCovered(k),
         held \cap keys \subseteq keys',
         \A t \in held' \ held : t \in keys' /\ row'[t] \in RedisHeldSessions => RedisOpen(row'[t])
  PROVE  RedisCovered(k)'
<1> SUFFICES ASSUME NEW s \in k.closes, NEW t \in held' \cap keys', row'[t] = s
             PROVE  \E o \in held' \cap keys' : o \in k.work \cup k.found /\ row'[o] = s
  BY DEF RedisCovered, RedisOpen, RedisSeen
<1>1. RedisOpen(s)
  <2>1. CASE t \in held
    BY <2>1 DEF RedisOpen, RedisLater, RedisTypeOK, RedisStoresOK
  <2>2. CASE t \notin held
    BY <2>2
  <2> QED BY <2>1, <2>2
<1>2. PICK o \in held \cap keys : o \in k.work \cup k.found /\ row[o] = s
  BY <1>1 DEF RedisCovered, RedisSeen
<1>3. o \in held' /\ o \in keys' /\ row'[o] = s
  BY <1>2 DEF RedisLater, RedisTypeOK, RedisStoresOK
<1> QED BY <1>2, <1>3

LEMMA RedisCalmMoves ==
  ASSUME RedisTypeOK, RedisCallsHold, RedisCalmHolds, NEW c \in RedisCalls,
         NEW k \in RedisCallState,
         call' = [call EXCEPT ![c] = k], RedisStoresOK', RedisLater, RedisQuiet(call[c], k),
         k.at = "get" /\ k.calm => RedisCovered(k)'
  PROVE  RedisCalmHolds'
<1>1. \A d \in RedisCalls : call'[d] = IF d = c THEN k ELSE call[d]
  BY DEF RedisTypeOK
<1>2. Redis!Revokers' \subseteq Redis!Revokers /\ (call[c].at \notin Redis!Revoking => c \notin Redis!Revokers')
  BY <1>1 DEF Redis!Revokers, RedisQuiet
<1> SUFFICES ASSUME NEW d \in Redis!Revokers', call'[d].calm
             PROVE  Redis!Revokers' = {d} /\ (call'[d].at = "get" => RedisCovered(call[d])')
  BY DEF RedisCalmHolds
<1>3. d \in RedisCalls /\ d \in Redis!Revokers
  BY <1>2 DEF Redis!Revokers
<1>4. call[d].calm
  <2>1. CASE d = c
    BY <1>1, <2>1 DEF RedisQuiet, Redis!Revokers
  <2>2. CASE d # c
    BY <1>1, <1>3, <2>2
  <2> QED BY <2>1, <2>2
<1>5. Redis!Revokers = {d} /\ (call[d].at = "get" => RedisCovered(call[d]))
  BY <1>3, <1>4 DEF RedisCalmHolds
<1>6. Redis!Revokers' = {d}
  BY <1>2, <1>5
<1>7. ASSUME call'[d].at = "get" PROVE RedisCovered(call[d])'
  <2>1. CASE d = c
    <3>1. call'[d] = k
      BY <1>1, <1>3, <2>1
    <3>2. RedisCovered(k)'
      BY <1>1, <1>7, <2>1, <3>1
    <3> QED BY <3>1, <3>2 DEF RedisCovered, RedisOpen, RedisSeen
  <2>2. CASE d # c
    <3>1. PICK q \in RedisCallState : q = call[d]
      BY <1>3 DEF RedisTypeOK
    <3>2. call'[d] = q /\ q.at = "get" /\ c \notin Redis!Revokers
      BY <1>1, <1>3, <1>5, <1>7, <2>2, <3>1
    <3>3. call[c].at \notin Redis!Revoking
      BY <3>2 DEF Redis!Revokers
    <3>4. RedisCovered(q) /\ q.closes \subseteq RedisHeldSessions
      <4>1. RedisCallHolds(q)
        BY <1>3, <3>1 DEF RedisCallsHold
      <4> QED BY <1>5, <3>1, <3>2, <4>1 DEF RedisCallHolds, RedisRevokerHolds, Redis!Revoking
    <3>5. RedisCovered(q)'
      BY <3>3, <3>4, RedisCoveredStays DEF RedisQuiet
    <3> QED BY <3>2, <3>5 DEF RedisCovered, RedisOpen, RedisSeen
  <2> QED BY <2>1, <2>2
<1> QED BY <1>6, <1>7

LEMMA RedisStoresKeep ==
  ASSUME RedisInv, RedisStoresOK', RedisLater, held' = held, closed' = closed
  PROVE  closed' \subseteq RedisHeldSessions' /\ Redis!RevokedRowsAreGone'
<1>1. RedisHeldSessions' = RedisHeldSessions
  BY DEF RedisHeldSessions, RedisLater, RedisInv, RedisTypeOK, RedisStoresOK
<1>2. \A t \in held : t \in Redis!Rows /\ row'[t] = row[t] /\ (t \in keys' => t \in keys)
  BY DEF RedisLater, RedisInv, RedisTypeOK, RedisStoresOK
<1>3. \A t \in held : row'[t] \in closed => t \notin keys'
  BY <1>2 DEF RedisInv, Redis!RevokedRowsAreGone, Redis!Exists
<1>4. held \cap keys' \subseteq index'
  BY <1>2 DEF RedisInv, Redis!RevokedRowsAreGone, RedisLater
<1> QED BY <1>1, <1>3, <1>4 DEF RedisInv, Redis!RevokedRowsAreGone, Redis!Exists

\* A step of one call that nobody is answered by.
LEMMA RedisCallStep ==
  ASSUME RedisInv, NEW c \in RedisCalls, NEW k \in RedisCallState,
         call' = [call EXCEPT ![c] = k], RedisStoresOK', RedisLater, held' = held, closed' = closed,
         RedisCallHolds(k)', RedisKeeps(call[c], k),
         call[c].at \notin Redis!Revoking => k.at \notin Redis!Revoking /\ held \cap keys \subseteq keys',
         k.at \in Redis!Revoking => k.calm = call[c].calm,
         k.at = "get" /\ k.calm => RedisCovered(k)'
  PROVE  RedisInv'
<1>1. RedisTypeOK' /\ RedisCallsHold'
  BY RedisCallsMove, RedisOthersKeep DEF RedisInv
<1>2. RedisDistinct'
  BY RedisDistinctMoves DEF RedisInv
<1>3. RedisCalmHolds'
  BY RedisCalmMoves DEF RedisInv, RedisQuiet
<1> QED BY <1>1, <1>2, <1>3, RedisStoresKeep DEF RedisInv

(* --------------------------------- Actions ------------------------------- *)
LEMMA RedisIdleHolds == Redis!Idle \in RedisCallState /\ RedisCallHolds(Redis!Idle) /\ RedisCallHolds(Redis!Idle)'
<1>1. Redis!Idle \in RedisCallState
  BY DEF Redis!Idle, RedisCallState, RedisLabel
<1>2. /\ Redis!Idle.at = "idle"
      /\ Redis!Idle.work = {} /\ Redis!Idle.found = {} /\ Redis!Idle.dead = {}
  BY DEF Redis!Idle
<1> QED BY <1>1, <1>2 DEF RedisCallHolds, RedisWriterHolds, RedisRevokerHolds, RedisIsLogin,
                          RedisUnwritten, RedisListed, RedisWritten, Redis!Revoking

\* The call ends, and the stores only lose keys, or members of the index without one.
LEMMA RedisCallEnds ==
  ASSUME RedisInv, NEW c \in RedisCalls, Redis!End(c), RedisStoresOK', RedisLater, held' = held,
         closed' = closed,
         call[c].at \in Redis!Revoking \/ held \cap keys \subseteq keys'
  PROVE  RedisInv'
<1>1. PICK k \in RedisCallState : k = Redis!Idle
  BY RedisIdleHolds
<1>2. /\ call' = [call EXCEPT ![c] = k]
      /\ k.at = "idle" /\ RedisCallHolds(k)'
  BY <1>1, RedisIdleHolds DEF Redis!End, Redis!Becomes, Redis!Idle
<1>3. RedisKeeps(call[c], k)
  BY <1>2 DEF RedisKeeps, RedisWritten, RedisIsLogin
<1> QED BY <1>2, <1>3, RedisCallStep DEF Redis!Revoking

LEMMA RedisStoresStay ==
  ASSUME RedisInv, UNCHANGED <<row, keys, index, held, logins>>
  PROVE  RedisStoresOK' /\ RedisLater /\ held \cap keys \subseteq keys'
BY DEF RedisInv, RedisTypeOK, RedisStoresOK, RedisLater, Redis!Rows

LEMMA RedisStartLoginStep ==
  ASSUME RedisInv, NEW c \in RedisCalls, Redis!StartLogin(c)
  PROVE  RedisInv'
<1>1. logins \in Nat /\ logins' = logins + 1
  BY DEF Redis!StartLogin, RedisInv, RedisTypeOK, RedisStoresOK
<1>2. RedisStoresOK' /\ RedisLater /\ held' = held /\ closed' = closed /\ keys' = keys
  BY <1>1 DEF Redis!StartLogin, RedisInv, RedisTypeOK, RedisStoresOK, RedisLater, Redis!Rows
<1>3. PICK n \in Nat : n = logins + 1
  BY <1>1
<1>4. PICK k : k = [Redis!Idle EXCEPT !.at = "persist", !.session = n]
  OBVIOUS
<1>5. call' = [call EXCEPT ![c] = k]
  BY <1>3, <1>4 DEF Redis!StartLogin, Redis!Becomes
<1>6. /\ k.at = "persist" /\ k.old = 0 /\ k.session = n
      /\ k.work = {} /\ k.found = {} /\ k.dead = {}
  BY <1>4 DEF Redis!Idle
<1>7. k \in RedisCallState
  BY <1>3, <1>4 DEF Redis!Idle, RedisCallState, RedisLabel
<1>8. n \notin RedisHeldSessions' /\ n <= logins' /\ ~(n <= logins)
  BY <1>1, <1>2, <1>3 DEF RedisHeldSessions, Redis!StartLogin, RedisInv, RedisTypeOK, RedisStoresOK
<1>9. RedisCallHolds(k)'
  BY <1>6, <1>8 DEF RedisCallHolds, RedisWriterHolds, RedisRevokerHolds, RedisIsLogin,
                    RedisUnwritten, RedisListed, RedisWritten, Redis!Revoking
<1>10. RedisKeeps(call[c], k)
  BY <1>6, <1>8 DEF RedisKeeps, RedisWritten
<1>11. k.at \notin Redis!Revoking
  BY <1>6 DEF Redis!Revoking
<1> QED BY <1>2, <1>5, <1>6, <1>7, <1>9, <1>10, <1>11, RedisCallStep

\* find() reads the row: what is rewritten or renewed is a row somebody has.
LEMMA RedisStartReadStep ==
  ASSUME RedisInv, NEW c \in RedisCalls, NEW t \in Redis!Rows,
         Redis!StartRefresh(c, t) \/ Redis!StartTouch(c, t)
  PROVE  RedisInv'
<1>1. RedisStoresOK' /\ RedisLater /\ held' = held /\ closed' = closed /\ keys' = keys
      /\ row' = row /\ t \in held /\ t \in Nat /\ row[t] \in Nat
  BY RedisStoresStay DEF Redis!StartRefresh, Redis!StartTouch, RedisInv, RedisTypeOK, RedisStoresOK,
                         Redis!Rows
<1>2. PICK k \in RedisCallState :
         /\ call' = [call EXCEPT ![c] = k]
         /\ k.at \in {"persist", "touch"} /\ k.old = t
         /\ k.at = "persist" => k.session = row[t]
         /\ k.work = {} /\ k.found = {} /\ k.dead = {}
  <2>1. CASE Redis!StartRefresh(c, t)
    <3>1. PICK k : k = [Redis!Idle EXCEPT !.at = "persist", !.old = t, !.session = row[t]]
      OBVIOUS
    <3>2. k \in RedisCallState
      BY <1>1, <3>1 DEF Redis!Idle, RedisCallState, RedisLabel
    <3>3. call' = [call EXCEPT ![c] = k]
      BY <2>1, <3>1 DEF Redis!StartRefresh, Redis!Becomes
    <3>4. /\ k.at = "persist" /\ k.old = t /\ k.session = row[t]
          /\ k.work = {} /\ k.found = {} /\ k.dead = {}
      BY <3>1 DEF Redis!Idle
    <3> QED BY <3>2, <3>3, <3>4
  <2>2. CASE Redis!StartTouch(c, t)
    <3>1. PICK k : k = [Redis!Idle EXCEPT !.at = "touch", !.old = t]
      OBVIOUS
    <3>2. k \in RedisCallState
      BY <1>1, <3>1 DEF Redis!Idle, RedisCallState, RedisLabel
    <3>3. call' = [call EXCEPT ![c] = k]
      BY <2>2, <3>1 DEF Redis!StartTouch, Redis!Becomes
    <3>4. /\ k.at = "touch" /\ k.old = t
          /\ k.work = {} /\ k.found = {} /\ k.dead = {}
      BY <3>1 DEF Redis!Idle
    <3> QED BY <3>2, <3>3, <3>4
  <2> QED BY <2>1, <2>2
<1>7. t # 0
  BY DEF RedisInv, RedisTypeOK, RedisStoresOK, Redis!Rows
<1>8. RedisCallHolds(k)'
  BY <1>1, <1>2, <1>7 DEF RedisCallHolds, RedisWriterHolds, RedisRevokerHolds, RedisIsLogin,
                          RedisUnwritten, RedisListed, RedisWritten, Redis!Revoking
<1>9. RedisKeeps(call[c], k)
  BY <1>2, <1>7 DEF RedisKeeps, RedisWritten, RedisIsLogin
<1>10. k.at \notin Redis!Revoking
  BY <1>2 DEF Redis!Revoking
<1> QED BY <1>1, <1>2, <1>8, <1>9, <1>10, RedisCallStep

LEMMA RedisPersistStep ==
  ASSUME RedisInv, NEW c \in RedisCalls, Redis!Persist(c)
  PROVE  RedisInv'
<1>1. PICK q \in RedisCallState : q = call[c] /\ q.at = "persist" /\ RedisCallHolds(q)
  BY DEF Redis!Persist, Redis!At, RedisInv, RedisTypeOK, RedisCallsHold
<1>2. PICK n \in Nat : n = Len(row) + 1 /\ n \notin Redis!Rows
  BY DEF RedisInv, RedisTypeOK, RedisStoresOK, Redis!Rows
<1>3. row' = Append(row, q.session) /\ q.session \in Nat /\ keys' = keys \cup {n}
      /\ UNCHANGED <<index, held, logins, closed>>
  BY <1>1, <1>2 DEF Redis!Persist, RedisCallState
<1>4. row' \in Seq(Nat) /\ Redis!Rows' = Redis!Rows \cup {n} /\ row'[n] = q.session /\ \A t \in Redis!Rows : row'[t] = row[t]
  BY <1>2, <1>3 DEF RedisInv, RedisTypeOK, RedisStoresOK, Redis!Rows
<1>5. q.session <= logins
  BY <1>1 DEF RedisCallHolds, RedisWriterHolds, RedisIsLogin, RedisUnwritten, RedisInv, RedisTypeOK,
              RedisStoresOK, RedisCallState
<1>6. RedisStoresOK' /\ RedisLater /\ held \cap keys \subseteq keys'
  BY <1>2, <1>3, <1>4, <1>5 DEF RedisInv, RedisTypeOK, RedisStoresOK, RedisLater, Redis!Rows
<1>7. PICK k : k = [q EXCEPT !.at = "index", !.new = n]
  OBVIOUS
<1>8. call' = [call EXCEPT ![c] = k]
  BY <1>1, <1>2, <1>7 DEF Redis!Persist, Redis!Becomes
<1>9. /\ k.at = "index" /\ k.new = n /\ k.old = q.old /\ k.session = q.session
      /\ k.work = q.work /\ k.found = q.found /\ k.dead = q.dead
  BY <1>7 DEF RedisCallState
<1>10. k \in RedisCallState
  BY <1>7 DEF RedisCallState, RedisLabel
<1>11. RedisWriterHolds(k)'
  <2>1. RedisHeldSessions' = RedisHeldSessions /\ n \notin held'
    BY <1>2, <1>3, <1>4 DEF RedisHeldSessions, RedisInv, RedisTypeOK, RedisStoresOK
  <2>2. k.old # 0 => k.old \in held' /\ k.session = row'[k.old]
    BY <1>1, <1>3, <1>4, <1>9 DEF RedisCallHolds, RedisWriterHolds, RedisUnwritten, RedisInv,
                                  RedisTypeOK, RedisStoresOK
  <2>3. k.old = 0 => k.session <= logins' /\ k.session \notin RedisHeldSessions'
    BY <1>1, <1>3, <1>9, <2>1 DEF RedisCallHolds, RedisWriterHolds, RedisIsLogin
  <2> QED BY <1>4, <1>9, <2>1, <2>2, <2>3 DEF RedisWriterHolds, RedisIsLogin, RedisUnwritten,
                                              RedisListed, RedisWritten
<1>12. RedisRevokerHolds(k)'
  BY <1>1, <1>4, <1>9 DEF RedisCallHolds, RedisRevokerHolds, Redis!Revoking
<1>13. RedisKeeps(call[c], k)
  BY <1>1, <1>2, <1>9 DEF RedisKeeps, RedisIsLogin
<1>14. k.at \notin Redis!Revoking
  BY <1>9 DEF Redis!Revoking
<1> QED BY <1>3, <1>6, <1>8, <1>9, <1>10, <1>11, <1>12, <1>13, <1>14, RedisCallStep
           DEF RedisCallHolds

\* A step of a call that is writing, after which nothing else is different.
LEMMA RedisGoesOn ==
  ASSUME RedisInv, NEW c \in RedisCalls, NEW label \in RedisLabel \ Redis!Revoking,
         Redis!Move(c, label), RedisStoresOK', RedisLater,
         held' = held, closed' = closed, held \cap keys \subseteq keys', row' = row,
         logins' = logins,
         call[c].at \in RedisWritten, label \in RedisWritten,
         label \in RedisUnwritten => call[c].at \in RedisUnwritten,
         label \in RedisListed => /\ call[c].old # 0
                                  /\ call[c].new \in keys' => call[c].new \in index',
         label = "index" => call[c].at = "index",
         label = "unindex" => call[c].new \notin keys'
  PROVE  RedisInv'
<1>1. PICK q \in RedisCallState : q = call[c] /\ RedisCallHolds(q)
  BY DEF RedisInv, RedisTypeOK, RedisCallsHold
<1>2. PICK k : k = [q EXCEPT !.at = label]
  OBVIOUS
<1>3. call' = [call EXCEPT ![c] = k]
  BY <1>1, <1>2 DEF Redis!Move, Redis!Becomes
<1>4. /\ k.at = label /\ k.new = q.new /\ k.old = q.old /\ k.session = q.session
      /\ k.work = q.work /\ k.found = q.found /\ k.dead = q.dead
  BY <1>2 DEF RedisCallState
<1>5. k \in RedisCallState
  BY <1>2 DEF RedisCallState
<1>6. RedisHeldSessions' = RedisHeldSessions
  BY DEF RedisHeldSessions
<1>7. RedisWriterHolds(k)'
  <2>1. k.new \in Redis!Rows' \ held'
    BY <1>1, <1>4 DEF RedisCallHolds, RedisWriterHolds, Redis!Rows
  <2>2. label \in RedisUnwritten => row'[k.new] = k.session
    BY <1>1, <1>4 DEF RedisCallHolds, RedisWriterHolds, RedisWritten, RedisUnwritten
  <2>3. label \in RedisUnwritten /\ k.old # 0 => k.old \in held' /\ k.session = row'[k.old]
    BY <1>1, <1>4 DEF RedisCallHolds, RedisWriterHolds
  <2>4. RedisIsLogin(k) => k.session <= logins' /\ k.session \notin RedisHeldSessions'
    BY <1>1, <1>4, <1>6 DEF RedisCallHolds, RedisWriterHolds, RedisIsLogin, RedisWritten
  <2> QED BY <1>1, <1>4, <2>1, <2>2, <2>3, <2>4 DEF RedisWriterHolds, RedisIsLogin, RedisUnwritten,
                                                    RedisListed, RedisWritten
<1>8. RedisRevokerHolds(k)'
  BY <1>1, <1>4 DEF RedisCallHolds, RedisRevokerHolds, Redis!Revoking, Redis!Rows
<1>9. RedisKeeps(call[c], k)
  BY <1>1, <1>4 DEF RedisKeeps, RedisIsLogin, RedisWritten
<1>10. k.at \notin Redis!Revoking
  BY <1>4
<1> QED BY <1>3, <1>4, <1>5, <1>7, <1>8, <1>9, <1>10, RedisCallStep DEF RedisCallHolds,
                                                                        Redis!Revoking

\* The caller has its answer: the token of a new session, or the next one of a session
\* that still has a row.
LEMMA RedisAnswerStep ==
  ASSUME RedisInv, NEW c \in RedisCalls, Redis!End(c), call[c].at \in {"index", "recheck"},
         held' = held \cup {call[c].new},
         UNCHANGED <<row, keys, logins, closed>>, index \subseteq index',
         index' \subseteq Redis!Rows,
         call[c].new \in keys => call[c].new \in index',
         RedisIsLogin(call[c]) \/ (call[c].old # 0 /\ Redis!Exists(call[c].old))
  PROVE  RedisInv'
<1>1. PICK q \in RedisCallState : q = call[c] /\ RedisCallHolds(q)
  BY DEF RedisInv, RedisTypeOK, RedisCallsHold
<1>2. PICK n \in Nat : n = q.new
  BY DEF RedisCallState
<1>3. n \in Redis!Rows /\ n \notin held /\ row[n] = q.session /\ held' = held \cup {n}
  BY <1>1, <1>2 DEF RedisCallHolds, RedisWriterHolds, RedisWritten
<1>4. RedisStoresOK' /\ RedisLater
  BY <1>3 DEF RedisInv, RedisTypeOK, RedisStoresOK, RedisLater, Redis!Rows
<1>5. RedisHeldSessions' = RedisHeldSessions \cup {q.session}
  BY <1>3 DEF RedisHeldSessions
<1>6. RedisIsLogin(q) \/ (q.old \in held /\ q.old \in keys /\ row[q.old] = q.session)
  BY <1>1 DEF RedisCallHolds, RedisWriterHolds, RedisUnwritten, Redis!Exists
<1>7. (RedisIsLogin(q) /\ q.session \notin RedisHeldSessions) \/ RedisOpen(q.session)
  BY <1>1, <1>6 DEF RedisCallHolds, RedisWriterHolds, RedisOpen
<1>8. ASSUME NEW d \in RedisCalls \ {c}
      PROVE  /\ call[d].at \in RedisWritten => call[d].new \notin held'
             /\ RedisIsLogin(call[d]) => call[d].session \notin RedisHeldSessions'
  <2>1. RedisWriterHolds(call[d])
    BY DEF RedisInv, RedisCallsHold, RedisCallHolds
  <2>2. call[d].at \in RedisWritten => call[d].new # n
    BY <1>1, <1>2 DEF RedisInv, RedisDistinct, RedisWritten
  <2>3. RedisIsLogin(call[d]) => call[d].session # q.session
    <3>1. CASE RedisIsLogin(q)
      BY <1>1, <3>1 DEF RedisInv, RedisDistinct
    <3>2. CASE q.old \in held /\ row[q.old] = q.session
      BY <2>1, <3>2 DEF RedisWriterHolds, RedisHeldSessions
    <3> QED BY <1>6, <3>1, <3>2
  <2> QED BY <1>3, <1>5, <2>1, <2>2, <2>3 DEF RedisWriterHolds
<1>9. PICK k \in RedisCallState : k = Redis!Idle
  BY RedisIdleHolds
<1>10. call' = [call EXCEPT ![c] = k] /\ k.at = "idle" /\ RedisCallHolds(k)'
  BY <1>9, RedisIdleHolds DEF Redis!End, Redis!Becomes, Redis!Idle
<1>11. RedisTypeOK' /\ RedisCallsHold'
  BY <1>4, <1>8, <1>10, RedisCallsMove DEF RedisInv
<1>12. RedisDistinct'
  <2>1. RedisKeeps(call[c], k)
    BY <1>10 DEF RedisKeeps, RedisWritten, RedisIsLogin
  <2> QED BY <1>10, <2>1, RedisDistinctMoves DEF RedisInv
<1>13. RedisCalmHolds'
  <2>1. \A t \in held' \ held : row'[t] \in RedisHeldSessions => RedisOpen(row'[t])
    BY <1>3, <1>7
  <2>2. RedisQuiet(call[c], k)
    BY <1>10, <2>1 DEF RedisQuiet, Redis!Revoking
  <2> QED BY <1>4, <1>10, <2>2, RedisCalmMoves DEF RedisInv
<1>14. closed' \subseteq RedisHeldSessions' /\ Redis!RevokedRowsAreGone'
  <2>1. closed' \subseteq RedisHeldSessions'
    BY <1>5 DEF RedisInv
  <2>2. q.session \notin closed
    BY <1>7 DEF RedisInv, Redis!RevokedRowsAreGone, Redis!Exists, RedisOpen
  <2>3. \A t \in held' : row'[t] \in closed' => t \notin keys'
    BY <1>3, <2>2 DEF RedisInv, Redis!RevokedRowsAreGone, Redis!Exists
  <2>4. held' \cap keys' \subseteq index'
    BY <1>1, <1>2, <1>3 DEF RedisInv, Redis!RevokedRowsAreGone
  <2> QED BY <2>1, <2>3, <2>4 DEF Redis!RevokedRowsAreGone, Redis!Exists
<1> QED BY <1>11, <1>12, <1>13, <1>14 DEF RedisInv

LEMMA RedisIndexStep ==
  ASSUME RedisInv, NEW c \in RedisCalls, Redis!Index(c)
  PROVE  RedisInv'
<1>1. call[c] \in RedisCallState /\ RedisWriterHolds(call[c]) /\ call[c].at = "index"
  BY DEF RedisInv, RedisTypeOK, RedisCallsHold, RedisCallHolds, Redis!Index, Redis!At
<1>2. call[c].new \in Redis!Rows
  BY <1>1 DEF RedisWriterHolds, RedisWritten
<1>3. index' = index \cup {call[c].new} /\ UNCHANGED <<row, keys, logins, closed>>
  BY DEF Redis!Index
<1>4. index' \subseteq Redis!Rows
  BY <1>2, <1>3 DEF RedisInv, RedisTypeOK, RedisStoresOK
<1>5. CASE call[c].old = 0
  <2>1. Redis!End(c) /\ held' = held \cup {call[c].new}
    BY <1>5 DEF Redis!Index
  <2> QED BY <1>1, <1>3, <1>4, <1>5, <2>1, RedisAnswerStep DEF RedisIsLogin
<1>6. CASE call[c].old # 0
  <2>1. Redis!Move(c, "stamp") /\ held' = held
    BY <1>6 DEF Redis!Index
  <2>2. RedisStoresOK' /\ RedisLater
    BY <1>3, <1>4, <2>1 DEF RedisInv, RedisTypeOK, RedisStoresOK, RedisLater, Redis!Rows
  <2>3. "stamp" \in RedisLabel \ Redis!Revoking
    BY DEF RedisLabel, Redis!Revoking
  <2> QED BY <1>1, <1>3, <1>6, <2>1, <2>2, <2>3, RedisGoesOn DEF RedisUnwritten, RedisWritten,
                                                                 RedisListed
<1> QED BY <1>5, <1>6

LEMMA RedisRewriteStep ==
  ASSUME RedisInv, NEW c \in RedisCalls, Redis!Stamp(c) \/ Redis!Write(c)
  PROVE  RedisInv'
<1>1. PICK label \in {"write", "recheck"} : Redis!Move(c, label)
  BY DEF Redis!Stamp, Redis!Write
<1>2. UNCHANGED <<row, keys, index, held, logins, closed>> /\ call[c].at \in {"stamp", "write"}
  BY DEF Redis!Stamp, Redis!Write, Redis!At
<1>3. label \in RedisLabel \ Redis!Revoking
  BY DEF RedisLabel, Redis!Revoking
<1>4. call[c].old # 0 /\ (call[c].new \in keys => call[c].new \in index)
  BY <1>2 DEF RedisInv, RedisCallsHold, RedisCallHolds, RedisWriterHolds, RedisListed
<1>5. RedisStoresOK' /\ RedisLater /\ held \cap keys \subseteq keys'
  BY <1>2, RedisStoresStay
<1> QED BY <1>1, <1>2, <1>3, <1>4, <1>5, RedisGoesOn DEF RedisUnwritten, RedisWritten, RedisListed

LEMMA RedisTouchStep ==
  ASSUME RedisInv, NEW c \in RedisCalls, Redis!Touch(c)
  PROVE  RedisInv'
<1>1. Redis!End(c) /\ UNCHANGED <<row, keys, index, held, logins, closed>>
  BY DEF Redis!Touch
<1> QED BY <1>1, RedisStoresStay, RedisCallEnds

LEMMA RedisRecheckStep ==
  ASSUME RedisInv, NEW c \in RedisCalls, Redis!Recheck(c)
  PROVE  RedisInv'
<1>1. UNCHANGED <<row, keys, index, logins, closed>> /\ call[c].at = "recheck"
  BY DEF Redis!Recheck, Redis!At
<1>2. call[c].old # 0 /\ (call[c].new \in keys => call[c].new \in index)
  BY <1>1 DEF RedisInv, RedisCallsHold, RedisCallHolds, RedisWriterHolds, RedisListed
<1>3. CASE Redis!Exists(call[c].old)
  <2>1. Redis!End(c) /\ held' = held \cup {call[c].new}
    BY <1>3 DEF Redis!Recheck
  <2>2. index \subseteq index' /\ index' \subseteq Redis!Rows
    BY <1>1 DEF RedisInv, RedisTypeOK, RedisStoresOK
  <2>3. call[c].new \in keys => call[c].new \in index'
    BY <1>1, <1>2
  <2> QED BY <1>1, <1>2, <1>3, <2>1, <2>2, <2>3, RedisAnswerStep
<1>4. CASE ~Redis!Exists(call[c].old)
  <2>1. Redis!Move(c, "undo") /\ held' = held
    BY <1>4 DEF Redis!Recheck
  <2>2. RedisStoresOK' /\ RedisLater /\ held \cap keys \subseteq keys'
    BY <1>1, <2>1, RedisStoresStay
  <2>3. "undo" \in RedisLabel \ Redis!Revoking
    BY DEF RedisLabel, Redis!Revoking
  <2> QED BY <1>1, <2>1, <2>2, <2>3, RedisGoesOn DEF RedisUnwritten, RedisWritten, RedisListed
<1> QED BY <1>3, <1>4

LEMMA RedisTakeBackStep ==
  ASSUME RedisInv, NEW c \in RedisCalls, Redis!Undo(c) \/ Redis!Unindex(c)
  PROVE  RedisInv'
<1>1. call[c].at \in {"undo", "unindex"} /\ UNCHANGED <<row, held, logins, closed>>
  BY DEF Redis!Undo, Redis!Unindex, Redis!At
<1>2. call[c].new \in Redis!Rows /\ call[c].new \notin held
  BY <1>1 DEF RedisInv, RedisCallsHold, RedisCallHolds, RedisWriterHolds, RedisWritten
<1>3. CASE Redis!Undo(c)
  <2>1. keys' = keys \ {call[c].new} /\ index' = index
    BY <1>3 DEF Redis!Undo
  <2>2. RedisStoresOK' /\ RedisLater /\ held \cap keys \subseteq keys'
    BY <1>1, <1>2, <2>1 DEF RedisInv, RedisTypeOK, RedisStoresOK, RedisLater, Redis!Rows
  <2>3. CASE Redis!Move(c, "unindex")
    <3>1. "unindex" \in RedisLabel \ Redis!Revoking /\ call[c].new \notin keys'
      BY <2>1 DEF RedisLabel, Redis!Revoking
    <3> QED BY <1>1, <2>2, <2>3, <3>1, RedisGoesOn DEF RedisUnwritten, RedisWritten, RedisListed
  <2>4. CASE Redis!End(c)
    BY <1>1, <2>2, <2>4, RedisCallEnds
  <2> QED BY <1>3, <2>3, <2>4 DEF Redis!Undo
<1>4. CASE Redis!Unindex(c)
  <2>1. index' = index \ {call[c].new} /\ keys' = keys /\ Redis!End(c) /\ call[c].at = "unindex"
    BY <1>4 DEF Redis!Unindex, Redis!At
  <2>2. call[c].new \notin keys
    BY <2>1 DEF RedisInv, RedisCallsHold, RedisCallHolds, RedisWriterHolds
  <2>3. RedisStoresOK' /\ RedisLater /\ held \cap keys \subseteq keys'
    BY <1>1, <2>1, <2>2 DEF RedisInv, RedisTypeOK, RedisStoresOK, RedisLater, Redis!Rows
  <2> QED BY <1>1, <2>1, <2>3, RedisCallEnds
<1> QED BY <1>3, <1>4

(* ------------------------------- Revocations ----------------------------- *)
LEMMA RedisDisturbedCall ==
  ASSUME RedisInv, RedisStoresOK', RedisLater, held' = held, NEW d \in RedisCalls, NEW k,
         k = Redis!Disturbed[d]
  PROVE  /\ k \in RedisCallState /\ RedisCallHolds(k)'
         /\ k.at = call[d].at /\ k.old = call[d].old /\ k.new = call[d].new
         /\ k.session = call[d].session
         /\ d \in Redis!Revokers => ~k.calm
<1>1. PICK q \in RedisCallState : q = call[d] /\ RedisCallHolds(q)
  BY DEF RedisInv, RedisTypeOK, RedisCallsHold
<1>2. PICK b \in BOOLEAN : b = (call[d].calm /\ d \notin Redis!Revokers)
  OBVIOUS
<1>3. k = [q EXCEPT !.calm = b]
  BY <1>1, <1>2 DEF Redis!Disturbed
<1>4. k \in RedisCallState
  BY <1>3 DEF RedisCallState
<1>5. /\ k.at = q.at /\ k.old = q.old /\ k.new = q.new /\ k.session = q.session
      /\ k.work = q.work /\ k.found = q.found /\ k.dead = q.dead /\ k.closes = q.closes
      /\ k.calm = b
  BY <1>3 DEF RedisCallState
<1>6. RedisCallHolds(q)'
  <2>1. /\ q.at \in RedisWritten => q.new \notin held'
        /\ RedisIsLogin(q) => q.session \notin RedisHeldSessions'
    BY <1>1, RedisOthersKeep DEF RedisInv
  <2> QED BY <1>1, <2>1, RedisCallStays DEF RedisInv, RedisTypeOK
<1>7. RedisCallHolds(k)'
  BY <1>5, <1>6 DEF RedisCallHolds, RedisWriterHolds, RedisRevokerHolds, RedisIsLogin
<1> QED BY <1>1, <1>2, <1>4, <1>5, <1>7

LEMMA RedisBeginStep ==
  ASSUME RedisInv, NEW c \in RedisCalls, NEW next \in RedisCallState, Redis!Begins(c, next),
         UNCHANGED <<row, keys, index, held, logins, closed>>,
         next.at \in {"purge", "list", "logout"}, RedisRevokerHolds(next)
  PROVE  RedisInv'
<1>1. RedisStoresOK' /\ RedisLater /\ held' = held /\ closed' = closed
  BY RedisStoresStay
<1>2. PICK b \in BOOLEAN : b = (Redis!Revokers = {})
  OBVIOUS
<1>3. PICK k : k = [next EXCEPT !.calm = b]
  OBVIOUS
<1>4. k \in RedisCallState
  BY <1>3 DEF RedisCallState
<1>5. /\ k.at = next.at /\ k.session = next.session /\ k.work = next.work /\ k.found = next.found
      /\ k.dead = next.dead /\ k.closes = next.closes /\ k.calm = b
  BY <1>3 DEF RedisCallState
<1>6. RedisCallHolds(k)'
  <2>1. RedisHeldSessions' = RedisHeldSessions
    BY DEF RedisHeldSessions
  <2>2. RedisRevokerHolds(k)'
    BY <1>5, <2>1 DEF RedisRevokerHolds, Redis!Rows
  <2>3. RedisWriterHolds(k)'
    BY <1>5 DEF RedisWriterHolds, RedisIsLogin, RedisUnwritten, RedisListed, RedisWritten
  <2> QED BY <2>2, <2>3 DEF RedisCallHolds
<1>7. call' = [Redis!Disturbed EXCEPT ![c] = k]
  BY <1>2, <1>3 DEF Redis!Begins
<1>8. Redis!Disturbed = [d \in RedisCalls |-> Redis!Disturbed[d]] /\ \A d \in RedisCalls : Redis!Disturbed[d] \in RedisCallState
  BY <1>1, RedisDisturbedCall DEF Redis!Disturbed
<1>9. call' \in [RedisCalls -> RedisCallState] /\ \A d \in RedisCalls : call'[d] = IF d = c THEN k ELSE Redis!Disturbed[d]
  BY <1>4, <1>7, <1>8
<1>10. ASSUME NEW d \in RedisCalls, d # c
       PROVE  /\ call'[d].at = call[d].at /\ call'[d].new = call[d].new
              /\ call'[d].old = call[d].old /\ call'[d].session = call[d].session
              /\ d \in Redis!Revokers => ~call'[d].calm
              /\ RedisCallHolds(call[d])'
  <2>1. PICK e : e = Redis!Disturbed[d]
    OBVIOUS
  <2>2. call'[d] = e
    BY <1>9, <1>10, <2>1
  <2>3. RedisCallHolds(e)'
    BY <1>1, <2>1, RedisDisturbedCall
  <2>4. RedisCallHolds(call[d])'
    BY <2>2, <2>3 DEF RedisCallHolds, RedisWriterHolds, RedisRevokerHolds, RedisIsLogin
  <2> QED BY <1>1, <2>1, <2>2, <2>4, RedisDisturbedCall
<1>11. RedisCallsHold'
  <2>1. call'[c] = k
    BY <1>9
  <2>2. RedisCallHolds(call[c])'
    BY <1>6, <2>1 DEF RedisCallHolds, RedisWriterHolds, RedisRevokerHolds, RedisIsLogin
  <2> QED BY <1>10, <2>2 DEF RedisCallsHold
<1>12. call'[c].at \notin RedisWritten /\ ~RedisIsLogin(call'[c])
  BY <1>5, <1>9 DEF RedisWritten, RedisIsLogin
<1>13. RedisDistinct'
  <2>1. \A d \in RedisCalls : d # c => /\ call'[d].at = call[d].at /\ call'[d].new = call[d].new
                                       /\ RedisIsLogin(call'[d]) = RedisIsLogin(call[d])
                                       /\ call'[d].session = call[d].session
    BY <1>10 DEF RedisIsLogin
  <2>2. \A d, e \in RedisCalls : d # e =>
          /\ call'[d].at \in RedisWritten /\ call'[e].at \in RedisWritten => call'[d].new # call'[e].new
          /\ RedisIsLogin(call'[d]) /\ RedisIsLogin(call'[e]) => call'[d].session # call'[e].session
    BY <1>12, <2>1 DEF RedisInv, RedisDistinct
  <2> QED BY <2>2 DEF RedisDistinct, RedisIsLogin
<1>14. RedisCalmHolds'
  <2> SUFFICES ASSUME NEW d \in Redis!Revokers', call'[d].calm
               PROVE  Redis!Revokers' = {d} /\ call'[d].at # "get"
    BY DEF RedisCalmHolds
  <2>1. \A e \in RedisCalls : e \in Redis!Revokers' => e = c \/ e \in Redis!Revokers
    BY <1>10 DEF Redis!Revokers
  <2>2. d = c
    BY <1>10, <2>1 DEF Redis!Revokers
  <2>3. Redis!Revokers = {}
    BY <1>2, <1>5, <1>9, <2>2
  <2>4. Redis!Revokers' = {c}
    BY <2>1, <2>2, <2>3 DEF Redis!Revokers
  <2> QED BY <1>5, <1>9, <2>2, <2>4
<1> QED BY <1>1, <1>9, <1>11, <1>13, <1>14, RedisStoresKeep DEF RedisInv, RedisTypeOK

LEMMA RedisRevokeStep ==
  ASSUME RedisInv, NEW c \in RedisCalls, NEW target \in 0 .. logins, Redis!Revoke(c, target)
  PROVE  RedisInv'
<1>1. target \in Nat
  BY DEF RedisInv, RedisTypeOK, RedisStoresOK
<1>2. PICK closes \in SUBSET Nat : closes = {row[t] : t \in {h \in held : target \in {Redis!All, row[h]}}}
  <2>1. \A t \in held : row[t] \in Nat
    BY DEF RedisInv, RedisTypeOK, RedisStoresOK, Redis!Rows
  <2>2. \A t \in {h \in held : target \in {Redis!All, row[h]}} : row[t] \in Nat
    BY <2>1
  <2> QED BY <2>2
<1>3. PICK label \in {"purge", "list"} : label = IF target = Redis!All THEN "purge" ELSE "list"
  OBVIOUS
<1>4. PICK next : next = [Redis!Idle EXCEPT !.at = label, !.session = target, !.closes = closes]
  OBVIOUS
<1>5. next \in RedisCallState
  BY <1>1, <1>4 DEF Redis!Idle, RedisCallState, RedisLabel, Redis!Revoking
<1>6. /\ next.at = label /\ next.session = target /\ next.closes = closes
      /\ next.work = {} /\ next.found = {} /\ next.dead = {}
  BY <1>4 DEF Redis!Idle
<1>7. closes \subseteq RedisHeldSessions /\ (target # Redis!All => closes \subseteq {target})
  BY <1>2 DEF RedisHeldSessions
<1>8. RedisRevokerHolds(next)
  BY <1>6, <1>7 DEF RedisRevokerHolds
<1>9. Redis!Begins(c, next) /\ UNCHANGED <<row, keys, index, held, logins, closed>>
  BY <1>2, <1>3, <1>4 DEF Redis!Revoke
<1> QED BY <1>5, <1>6, <1>8, <1>9, RedisBeginStep

LEMMA RedisLogoutStep ==
  ASSUME RedisInv, NEW c \in RedisCalls, NEW t \in Redis!Rows, Redis!Logout(c, t)
  PROVE  RedisInv'
<1>1. PICK next : next = [Redis!Idle EXCEPT !.at = "logout", !.work = {t}]
  OBVIOUS
<1>2. t \in Nat
  BY DEF RedisInv, RedisTypeOK, RedisStoresOK, Redis!Rows
<1>3. next \in RedisCallState
  BY <1>1, <1>2 DEF Redis!Idle, RedisCallState, RedisLabel, Redis!Revoking
<1>4. /\ next.at = "logout" /\ next.session = 0 /\ next.closes = {}
      /\ next.work = {t} /\ next.found = {} /\ next.dead = {}
  BY <1>1 DEF Redis!Idle
<1>5. RedisRevokerHolds(next)
  BY <1>4 DEF RedisRevokerHolds
<1>6. Redis!Begins(c, next) /\ UNCHANGED <<row, keys, index, held, logins, closed>>
  BY <1>1 DEF Redis!Logout
<1> QED BY <1>3, <1>4, <1>5, <1>6, RedisBeginStep

LEMMA RedisExpireStep ==
  ASSUME RedisInv, NEW t \in Redis!Rows, Redis!Expire(t)
  PROVE  RedisInv'
<1>1. keys' = keys \ {t} /\ UNCHANGED <<row, index, held, logins, closed>> /\ call' = Redis!Disturbed
  BY DEF Redis!Expire
<1>2. RedisStoresOK' /\ RedisLater
  BY <1>1 DEF RedisInv, RedisTypeOK, RedisStoresOK, RedisLater, Redis!Rows
<1>3. ASSUME NEW d \in RedisCalls
      PROVE  /\ call'[d] \in RedisCallState
             /\ call'[d].at = call[d].at /\ call'[d].new = call[d].new
             /\ call'[d].old = call[d].old /\ call'[d].session = call[d].session
             /\ d \in Redis!Revokers => ~call'[d].calm
             /\ RedisCallHolds(call[d])'
  <2>1. PICK e : e = Redis!Disturbed[d]
    OBVIOUS
  <2>2. call'[d] = e
    BY <1>1, <2>1
  <2>3. RedisCallHolds(e)'
    BY <1>1, <1>2, <2>1, RedisDisturbedCall
  <2>4. RedisCallHolds(call[d])'
    BY <2>2, <2>3 DEF RedisCallHolds, RedisWriterHolds, RedisRevokerHolds, RedisIsLogin
  <2> QED BY <1>1, <1>2, <2>1, <2>2, <2>4, RedisDisturbedCall
<1>4. call' \in [RedisCalls -> RedisCallState]
  BY <1>1, <1>3 DEF Redis!Disturbed
<1>5. RedisDistinct'
  <2>1. \A d \in RedisCalls : /\ call'[d].at = call[d].at /\ call'[d].new = call[d].new
                              /\ RedisIsLogin(call'[d]) = RedisIsLogin(call[d])
                              /\ call'[d].session = call[d].session
    BY <1>3 DEF RedisIsLogin
  <2>2. \A d, e \in RedisCalls : d # e =>
          /\ call'[d].at \in RedisWritten /\ call'[e].at \in RedisWritten => call'[d].new # call'[e].new
          /\ RedisIsLogin(call'[d]) /\ RedisIsLogin(call'[e]) => call'[d].session # call'[e].session
    BY <2>1 DEF RedisInv, RedisDistinct
  <2> QED BY <2>2 DEF RedisDistinct, RedisIsLogin
<1>6. RedisCalmHolds'
  BY <1>3 DEF RedisCalmHolds, Redis!Revokers
<1> QED BY <1>1, <1>2, <1>3, <1>4, <1>5, <1>6, RedisStoresKeep DEF RedisInv, RedisTypeOK,
                                                                   RedisCallsHold

\* A step inside a revocation.
LEMMA RedisRevokerStep ==
  ASSUME RedisInv, NEW c \in RedisCalls, NEW k \in RedisCallState, call' = [call EXCEPT ![c] = k],
         call[c].at \in Redis!Revoking, k.at \in Redis!Revoking,
         k.session = call[c].session, k.closes = call[c].closes, k.calm = call[c].calm,
         UNCHANGED <<row, held, logins, closed>>, keys' \subseteq keys, index' \subseteq index,
         \A t \in index : t \in keys' => t \in index',
         k.work \cup k.found \cup k.dead \subseteq Redis!Rows,
         k.at = "purgeSrem" => k.work \cap keys' = {},
         k.at = "get" => k.dead \cap keys' = {},
         k.at \in {"del", "logout"} => k.found \cap keys' = {},
         k.at = "get" => keys' = keys /\ (k.calm => RedisCovered(k))
  PROVE  RedisInv'
<1>1. RedisStoresOK' /\ RedisLater
  BY DEF RedisInv, RedisTypeOK, RedisStoresOK, RedisLater, Redis!Rows
<1>2. k.at \notin RedisWritten /\ k.at \notin RedisUnwritten /\ ~RedisIsLogin(k) /\ k.at \notin RedisListed
      /\ k.at # "unindex"
  BY DEF Redis!Revoking, RedisWritten, RedisUnwritten, RedisIsLogin, RedisListed
<1>3. RedisWriterHolds(k)'
  BY <1>2 DEF RedisWriterHolds, RedisIsLogin
<1>4. RedisRevokerHolds(k)'
  <2>1. RedisHeldSessions' = RedisHeldSessions /\ Redis!Rows' = Redis!Rows
    BY DEF RedisHeldSessions, Redis!Rows
  <2>2. k.closes \subseteq RedisHeldSessions /\ (k.session # Redis!All => k.closes \subseteq {k.session})
    BY DEF RedisInv, RedisCallsHold, RedisCallHolds, RedisRevokerHolds
  <2> QED BY <2>1, <2>2 DEF RedisRevokerHolds
<1>5. RedisKeeps(call[c], k)
  BY <1>2 DEF RedisKeeps
<1>6. k.at = "get" /\ k.calm => RedisCovered(k)'
  BY DEF RedisCovered, RedisOpen, RedisSeen
<1> QED BY <1>1, <1>3, <1>4, <1>5, <1>6, RedisCallStep DEF RedisCallHolds

LEMMA RedisPassStep ==
  ASSUME RedisInv, NEW c \in RedisCalls, Redis!Passed(c), call[c].at \in Redis!Revoking,
         UNCHANGED <<row, held, logins, closed>>, keys' \subseteq keys, index' \subseteq index,
         \A t \in index : t \in keys' => t \in index'
  PROVE  RedisInv'
<1>1. CASE Redis!End(c)
  <2>1. RedisStoresOK' /\ RedisLater
    BY DEF RedisInv, RedisTypeOK, RedisStoresOK, RedisLater, Redis!Rows
  <2> QED BY <1>1, <2>1, RedisCallEnds
<1>2. CASE ~Redis!End(c)
  <2>1. PICK q \in RedisCallState : q = call[c] /\ RedisRevokerHolds(q)
    BY DEF RedisInv, RedisTypeOK, RedisCallsHold, RedisCallHolds
  <2>2. PICK k : k = [q EXCEPT !.at = "list", !.work = {}]
    OBVIOUS
  <2>3. call' = [call EXCEPT ![c] = k]
    BY <1>2, <2>1, <2>2 DEF Redis!Passed, Redis!Becomes, Redis!End
  <2>4. k \in RedisCallState
    BY <2>2 DEF RedisCallState, RedisLabel, Redis!Revoking
  <2>5. /\ k.at = "list" /\ k.session = q.session /\ k.closes = q.closes /\ k.calm = q.calm
        /\ k.work = {} /\ k.found = q.found /\ k.dead = q.dead
    BY <2>2 DEF RedisCallState
  <2>6. k.work \cup k.found \cup k.dead \subseteq Redis!Rows /\ k.at \in Redis!Revoking
    BY <2>1, <2>5 DEF RedisRevokerHolds, Redis!Revoking
  <2> QED BY <2>1, <2>3, <2>4, <2>5, <2>6, RedisRevokerStep
<1> QED BY <1>1, <1>2

LEMMA RedisPurgeStep ==
  ASSUME RedisInv, NEW c \in RedisCalls, Redis!Purge(c) \/ Redis!PurgeDel(c) \/ Redis!PurgeSrem(c)
  PROVE  RedisInv'
<1>1. PICK q \in RedisCallState : q = call[c] /\ RedisRevokerHolds(q)
  BY DEF RedisInv, RedisTypeOK, RedisCallsHold, RedisCallHolds
<1>2. q.at \in {"purge", "purgeDel", "purgeSrem"} /\ q.at \in Redis!Revoking
      /\ UNCHANGED <<row, held, logins, closed>>
  BY <1>1 DEF Redis!Purge, Redis!PurgeDel, Redis!PurgeSrem, Redis!At, Redis!Revoking
<1>3. CASE Redis!Passed(c)
  <2>1. CASE Redis!Purge(c)
    <3>1. keys' = keys /\ index' = index
      BY <2>1 DEF Redis!Purge
    <3> QED BY <1>1, <1>2, <1>3, <3>1, RedisPassStep
  <2>2. CASE Redis!PurgeDel(c)
    <3>1. keys' \subseteq keys /\ index' = index
      BY <2>2 DEF Redis!PurgeDel
    <3> QED BY <1>1, <1>2, <1>3, <3>1, RedisPassStep
  <2>3. CASE Redis!PurgeSrem(c)
    <3>1. keys' = keys /\ index' = index \ q.work /\ q.at = "purgeSrem"
      BY <1>1, <2>3 DEF Redis!PurgeSrem, Redis!At
    <3>2. q.work \cap keys = {}
      BY <1>1, <3>1 DEF RedisRevokerHolds
    <3>3. \A t \in index : t \in keys' => t \in index'
      BY <3>1, <3>2
    <3> QED BY <1>1, <1>2, <1>3, <3>1, <3>3, RedisPassStep
  <2> QED BY <2>1, <2>2, <2>3
<1>4. CASE Redis!Purge(c) /\ ~Redis!Passed(c)
  <2>1. PICK k : k = [q EXCEPT !.at = "purgeDel", !.work = index]
    OBVIOUS
  <2>2. call' = [call EXCEPT ![c] = k] /\ keys' = keys /\ index' = index
    BY <1>1, <1>4, <2>1 DEF Redis!Purge, Redis!Becomes
  <2>3. index \subseteq Redis!Rows /\ index \subseteq Nat
    BY DEF RedisInv, RedisTypeOK, RedisStoresOK, Redis!Rows
  <2>4. k \in RedisCallState
    BY <2>1, <2>3 DEF RedisCallState, RedisLabel, Redis!Revoking
  <2>5. /\ k.at = "purgeDel" /\ k.session = q.session /\ k.closes = q.closes /\ k.calm = q.calm
        /\ k.work = index /\ k.found = q.found /\ k.dead = q.dead
    BY <2>1 DEF RedisCallState
  <2>6. k.work \cup k.found \cup k.dead \subseteq Redis!Rows /\ k.at \in Redis!Revoking
    BY <1>1, <2>3, <2>5 DEF RedisRevokerHolds, Redis!Revoking
  <2> QED BY <1>1, <1>2, <2>2, <2>4, <2>5, <2>6, RedisRevokerStep
<1>5. CASE Redis!PurgeDel(c)
  <2>1. PICK k : k = [q EXCEPT !.at = "purgeSrem"]
    OBVIOUS
  <2>2. call' = [call EXCEPT ![c] = k] /\ keys' = keys \ q.work /\ index' = index
    BY <1>1, <1>5, <2>1 DEF Redis!PurgeDel, Redis!Move, Redis!Becomes
  <2>3. k \in RedisCallState
    BY <2>1 DEF RedisCallState, RedisLabel, Redis!Revoking
  <2>4. /\ k.at = "purgeSrem" /\ k.session = q.session /\ k.closes = q.closes /\ k.calm = q.calm
        /\ k.work = q.work /\ k.found = q.found /\ k.dead = q.dead
    BY <2>1 DEF RedisCallState
  <2>5. /\ k.work \cup k.found \cup k.dead \subseteq Redis!Rows /\ k.at \in Redis!Revoking
        /\ k.work \cap keys' = {}
    BY <1>1, <2>2, <2>4 DEF RedisRevokerHolds, Redis!Revoking
  <2> QED BY <1>1, <1>2, <2>2, <2>3, <2>4, <2>5, RedisRevokerStep
<1> QED BY <1>3, <1>4, <1>5 DEF Redis!PurgeSrem

\* What the index shows covers every session with a row; a row asked for is found, or
\* was gone.
LEMMA RedisListingStep ==
  ASSUME RedisInv, NEW c \in RedisCalls, Redis!List(c) \/ Redis!Get(c)
  PROVE  RedisInv'
<1>1. PICK q \in RedisCallState : q = call[c] /\ RedisRevokerHolds(q)
  BY DEF RedisInv, RedisTypeOK, RedisCallsHold, RedisCallHolds
<1>2. q.at \in {"list", "get"} /\ q.at \in Redis!Revoking /\ c \in Redis!Revokers
      /\ UNCHANGED <<row, keys, index, held, logins, closed>>
  BY <1>1 DEF Redis!List, Redis!Get, Redis!At, Redis!Revoking, Redis!Revokers
<1>3. CASE Redis!List(c)
  <2>1. PICK k : k = [q EXCEPT !.at = "get", !.work = index, !.found = {}, !.dead = {}]
    OBVIOUS
  <2>2. call' = [call EXCEPT ![c] = k]
    BY <1>1, <1>3, <2>1 DEF Redis!List, Redis!Becomes
  <2>3. index \subseteq Redis!Rows /\ index \subseteq Nat
    BY DEF RedisInv, RedisTypeOK, RedisStoresOK, Redis!Rows
  <2>4. k \in RedisCallState
    BY <2>1, <2>3 DEF RedisCallState, RedisLabel, Redis!Revoking
  <2>5. /\ k.at = "get" /\ k.session = q.session /\ k.closes = q.closes /\ k.calm = q.calm
        /\ k.work = index /\ k.found = {} /\ k.dead = {}
    BY <2>1 DEF RedisCallState
  <2>6. RedisCovered(k)
    BY <2>5 DEF RedisCovered, RedisOpen, RedisSeen, RedisInv, Redis!RevokedRowsAreGone
  <2>7. k.at \in Redis!Revoking
    BY <2>5 DEF Redis!Revoking
  <2> QED BY <1>1, <1>2, <2>2, <2>3, <2>4, <2>5, <2>6, <2>7, RedisRevokerStep
<1>4. CASE Redis!Get(c)
  <2>1. PICK t \in q.work :
           call' = [call EXCEPT ![c] = [q EXCEPT !.work = @ \ {t},
                       !.found = IF Redis!Exists(t) THEN @ \cup ({t} \cap Redis!InScope(c)) ELSE @,
                       !.dead = IF Redis!Exists(t) THEN @ ELSE @ \cup {t}]]
    BY <1>1, <1>4 DEF Redis!Get, Redis!Becomes
  <2>2. t \in Redis!Rows /\ t \in Nat
    BY <1>1 DEF RedisRevokerHolds, RedisCallState
  <2>3. PICK found \in SUBSET Nat : found = IF Redis!Exists(t) THEN q.found \cup ({t} \cap Redis!InScope(c)) ELSE q.found
    BY <2>2 DEF RedisCallState
  <2>4. PICK dead \in SUBSET Nat : dead = IF Redis!Exists(t) THEN q.dead ELSE q.dead \cup {t}
    BY <2>2 DEF RedisCallState
  <2>5. PICK k : k = [q EXCEPT !.work = @ \ {t}, !.found = found, !.dead = dead]
    OBVIOUS
  <2>6. call' = [call EXCEPT ![c] = k]
    BY <2>1, <2>3, <2>4, <2>5 DEF RedisCallState
  <2>7. k \in RedisCallState
    BY <2>5 DEF RedisCallState
  <2>8. /\ k.at = q.at /\ k.session = q.session /\ k.closes = q.closes /\ k.calm = q.calm
        /\ k.work = q.work \ {t} /\ k.found = found /\ k.dead = dead
    BY <2>5 DEF RedisCallState
  <2>9. k.work \cup k.found \cup k.dead \subseteq Redis!Rows /\ k.dead \cap keys = {}
        /\ k.at = "get" /\ k.at \in Redis!Revoking
    <3>1. q.at = "get"
      BY <1>1, <1>4 DEF Redis!Get, Redis!At
    <3>2. q.work \cup q.found \cup q.dead \subseteq Redis!Rows /\ q.dead \cap keys = {}
      BY <1>1, <3>1 DEF RedisRevokerHolds
    <3> QED BY <1>2, <2>2, <2>3, <2>4, <2>8, <3>1, <3>2 DEF Redis!Exists
  <2>10. ASSUME k.calm PROVE RedisCovered(k)
    <3>1. RedisCovered(q)
      BY <1>1, <1>2, <2>8, <2>9, <2>10 DEF RedisInv, RedisCalmHolds
    <3>2. q.closes \subseteq RedisHeldSessions /\ (q.session # Redis!All => q.closes \subseteq {q.session})
      BY <1>1, <1>2 DEF RedisRevokerHolds
    <3> SUFFICES ASSUME NEW s \in q.closes, RedisOpen(s) PROVE RedisSeen(k, s)
      BY <2>8 DEF RedisCovered
    <3>3. PICK o \in held \cap keys : o \in q.work \cup q.found /\ row[o] = s
      BY <3>1 DEF RedisCovered, RedisSeen
    <3>4. CASE o = t
      <4>1. t \in Redis!InScope(c)
        BY <1>1, <2>2, <3>2, <3>3, <3>4 DEF Redis!InScope
      <4> QED BY <2>3, <2>8, <3>3, <3>4, <4>1 DEF RedisSeen, Redis!Exists
    <3>5. CASE o # t
      BY <2>3, <2>8, <3>3, <3>5 DEF RedisSeen
    <3> QED BY <3>4, <3>5
  <2> QED BY <1>1, <1>2, <2>6, <2>7, <2>8, <2>9, <2>10, RedisRevokerStep
<1> QED BY <1>3, <1>4

\* A listing that found no row of its scope found none that a token still opens.
LEMMA RedisPruneStep ==
  ASSUME RedisInv, NEW c \in RedisCalls, Redis!Prune(c)
  PROVE  RedisInv'
<1>1. PICK q \in RedisCallState : q = call[c] /\ RedisRevokerHolds(q)
  BY DEF RedisInv, RedisTypeOK, RedisCallsHold, RedisCallHolds
<1>2. q.at = "get" /\ q.work = {} /\ index' = index \ q.dead /\ UNCHANGED <<row, keys, held, logins>>
      /\ q.at \in Redis!Revoking /\ c \in Redis!Revokers /\ q.dead \cap keys = {}
  BY <1>1 DEF Redis!Prune, Redis!At, Redis!Revoking, Redis!Revokers, RedisRevokerHolds
<1>3. RedisStoresOK' /\ RedisLater /\ \A t \in index : t \in keys' => t \in index'
  BY <1>2 DEF RedisInv, RedisTypeOK, RedisStoresOK, RedisLater, Redis!Rows
<1>4. CASE closed' = closed /\ Redis!End(c)
  BY <1>1, <1>2, <1>3, <1>4, RedisCallEnds
<1>5. CASE q.found # {}
  <2>1. PICK label \in {"purge", "del"} : label = IF q.session = Redis!All THEN "purge" ELSE "del"
    OBVIOUS
  <2> PICK n \in Nat : n = q.pass + 1
    BY DEF RedisCallState
  <2>2. PICK k : k = [q EXCEPT !.pass = n, !.work = q.found, !.found = {}, !.dead = {}, !.at = label]
    OBVIOUS
  <2>3. call' = [call EXCEPT ![c] = k] /\ closed' = closed
    BY <1>1, <1>5, <2>1, <2>2 DEF Redis!Prune, Redis!Becomes, RedisCallState
  <2>4. k \in RedisCallState
    BY <2>2 DEF RedisCallState, RedisLabel, Redis!Revoking
  <2>5. /\ k.at = label /\ k.session = q.session /\ k.closes = q.closes /\ k.calm = q.calm
        /\ k.work = q.found /\ k.found = {} /\ k.dead = {}
    BY <2>2 DEF RedisCallState
  <2>6. k.work \cup k.found \cup k.dead \subseteq Redis!Rows /\ k.at \in Redis!Revoking
    BY <1>1, <2>5 DEF RedisRevokerHolds, Redis!Revoking
  <2> QED BY <1>1, <1>2, <1>3, <2>3, <2>4, <2>5, <2>6, RedisRevokerStep
<1>6. CASE q.found = {} /\ q.calm
  <2>1. Redis!End(c) /\ closed' = closed \cup q.closes
    BY <1>1, <1>6 DEF Redis!Prune
  <2>2. \A s \in q.closes : ~RedisOpen(s)
    BY <1>1, <1>2, <1>6 DEF RedisInv, RedisCalmHolds, RedisCovered, RedisSeen
  <2>3. PICK k \in RedisCallState : k = Redis!Idle
    BY RedisIdleHolds
  <2>4. call' = [call EXCEPT ![c] = k] /\ k.at = "idle" /\ RedisCallHolds(k)'
    BY <2>1, <2>3, RedisIdleHolds DEF Redis!End, Redis!Becomes, Redis!Idle
  <2>5. RedisTypeOK' /\ RedisCallsHold'
    BY <1>2, <1>3, <2>4, RedisCallsMove, RedisOthersKeep DEF RedisInv
  <2>6. RedisDistinct'
    <3>1. RedisKeeps(call[c], k)
      BY <2>4 DEF RedisKeeps, RedisWritten, RedisIsLogin
    <3> QED BY <2>4, <3>1, RedisDistinctMoves DEF RedisInv
  <2>7. RedisCalmHolds'
    <3>1. RedisQuiet(call[c], k)
      BY <1>1, <1>2, <2>4 DEF RedisQuiet, Redis!Revoking
    <3> QED BY <1>3, <2>4, <3>1, RedisCalmMoves DEF RedisInv
  <2>8. RedisHeldSessions' = RedisHeldSessions /\ q.closes \subseteq RedisHeldSessions
    BY <1>1, <1>2 DEF RedisHeldSessions, RedisRevokerHolds
  <2>9. \A t \in held' : row'[t] \in closed' => t \notin keys'
    BY <1>2, <2>1, <2>2 DEF RedisInv, Redis!RevokedRowsAreGone, Redis!Exists, RedisOpen
  <2>10. held' \cap keys' \subseteq index'
    BY <1>2, <1>3 DEF RedisInv, Redis!RevokedRowsAreGone
  <2> QED BY <2>1, <2>5, <2>6, <2>7, <2>8, <2>9, <2>10 DEF RedisInv, Redis!RevokedRowsAreGone,
                                                           Redis!Exists
<1> QED BY <1>1, <1>4, <1>5, <1>6 DEF Redis!Prune

LEMMA RedisDelStep ==
  ASSUME RedisInv, NEW c \in RedisCalls, Redis!Del(c)
  PROVE  RedisInv'
<1>1. PICK q \in RedisCallState : q = call[c] /\ RedisRevokerHolds(q)
  BY DEF RedisInv, RedisTypeOK, RedisCallsHold, RedisCallHolds
<1>2. q.at \in {"del", "logout"} /\ UNCHANGED <<row, index, held, logins, closed>>
      /\ q.at \in Redis!Revoking /\ q.found \cap keys = {}
  BY <1>1 DEF Redis!Del, Redis!Revoking, RedisRevokerHolds
<1>3. PICK t \in q.work :
         /\ keys' = keys \ {t}
         /\ call' = [call EXCEPT ![c] = [q EXCEPT !.work = @ \ {t},
                                                  !.found = IF Redis!Exists(t) THEN @ \cup {t} ELSE @]]
  BY <1>1 DEF Redis!Del, Redis!Becomes
<1>4. t \in Redis!Rows /\ t \in Nat
  BY <1>1 DEF RedisRevokerHolds, RedisCallState
<1>5. PICK found \in SUBSET Nat : found = IF Redis!Exists(t) THEN q.found \cup {t} ELSE q.found
  BY <1>4 DEF RedisCallState
<1>6. PICK k : k = [q EXCEPT !.work = @ \ {t}, !.found = found]
  OBVIOUS
<1>7. call' = [call EXCEPT ![c] = k]
  BY <1>3, <1>5, <1>6 DEF RedisCallState
<1>8. k \in RedisCallState
  BY <1>6 DEF RedisCallState
<1>9. /\ k.at = q.at /\ k.session = q.session /\ k.closes = q.closes /\ k.calm = q.calm
      /\ k.work = q.work \ {t} /\ k.found = found /\ k.dead = q.dead
  BY <1>6 DEF RedisCallState
<1>10. k.work \cup k.found \cup k.dead \subseteq Redis!Rows /\ k.found \cap keys' = {}
  BY <1>1, <1>2, <1>3, <1>4, <1>5, <1>9 DEF RedisRevokerHolds
<1> QED BY <1>1, <1>2, <1>3, <1>7, <1>8, <1>9, <1>10, RedisRevokerStep

LEMMA RedisSremStep ==
  ASSUME RedisInv, NEW c \in RedisCalls, Redis!Srem(c)
  PROVE  RedisInv'
<1>1. PICK q \in RedisCallState : q = call[c] /\ RedisRevokerHolds(q)
  BY DEF RedisInv, RedisTypeOK, RedisCallsHold, RedisCallHolds
<1>2. q.at \in {"del", "logout"} /\ UNCHANGED <<row, keys, held, logins, closed>>
      /\ q.at \in Redis!Revoking /\ q.found \cap keys = {}
  BY <1>1 DEF Redis!Srem, Redis!Revoking, RedisRevokerHolds
<1>3. PICK t \in q.found :
         index' = index \ {t} /\ call' = [call EXCEPT ![c] = [q EXCEPT !.found = @ \ {t}]]
  BY <1>1 DEF Redis!Srem, Redis!Becomes
<1>4. PICK k : k = [q EXCEPT !.found = @ \ {t}]
  OBVIOUS
<1>5. k \in RedisCallState
  BY <1>4 DEF RedisCallState
<1>6. /\ k.at = q.at /\ k.session = q.session /\ k.closes = q.closes /\ k.calm = q.calm
      /\ k.work = q.work /\ k.found = q.found \ {t} /\ k.dead = q.dead
  BY <1>4 DEF RedisCallState
<1>7. k.work \cup k.found \cup k.dead \subseteq Redis!Rows /\ k.found \cap keys' = {}
      /\ \A u \in index : u \in keys' => u \in index'
  BY <1>1, <1>2, <1>3, <1>6 DEF RedisRevokerHolds
<1>8. call' = [call EXCEPT ![c] = k]
  BY <1>3, <1>4
<1> QED BY <1>1, <1>2, <1>3, <1>5, <1>6, <1>7, <1>8, RedisRevokerStep

LEMMA RedisSweptStep ==
  ASSUME RedisInv, NEW c \in RedisCalls, Redis!Swept(c)
  PROVE  RedisInv'
<1>1. call[c].at \in Redis!Revoking /\ UNCHANGED <<row, keys, index, held, logins, closed>>
  BY DEF Redis!Swept, Redis!Revoking
<1>2. CASE Redis!End(c)
  BY <1>1, <1>2, RedisStoresStay, RedisCallEnds
<1>3. CASE Redis!Passed(c)
  BY <1>1, <1>3, RedisPassStep
<1> QED BY <1>2, <1>3 DEF Redis!Swept

LEMMA RedisDieStep ==
  ASSUME RedisInv, NEW c \in RedisCalls, Redis!Die(c)
  PROVE  RedisInv'
<1>1. Redis!End(c) /\ UNCHANGED <<row, keys, index, held, logins, closed>>
  BY DEF Redis!Die
<1> QED BY <1>1, RedisStoresStay, RedisCallEnds

(* ------------------------------- Theorems -------------------------------- *)
LEMMA RedisInvInit == Redis!Init => RedisInv
<1> SUFFICES ASSUME Redis!Init PROVE RedisInv
  OBVIOUS
<1>1. /\ row = <<>> /\ keys = {} /\ index = {} /\ held = {} /\ closed = {} /\ logins = 0
      /\ call = [c \in RedisCalls |-> Redis!Idle]
  BY DEF Redis!Init
<1>2. Redis!Rows = {} /\ row \in Seq(Nat)
  BY <1>1 DEF Redis!Rows
<1>3. RedisStoresOK
  BY <1>1, <1>2 DEF RedisStoresOK
<1>4. \A c \in RedisCalls : call[c] = Redis!Idle /\ Redis!Idle.at = "idle"
  BY <1>1 DEF Redis!Idle
<1>5. RedisTypeOK
  BY <1>1, <1>3, RedisIdleHolds DEF RedisTypeOK
<1>6. RedisCallsHold /\ RedisDistinct
  BY <1>4, RedisIdleHolds DEF RedisCallsHold, RedisDistinct, RedisWritten, RedisIsLogin
<1>7. RedisCalmHolds
  BY <1>4 DEF RedisCalmHolds, Redis!Revokers, Redis!Revoking
<1>8. closed \subseteq RedisHeldSessions /\ Redis!RevokedRowsAreGone
  BY <1>1 DEF Redis!RevokedRowsAreGone
<1> QED BY <1>5, <1>6, <1>7, <1>8 DEF RedisInv

LEMMA RedisInvStep == RedisInv /\ [Redis!Next]_Redis!vars => RedisInv'
<1> SUFFICES ASSUME RedisInv, [Redis!Next]_Redis!vars PROVE RedisInv'
  OBVIOUS
<1>1. ASSUME NEW c \in RedisCalls,
             \/ Redis!StartLogin(c) \/ Redis!Persist(c) \/ Redis!Index(c) \/ Redis!Stamp(c) \/ Redis!Write(c) \/ Redis!Touch(c)
             \/ Redis!Recheck(c) \/ Redis!Undo(c) \/ Redis!Unindex(c) \/ Redis!Die(c)
      PROVE  RedisInv'
  BY <1>1, RedisStartLoginStep, RedisPersistStep, RedisIndexStep, RedisRewriteStep, RedisTouchStep,
     RedisRecheckStep, RedisTakeBackStep, RedisDieStep
<1>2. ASSUME NEW c \in RedisCalls,
             \/ Redis!Purge(c) \/ Redis!PurgeDel(c) \/ Redis!PurgeSrem(c) \/ Redis!List(c) \/ Redis!Get(c) \/ Redis!Prune(c)
             \/ Redis!Del(c) \/ Redis!Srem(c) \/ Redis!Swept(c)
      PROVE  RedisInv'
  BY <1>2, RedisPurgeStep, RedisListingStep, RedisPruneStep, RedisDelStep, RedisSremStep,
     RedisSweptStep
<1>3. ASSUME NEW c \in RedisCalls, NEW t \in Redis!Rows,
             Redis!StartRefresh(c, t) \/ Redis!StartTouch(c, t) \/ Redis!Logout(c, t)
      PROVE  RedisInv'
  BY <1>3, RedisStartReadStep, RedisLogoutStep
<1>4. ASSUME NEW c \in RedisCalls, NEW target \in 0 .. logins,
             Redis!Revoke(c, target) PROVE RedisInv'
  BY <1>4, RedisRevokeStep
<1>5. ASSUME NEW t \in Redis!Rows, Redis!Expire(t) PROVE RedisInv'
  BY <1>5, RedisExpireStep
<1>6. CASE UNCHANGED Redis!vars
  BY <1>6 DEF Redis!vars, RedisInv, RedisTypeOK, RedisStoresOK, RedisCallsHold, RedisCallHolds,
              RedisWriterHolds, RedisRevokerHolds, RedisIsLogin,
              RedisHeldSessions, Redis!Rows, RedisDistinct, RedisCalmHolds, Redis!Revokers,
              RedisCovered, RedisOpen, RedisSeen,
              Redis!RevokedRowsAreGone, Redis!Exists
<1> QED BY <1>1, <1>2, <1>3, <1>4, <1>5, <1>6 DEF Redis!Next

(***************************************************************************)
(* RateLimit                                                                *)
(***************************************************************************)

(* ------------------------------ The invariant ---------------------------- *)
LimitItem == [limit : Nat, violated : BOOLEAN, resetAt : Nat, remaining : Nat]
LimitLabel == {"new", "between", "checks", "hits", "served", "rejected", "refused", "dead"}

\* A request was told n when it was counted on k; it was told more than the rule's limit.
LimitTold(t, k, n) == k \in DOMAIN t /\ n \in t[k]
LimitOver(t, k) == k \in DOMAIN t /\ \E n \in t[k] : n > Limits!RuleOf(k).limit

LimitEnd(k) == k.start + Limits!RuleOf(k).window
LimitKeyOK(k) == k.start \in Nat /\ \E p \in Limits!PoliciesOf(site) : k.id = p.id
    /\ k.rule \in DOMAIN Limits!EffectiveRules(p)

\* A counter lasts until the last increment of its window, by any server's clock.
LimitLasts(k, expires) ==
    IF site.redis THEN \A v \in DOMAIN site.ahead : LimitEnd(k) + site.lag <= expires + site.ahead[v]
    ELSE LimitEnd(k) <= expires
LimitCounterOK(k, c) ==
    /\ LimitKeyOK(k) /\ c = [count |-> c.count, expires |-> c.expires]
    /\ c.count \in Nat /\ 1 <= c.count
    /\ c.expires = Limits!Forever \/ (c.expires \in Nat /\ LimitLasts(k, c.expires))
LimitCountersOK ==
    /\ now \in Nat /\ now <= LimitTime /\ site \in Sites
    /\ counters = [k \in DOMAIN counters |-> counters[k]]
    /\ \A k \in DOMAIN counters : LimitCounterOK(k, counters[k])

\* Each count of a counter was told to one request, and each request one count of a counter.
LimitTallyOK ==
    /\ tally = [r \in Request |-> tally[r]]
    /\ \A r \in Request : \A k \in DOMAIN tally[r] :
           /\ k \in DOMAIN counters /\ tally[r][k] # {}
           /\ \A n \in tally[r][k] :
                 /\ n \in Nat /\ 1 <= n /\ n <= counters[k].count
                 /\ \A m \in tally[r][k] : m = n
                 /\ \A another \in Request : LimitTold(tally[another], k, n) => another = r
    /\ \A k \in DOMAIN counters : \A n \in 1 .. counters[k].count :
           \E r \in Request : LimitTold(tally[r], k, n)

LimitIsRequest(q) ==
    q = [at |-> q.at, server |-> q.server, route |-> q.route, caller |-> q.caller, todo |-> q.todo,
         due |-> q.due, clock |-> q.clock, started |-> q.started, waits |-> q.waits,
         untimed |-> q.untimed, verdicts |-> q.verdicts, decisions |-> q.decisions]

\* Where a request stands: each phase is to do once, and not the one being checked.
LimitPlanOK(q) ==
    /\ q.todo \subseteq DOMAIN Limits!Interceptors /\ q.due \subseteq DOMAIN q.route
    /\ \A n, m \in q.todo : Limits!Interceptors[n] = Limits!Interceptors[m] => n = m
    /\ \A i \in q.due : Limits!EffectiveRules(q.route[i]) # <<>>
    /\ \A i \in q.due, n \in q.todo : Limits!Owner(q.route[i]) # Limits!Interceptors[n]
LimitPlaceOK(q) ==
    /\ q.at # "new" => q.route \in site.routes /\ q.server \in DOMAIN site.ahead
    /\ q.at = "between" => q.todo # {}
    /\ q.at \in {"checks", "hits"} => q.due # {}
    /\ q.at # "hits" => q.verdicts = <<>> /\ q.waits = {} /\ q.untimed = {}
LimitHitsOK(q) ==
    LET rules == DOMAIN Limits!EffectiveRules(Limits!Checked(q))
    IN /\ site.redis /\ DOMAIN q.verdicts = rules /\ q.waits \subseteq rules
       /\ q.untimed \subseteq rules
       /\ q.verdicts = [i \in rules |-> q.verdicts[i]]
       /\ \A i \in rules : i \in q.waits \/ q.verdicts[i] \in LimitItem
       /\ q.started \in Nat /\ q.clock = q.started + site.ahead[q.server]
       /\ q.started <= now /\ now <= q.started + site.lag

\* The policies it has not been counted on.
LimitAhead(q) ==
    {i \in DOMAIN q.route : \/ \E n \in q.todo : i \in Limits!Owned(q.route, Limits!Interceptors[n])
                            \/ q.at = "checks" /\ i \in q.due
                            \/ q.at = "hits" /\ i \in q.due \ {Limits!Min(q.due)}}
LimitAheadOK(q, t) ==
    \A k \in DOMAIN t :
        /\ \A i \in LimitAhead(q) : q.route[i].id # k.id
        /\ q.at = "hits" /\ Limits!Checked(q).id = k.id => k.rule \notin q.waits

\* A count over the limit shows in an item that resets no earlier, and every violated
\* item is of such a count.
LimitShows(d, k) == d.violated /\ LimitEnd(k) <= d.resetAt
LimitShown(q, k) ==
    \/ \E i \in DOMAIN q.decisions : LimitShows(q.decisions[i], k)
    \/ \E i \in DOMAIN q.verdicts \ q.waits : LimitShows(q.verdicts[i], k)
LimitItemsOK(q, t) ==
    /\ q.decisions \in Seq(LimitItem)
    /\ \A k \in DOMAIN t : LimitOver(t, k) => LimitShown(q, k)
    /\ \A i \in DOMAIN q.decisions : q.decisions[i].violated => \E k \in DOMAIN t : LimitOver(t, k)
    /\ \A i \in DOMAIN q.verdicts \ q.waits : q.verdicts[i].violated
       => \E k \in DOMAIN t : LimitOver(t, k)
LimitOutcomeOK(q, t) ==
    /\ q.at = "new" => DOMAIN t = {} /\ q.decisions = <<>>
    /\ q.at \in {"between", "served"} => \A i \in DOMAIN q.decisions : ~q.decisions[i].violated
    /\ q.at = "rejected" => Len(q.decisions) = 1 /\ q.decisions[1].violated

LimitRequestInv(q, t) ==
    /\ LimitIsRequest(q) /\ q.at \in LimitLabel
    /\ q.at # "dead" =>
          /\ LimitPlanOK(q) /\ LimitPlaceOK(q) /\ LimitAheadOK(q, t) /\ LimitItemsOK(q, t)
          /\ LimitOutcomeOK(q, t)
          /\ q.at = "hits" => LimitHitsOK(q)
LimitRequestsOK ==
    /\ req = [r \in Request |-> req[r]]
    /\ \A r \in Request : LimitRequestInv(req[r], tally[r])

LimitInv == LimitCountersOK /\ LimitTallyOK /\ LimitRequestsOK

(* ------------------------------ Numbers ---------------------------------- *)
\* A set of numbers that is not empty has a smallest.
LEMMA LimitSmallest ==
  ASSUME NEW T \in SUBSET Nat, T # {}
  PROVE  \E x \in T : \A y \in T : x <= y
<1>1. PICK x \in T : \A y \in T : ~(<<y, x>> \in OpToRel(<, Nat))
  BY NatLessThanWellFounded, WFMin
<1>2. ASSUME NEW y \in T, y < x PROVE FALSE
  <2>1. <<y, x>> \in OpToRel(<, Nat)
    BY <1>2 DEF OpToRel
  <2> QED BY <1>1, <2>1
<1>3. x \in Nat /\ \A y \in T : y \in Nat
  OBVIOUS
<1> QED BY <1>2, <1>3

\* So the next interceptor, or policy, is one of those to do.
LEMMA LimitMin ==
  ASSUME NEW T \in SUBSET Nat, T # {}
  PROVE  Limits!Min(T) \in T
BY LimitSmallest DEF Limits!Min

\* Of finitely many items one has the largest s.
LEMMA LimitLargest ==
  ASSUME NEW n \in Nat, NEW F \in SUBSET (1 .. n), F # {}, NEW s, \A i \in F : s[i] \in Int
  PROVE  \E i \in F : \A j \in F : s[j] <= s[i]
<1> DEFINE Upto(m) == {i \in F : i <= m}
           Has(m) == \E i \in Upto(m) : \A j \in Upto(m) : s[j] <= s[i]
           Bad == {m \in Nat : Upto(m) # {} /\ ~Has(m)}
<1>1. ASSUME NEW m \in Bad PROVE \E k \in Bad : k < m
  <2>1. m \in Nat /\ Upto(m) # {} /\ ~Has(m)
    BY <1>1
  <2>2. m # 0 /\ m - 1 \in Nat /\ m - 1 < m
    <3>1. PICK i \in F : i <= m
      BY <2>1
    <3>2. i \in Nat /\ 1 <= i
      OBVIOUS
    <3> QED BY <2>1, <3>1, <3>2
  <2>3. CASE m \notin F
    <3>1. \A i \in F : i <= m <=> i <= m - 1
      BY <2>2, <2>3
    <3>2. Upto(m) = Upto(m - 1)
      BY <3>1
    <3>3. ~Has(m - 1)
      BY <2>1, <3>2
    <3>4. m - 1 \in Bad
      BY <2>1, <2>2, <3>2, <3>3
    <3> QED BY <2>2, <3>4
  <2>4. CASE m \in F /\ Upto(m - 1) = {}
    <3>1. \A i \in Upto(m) : i = m
      BY <2>2, <2>4
    <3>2. m \in Upto(m)
      BY <2>4, <2>1
    <3>3. \A j \in Upto(m) : s[j] <= s[m]
      BY <3>1, <3>2
    <3> QED BY <2>1, <3>2, <3>3
  <2>5. CASE m \in F /\ Upto(m - 1) # {}
    <3>1. CASE Has(m - 1)
      <4>1. PICK i \in Upto(m - 1) : \A j \in Upto(m - 1) : s[j] <= s[i]
        BY <3>1
      <4>2. i \in Upto(m) /\ m \in Upto(m) /\ s[i] \in Int /\ s[m] \in Int
        BY <2>1, <2>5
      <4>3. \A j \in Upto(m) : j = m \/ j \in Upto(m - 1)
        BY <2>1
      <4>4. CASE s[m] <= s[i]
        <5>1. \A j \in Upto(m) : s[j] <= s[i]
          BY <4>1, <4>3, <4>4
        <5> QED BY <2>1, <4>2, <5>1
      <4>5. CASE s[i] <= s[m]
        <5>1. \A j \in Upto(m - 1) : s[j] <= s[m]
          BY <4>1, <4>2, <4>5
        <5>2. \A j \in Upto(m) : s[j] <= s[m]
          BY <4>2, <4>3, <5>1
        <5> QED BY <2>1, <4>2, <5>2
      <4> QED BY <4>2, <4>4, <4>5
    <3>2. CASE ~Has(m - 1)
      <4>1. m - 1 \in Bad
        BY <2>2, <2>5, <3>2
      <4> QED BY <2>2, <4>1
    <3> QED BY <3>1, <3>2
  <2> QED BY <2>3, <2>4, <2>5
<1>2. Bad = {}
  <2>1. ASSUME Bad # {} PROVE FALSE
    <3> HIDE DEF Has, Upto
    <3>0. Bad \in SUBSET Nat
      OBVIOUS
    <3> HIDE DEF Bad
    <3>1. PICK m \in Bad : \A k \in Bad : m <= k
      BY <2>1, <3>0, LimitSmallest
    <3>2. PICK k \in Bad : k < m
      BY <1>1
    <3> QED BY <3>0, <3>1, <3>2
  <2> QED BY <2>1
<1>3. Upto(n) = F
  <2>1. \A i \in F : i \in 1 .. n
    OBVIOUS
  <2>2. \A i \in F : i <= n
    BY <2>1
  <2> QED BY <2>2
<1>4. Has(n)
  <2> HIDE DEF Has
  <2> QED BY <1>2, <1>3
<1> QED BY <1>3, <1>4

\* And one has the smallest.
LEMMA LimitSmallestOf ==
  ASSUME NEW n \in Nat, NEW F \in SUBSET (1 .. n), F # {}, NEW s, \A i \in F : s[i] \in Int
  PROVE  \E i \in F : \A j \in F : s[i] <= s[j]
<1> DEFINE t == [i \in F |-> 0 - s[i]]
<1>1. \A i \in F : t[i] \in Int
  OBVIOUS
<1>2. PICK i \in F : \A j \in F : t[j] <= t[i]
  <2> HIDE DEF t
  <2> QED BY <1>1, LimitLargest
<1>3. \A j \in F : s[i] <= s[j]
  BY <1>2
<1> QED BY <1>3

\* The clock lies in the window that starts before it.
LEMMA LimitWindow ==
  ASSUME NEW clock \in Nat, NEW rule \in Limits!LimitRule
  PROVE  /\ Limits!WindowStart(clock, rule) \in Nat /\ Limits!WindowStart(clock, rule) <= clock
         /\ clock < Limits!WindowStart(clock, rule) + rule.window
<1>1. PICK w \in Nat \ {0} : w = rule.window
  BY DEF Limits!LimitRule
<1>2. PICK q \in Nat : q = clock \div w
  BY <1>1
<1>3. q * w <= clock /\ clock < q * w + w /\ q * w \in Nat
  BY <1>1, <1>2
<1> QED BY <1>1, <1>2, <1>3 DEF Limits!WindowStart

\* The governing item is violated if one is, and resets no earlier.
LEMMA LimitGoverning ==
  ASSUME NEW items, NEW n \in Nat \ {0}, DOMAIN items = 1 .. n, \A i \in 1 .. n : items[i] \in LimitItem
  PROVE  /\ \E i \in 1 .. n : Limits!PickGoverning(items) = items[i]
         /\ \A i \in 1 .. n : items[i].violated =>
                Limits!PickGoverning(items).violated
                    /\ items[i].resetAt <= Limits!PickGoverning(items).resetAt
<1>0. \A i \in 1 .. n : items[i].resetAt \in Int /\ items[i].remaining \in Int
  BY DEF LimitItem
<1> DEFINE failing == {i \in 1 .. n : items[i].violated}
           Later(i) == \A j \in failing : items[j].resetAt <= items[i].resetAt
           Lesser(i) == \A j \in 1 .. n : items[i].remaining <= items[j].remaining
<1>1. Limits!PickGoverning(items) = IF failing # {} THEN items[CHOOSE i \in failing : Later(i)]
                             ELSE items[CHOOSE i \in 1 .. n : Lesser(i)]
  BY DEF Limits!PickGoverning
<1>2. CASE failing # {}
  <2>1. \E i \in failing : Later(i)
    <3> DEFINE s == [i \in 1 .. n |-> items[i].resetAt]
    <3>1. failing \in SUBSET (1 .. n) /\ \A i \in 1 .. n : s[i] = items[i].resetAt
      OBVIOUS
    <3>2. \A i \in failing : s[i] \in Int
      BY <1>0, <3>1
    <3>3. \E i \in failing : \A j \in failing : s[j] <= s[i]
      <4> HIDE DEF s, failing
      <4> QED BY <1>2, <3>1, <3>2, LimitLargest
    <3> QED BY <3>1, <3>3
  <2>2. PICK i : i = CHOOSE e \in failing : Later(e)
    OBVIOUS
  <2>3. i \in failing /\ Later(i)
    BY <2>1, <2>2
  <2>4. Limits!PickGoverning(items) = items[i]
    BY <1>1, <1>2, <2>2
  <2> QED BY <2>3, <2>4
<1>3. CASE failing = {}
  <2>1. \E i \in 1 .. n : Lesser(i)
    <3> DEFINE s == [i \in 1 .. n |-> items[i].remaining]
    <3>1. \A i \in 1 .. n : s[i] = items[i].remaining /\ s[i] \in Int
      BY <1>0
    <3>2. 1 .. n # {} /\ 1 .. n \in SUBSET (1 .. n)
      OBVIOUS
    <3>3. \E i \in 1 .. n : \A j \in 1 .. n : s[i] <= s[j]
      <4> HIDE DEF s
      <4> QED BY <3>1, <3>2, LimitSmallestOf
    <3> QED BY <3>1, <3>3
  <2>2. PICK i : i = CHOOSE e \in 1 .. n : Lesser(e)
    OBVIOUS
  <2>3. i \in 1 .. n
    BY <2>1, <2>2
  <2>4. Limits!PickGoverning(items) = items[i]
    BY <1>1, <1>3, <2>2
  <2> QED BY <1>3, <2>3, <2>4
<1> QED BY <1>2, <1>3

(* ------------------------------ Keys ------------------------------------- *)
\* An id finds the rules of any policy that has it: one id has one list.
LEMMA LimitRules ==
  ASSUME Limits!SitesHold, site \in Sites, NEW p \in Limits!PoliciesOf(site)
  PROVE  /\ Limits!EffectiveRules(p) \in Seq(Limits!LimitRule)
         /\ \A k : k.id = p.id => Limits!RuleOf(k) = Limits!EffectiveRules(p)[k.rule]
         /\ \A i \in DOMAIN Limits!EffectiveRules(p) : Limits!EffectiveRules(p)[i] \in Limits!LimitRule
<1>1. \A another \in Limits!PoliciesOf(site) : another.id = p.id
    => Limits!EffectiveRules(another) = Limits!EffectiveRules(p)
  BY DEF Limits!SitesHold, Limits!EffectiveRules
<1>2. Limits!EffectiveRules(p) \in Seq(Limits!LimitRule)
  BY DEF Limits!SitesHold, Limits!EffectiveRules
<1>3. ASSUME NEW k, k.id = p.id PROVE Limits!RuleOf(k) = Limits!EffectiveRules(p)[k.rule]
  <2>1. PICK another : another = CHOOSE x \in Limits!PoliciesOf(site) : x.id = k.id
    OBVIOUS
  <2>2. another \in Limits!PoliciesOf(site) /\ another.id = k.id
    BY <1>3, <2>1
  <2> QED BY <1>1, <1>3, <2>1, <2>2 DEF Limits!RuleOf
<1> QED BY <1>2, <1>3

\* The rule of a key, and the end of its window.
LEMMA LimitKeyRule ==
  ASSUME Limits!SitesHold, site \in Sites, NEW k, LimitKeyOK(k)
  PROVE  Limits!RuleOf(k) \in Limits!LimitRule /\ Limits!RuleOf(k).window \in Nat
         /\ 1 <= Limits!RuleOf(k).window /\ Limits!RuleOf(k).limit \in Nat
         /\ k.start \in Nat /\ LimitEnd(k) \in Nat
<1>1. PICK p \in Limits!PoliciesOf(site) : k.id = p.id /\ k.rule \in DOMAIN Limits!EffectiveRules(p)
  BY DEF LimitKeyOK
<1>2. Limits!RuleOf(k) \in Limits!LimitRule
  BY <1>1, LimitRules
<1> QED BY <1>2 DEF Limits!LimitRule, LimitKeyOK, LimitEnd

\* The policy a request is checked against.
LEMMA LimitChecked ==
  ASSUME Limits!SitesHold, site \in Sites, NEW q, q.route \in site.routes,
         q.due \subseteq DOMAIN q.route, q.due # {}
  PROVE  /\ DOMAIN q.route \subseteq Nat /\ Limits!Min(q.due) \in q.due
         /\ Limits!Checked(q) = q.route[Limits!Min(q.due)]
         /\ Limits!Checked(q) \in Limits!PoliciesOf(site)
         /\ Limits!EffectiveRules(Limits!Checked(q)) \in Seq(Limits!LimitRule)
<1>1. q.route \in Seq(Limits!PoliciesOf(site))
  BY DEF Limits!SitesHold
<1>2. DOMAIN q.route \subseteq Nat
  BY <1>1
<1>3. q.due \in SUBSET Nat
  BY <1>2
<1>4. Limits!Min(q.due) \in q.due
  BY <1>3, LimitMin
<1>5. Limits!Checked(q) \in Limits!PoliciesOf(site)
  BY <1>1, <1>4 DEF Limits!Checked
<1> QED BY <1>2, <1>4, <1>5, LimitRules DEF Limits!Checked

\* A hit counts in the window its clock lies in.
LEMMA LimitHit ==
  ASSUME Limits!SitesHold, site \in Sites, NEW q, q.route \in site.routes,
         q.due \subseteq DOMAIN q.route, q.due # {},
         q.clock \in Nat, NEW i \in DOMAIN Limits!EffectiveRules(Limits!Checked(q))
  PROVE  /\ Limits!HitKey(q, i).id = Limits!Checked(q).id /\ Limits!HitKey(q, i).rule = i
         /\ Limits!RuleOf(Limits!HitKey(q, i)) = Limits!HitRule(q, i)
         /\ Limits!HitRule(q, i) \in Limits!LimitRule
         /\ LimitKeyOK(Limits!HitKey(q, i))
         /\ Limits!HitKey(q, i).start <= q.clock /\ q.clock < LimitEnd(Limits!HitKey(q, i))
<1>1. PICK p : p = Limits!Checked(q)
  OBVIOUS
<1>2. p \in Limits!PoliciesOf(site) /\ Limits!EffectiveRules(p) \in Seq(Limits!LimitRule)
    /\ i \in DOMAIN Limits!EffectiveRules(p)
  BY <1>1, LimitChecked
<1>3. PICK rule : rule = Limits!EffectiveRules(p)[i]
  OBVIOUS
<1>4. rule \in Limits!LimitRule /\ rule = Limits!HitRule(q, i)
  BY <1>1, <1>2, <1>3, LimitRules DEF Limits!HitRule
<1>5. PICK subject : subject = Limits!Subject(p, q.caller)
  OBVIOUS
<1>6. PICK start : start = Limits!WindowStart(q.clock, rule)
  OBVIOUS
<1>7. PICK k : k = [id |-> p.id, subject |-> subject, rule |-> i, start |-> start]
  OBVIOUS
<1>8. Limits!HitKey(q, i) = k
  BY <1>1, <1>3, <1>5, <1>6, <1>7 DEF Limits!HitKey, Limits!Key
<1>9. k.id = p.id /\ k.rule = i /\ k.start = start
  BY <1>7
<1>10. start \in Nat /\ start <= q.clock /\ q.clock < start + rule.window
  BY <1>4, <1>6, LimitWindow
<1>11. Limits!RuleOf(k) = rule
  BY <1>2, <1>3, <1>9, LimitRules
<1> QED BY <1>1, <1>2, <1>4, <1>8, <1>9, <1>10, <1>11 DEF LimitKeyOK, LimitEnd

(* ------------------------------ Counters --------------------------------- *)
\* Now is before the last moment an increment of the window may come.
LimitPunctual(k) ==
    IF site.redis THEN \E v \in DOMAIN site.ahead : now + site.ahead[v] < LimitEnd(k) + site.lag
    ELSE now < LimitEnd(k)

\* An increment finds the counter of its window, if there is one.
LEMMA LimitFound ==
  ASSUME Limits!SitesHold, LimitCountersOK, NEW k, LimitKeyOK(k), LimitPunctual(k)
  PROVE  Limits!Count(k) = IF k \in DOMAIN counters THEN counters[k].count ELSE 0
<1>1. CASE k \notin DOMAIN counters
  BY <1>1 DEF Limits!Count, Limits!Absent, LimitCountersOK
<1>2. CASE k \in DOMAIN counters
  <2>1. PICK c : c = counters[k]
    OBVIOUS
  <2>2. LimitCounterOK(k, c)
    BY <1>2, <2>1 DEF LimitCountersOK
  <2>3. now < c.expires
    <3>1. now \in Nat /\ now <= LimitTime /\ LimitTime \in Nat /\ site \in Sites
      BY DEF LimitCountersOK, Limits!SitesHold
    <3>2. CASE c.expires = Limits!Forever
      BY <3>1, <3>2 DEF Limits!Forever
    <3>3. CASE c.expires \in Nat /\ LimitLasts(k, c.expires)
      <4>1. LimitEnd(k) \in Nat
        BY <3>1, LimitKeyRule
      <4>2. site.lag \in Nat /\ \A v \in DOMAIN site.ahead : site.ahead[v] \in Nat
        BY <3>1 DEF Limits!SitesHold
      <4>3. CASE site.redis
        <5>1. PICK v \in DOMAIN site.ahead : now + site.ahead[v] < LimitEnd(k) + site.lag
          BY <4>3 DEF LimitPunctual
        <5>2. LimitEnd(k) + site.lag <= c.expires + site.ahead[v]
          BY <3>3, <4>3 DEF LimitLasts
        <5>3. site.ahead[v] \in Nat /\ site.lag \in Nat
          BY <4>2
        <5> QED BY <3>1, <3>3, <4>1, <5>1, <5>2, <5>3
      <4>4. CASE ~site.redis
        BY <3>1, <3>3, <4>1, <4>4 DEF LimitPunctual, LimitLasts
      <4> QED BY <4>3, <4>4
    <3> QED BY <2>2, <3>2, <3>3 DEF LimitCounterOK
  <2>4. Limits!Count(k) = (IF c.expires > now THEN c.count ELSE 0)
    BY <1>2, <2>1 DEF Limits!Count
  <2>5. c.expires \in Int /\ now \in Int
    BY <2>2 DEF LimitCounterOK, LimitCountersOK, Limits!Forever, Limits!SitesHold
  <2> QED BY <1>2, <2>1, <2>3, <2>4, <2>5
<1> QED BY <1>1, <1>2

\* Counting a request on keys it was not counted on yet.
LimitCounts(r, ks) ==
    /\ DOMAIN counters' = DOMAIN counters \cup ks
    /\ \A k \in DOMAIN counters \ ks : counters'[k].count = counters[k].count
    /\ \A k \in ks : counters'[k].count = (IF k \in DOMAIN counters THEN counters[k].count ELSE 0) + 1

\* What a request is told, and that the others are told nothing.
LEMMA LimitTallied ==
  ASSUME LimitTallyOK, NEW r \in Request, NEW ks, Limits!Counted(r, ks)
  PROVE  /\ tally' = [x \in Request |-> tally'[x]]
         /\ \A x \in Request \ {r} : tally'[x] = tally[x]
         /\ DOMAIN tally'[r] = DOMAIN tally[r] \cup ks
         /\ \A k \in DOMAIN tally[r] \ ks : tally'[r][k] = tally[r][k]
         /\ \A k \in ks \ DOMAIN tally[r] : tally'[r][k] = {Limits!Count(k) + 1}
<1>1. tally = [x \in Request |-> tally[x]]
  BY DEF LimitTallyOK
<1>2. PICK t : t = [x \in DOMAIN tally[r] \cup ks |->
                      (IF x \in DOMAIN tally[r] THEN tally[r][x] ELSE {})
                          \cup (IF x \in ks THEN {Limits!Count(x) + 1} ELSE {})]
  OBVIOUS
<1>3. tally' = [tally EXCEPT ![r] = t]
  BY <1>2 DEF Limits!Counted
<1>4. tally'[r] = t /\ tally' = [x \in Request |-> tally'[x]]
    /\ \A x \in Request \ {r} : tally'[x] = tally[x]
  BY <1>1, <1>3
<1>5. DOMAIN t = DOMAIN tally[r] \cup ks
  BY <1>2
<1>6. \A k \in DOMAIN tally[r] \ ks : t[k] = tally[r][k]
  BY <1>2
<1>7. \A k \in ks \ DOMAIN tally[r] : t[k] = {Limits!Count(k) + 1}
  BY <1>2
<1> QED BY <1>4, <1>5, <1>6, <1>7

\* A count that goes up by one for each key is told to nobody else, and skips none.
LEMMA LimitCounted ==
  ASSUME LimitCountersOK, LimitTallyOK, NEW r \in Request, NEW ks, Limits!Counted(r, ks),
         LimitCounts(r, ks),
         \A k \in ks : k \notin DOMAIN tally[r],
         \A k \in ks : Limits!Count(k) = IF k \in DOMAIN counters THEN counters[k].count ELSE 0
  PROVE  LimitTallyOK'
<1> DEFINE N(k) == Limits!Count(k) + 1
<1>1. /\ tally' = [x \in Request |-> tally'[x]]
      /\ \A x \in Request \ {r} : tally'[x] = tally[x]
      /\ DOMAIN tally'[r] = DOMAIN tally[r] \cup ks
      /\ \A k \in DOMAIN tally[r] : tally'[r][k] = tally[r][k]
      /\ \A k \in ks : tally'[r][k] = {N(k)}
  <2>1. \A k \in DOMAIN tally[r] : k \notin ks
    OBVIOUS
  <2> QED BY <2>1, LimitTallied
<1>2. \A k \in ks : N(k) \in Nat /\ 1 <= N(k) /\ counters'[k].count = N(k)
  <2>1. \A k \in DOMAIN counters : counters[k].count \in Nat
    BY DEF LimitCountersOK, LimitCounterOK
  <2> QED BY <2>1 DEF LimitCounts
<1>3. /\ DOMAIN counters' = DOMAIN counters \cup ks
      /\ \A k \in DOMAIN counters : counters'[k].count = IF k \in ks THEN N(k) ELSE counters[k].count
  BY <1>2 DEF LimitCounts
<1>4. \A k \in DOMAIN counters : counters[k].count \in Nat /\ (k \in ks => N(k) = counters[k].count + 1)
  BY DEF LimitCountersOK, LimitCounterOK
<1> HIDE DEF N
<1>5. ASSUME NEW x \in Request, NEW k \in DOMAIN tally[x], NEW n \in tally[x][k]
      PROVE  /\ k \in DOMAIN counters /\ n \in Nat /\ 1 <= n /\ n <= counters[k].count
             /\ \A m \in tally[x][k] : m = n
             /\ \A another \in Request : LimitTold(tally[another], k, n) => another = x
             /\ n <= counters'[k].count /\ (k \in ks => n # N(k))
  <2>1. /\ k \in DOMAIN counters /\ n \in Nat /\ 1 <= n /\ n <= counters[k].count
        /\ \A m \in tally[x][k] : m = n
        /\ \A another \in Request : LimitTold(tally[another], k, n) => another = x
    BY <1>5 DEF LimitTallyOK
  <2> QED BY <2>1, <1>3, <1>4
<1>6. \A x \in Request : \A k, n : LimitTold(tally'[x], k, n) <=> LimitTold(tally[x], k, n)
    \/ (x = r /\ k \in ks /\ n = N(k))
  BY <1>1 DEF LimitTold
<1>7. ASSUME NEW x \in Request, NEW k \in DOMAIN tally'[x]
      PROVE k \in DOMAIN counters' /\ tally'[x][k] # {}
  <2>1. CASE k \in DOMAIN tally[x]
    BY <1>1, <1>3, <2>1 DEF LimitTallyOK
  <2>2. CASE x = r /\ k \in ks
    BY <1>1, <1>3, <2>2
  <2> QED BY <1>1, <2>1, <2>2
<1>8. ASSUME NEW x \in Request, NEW k \in DOMAIN tally'[x], NEW n \in tally'[x][k]
      PROVE  /\ n \in Nat /\ 1 <= n /\ n <= counters'[k].count
             /\ \A m \in tally'[x][k] : m = n
             /\ \A another \in Request : LimitTold(tally'[another], k, n) => another = x
  <2>1. CASE k \in DOMAIN tally[x]
    <3>1. tally'[x][k] = tally[x][k]
      BY <1>1, <2>1
    <3>2. ASSUME NEW another \in Request, LimitTold(tally'[another], k, n) PROVE another = x
      <4>1. LimitTold(tally[another], k, n) \/ (k \in ks /\ n = N(k))
        BY <1>6, <3>2
      <4> QED BY <1>5, <2>1, <3>1, <4>1
    <3> QED BY <1>5, <2>1, <3>1, <3>2
  <2>2. CASE x = r /\ k \in ks
    <3>1. tally'[x][k] = {N(k)} /\ n = N(k)
      BY <1>1, <2>2
    <3>2. ASSUME NEW another \in Request, LimitTold(tally'[another], k, n) PROVE another = x
      <4>1. CASE LimitTold(tally[another], k, n)
        <5>1. k \in DOMAIN tally[another] /\ n \in tally[another][k]
          BY <4>1 DEF LimitTold
        <5> QED BY <1>5, <2>2, <3>1, <5>1
      <4> QED BY <1>6, <2>2, <3>2, <4>1
    <3> QED BY <1>2, <2>2, <3>1, <3>2
  <2> QED BY <1>1, <2>1, <2>2
<1>9. ASSUME NEW k \in DOMAIN counters', NEW n \in 1 .. counters'[k].count
      PROVE \E x \in Request : LimitTold(tally'[x], k, n)
  <2>1. CASE k \in ks /\ n = N(k)
    BY <1>6, <2>1
  <2>2. CASE k \in DOMAIN counters /\ n \in 1 .. counters[k].count
    <3>1. PICK x \in Request : LimitTold(tally[x], k, n)
      BY <2>2 DEF LimitTallyOK
    <3> QED BY <1>6, <3>1
  <2>3. k \in ks \/ k \in DOMAIN counters
    BY <1>3
  <2>4. CASE k \in ks /\ k \in DOMAIN counters
    BY <1>2, <1>4, <2>1, <2>2, <2>4
  <2>5. CASE k \in ks /\ k \notin DOMAIN counters
    <3>1. N(k) = 1
      BY <2>5 DEF N
    <3> QED BY <1>2, <2>1, <2>5, <3>1
  <2>6. CASE k \notin ks
    BY <1>3, <1>4, <2>2, <2>3, <2>6
  <2> QED BY <2>4, <2>5, <2>6
<1> QED BY <1>1, <1>7, <1>8, <1>9 DEF LimitTallyOK

(* ------------------------------ Decisions -------------------------------- *)
\* What a request is when nothing is on its way for it.
LimitSettled(q, t) ==
    /\ LimitIsRequest(q) /\ LimitPlanOK(q) /\ q.route \in site.routes /\ q.server \in DOMAIN site.ahead
    /\ q.verdicts = <<>> /\ q.waits = {} /\ q.untimed = {}
    /\ \A k \in DOMAIN t, i \in DOMAIN q.route :
           i \in q.due \/ (\E n \in q.todo : i \in Limits!Owned(q.route, Limits!Interceptors[n]))
               => q.route[i].id # k.id
    /\ LimitItemsOK(q, t)

\* The one decision of a phase keeps what the items of its checks have shown.
LEMMA LimitDecide ==
  ASSUME NEW q, NEW t, LimitSettled(q, t), q.due = {}, \A k \in DOMAIN t : LimitEnd(k) \in Int
  PROVE  LimitRequestInv(Limits!Decide(q), t)
<1> DEFINE d == IF q.decisions = <<>> THEN <<>> ELSE <<Limits!PickGoverning(q.decisions)>>
<1>1. /\ d \in Seq(LimitItem)
      /\ d = <<>> => q.decisions = <<>>
      /\ d # <<>> => DOMAIN d = {1} /\ Len(d) = 1
      /\ \A i \in DOMAIN d : \E j \in DOMAIN q.decisions : d[i] = q.decisions[j]
      /\ \A j \in DOMAIN q.decisions : q.decisions[j].violated =>
             d # <<>> /\ d[1].violated /\ q.decisions[j].resetAt <= d[1].resetAt
  <2>1. CASE q.decisions = <<>>
    <3>1. d = <<>>
      BY <2>1
    <3> HIDE DEF d
    <3> QED BY <2>1, <3>1
  <2>2. CASE q.decisions # <<>>
    <3>1. PICK n \in Nat \ {0} : DOMAIN q.decisions = 1 .. n
        /\ \A i \in 1 .. n : q.decisions[i] \in LimitItem
      <4>1. q.decisions \in Seq(LimitItem)
        BY DEF LimitSettled, LimitItemsOK
      <4>2. Len(q.decisions) \in Nat \ {0} /\ DOMAIN q.decisions = 1 .. Len(q.decisions)
        BY <2>2, <4>1
      <4> QED BY <4>1, <4>2
    <3>2. PICK g : g = Limits!PickGoverning(q.decisions)
      OBVIOUS
    <3>3. /\ \E i \in 1 .. n : g = q.decisions[i]
          /\ \A i \in 1 .. n : q.decisions[i].violated => g.violated
             /\ q.decisions[i].resetAt <= g.resetAt
      BY <3>1, <3>2, LimitGoverning
    <3>4. d = <<g>> /\ g \in LimitItem
      BY <2>2, <3>1, <3>2, <3>3
    <3>5. d \in Seq(LimitItem) /\ DOMAIN d = {1} /\ d[1] = g /\ Len(d) = 1 /\ d # <<>>
      <4> HIDE DEF d
      <4> QED BY <3>4
    <3> HIDE DEF d
    <3> QED BY <2>2, <3>1, <3>3, <3>5
  <2> QED BY <2>1, <2>2
<1>2. PICK at : at = IF d # <<>> /\ d[1].violated THEN "rejected"
                   ELSE IF q.todo = {} THEN "served" ELSE "between"
  OBVIOUS
<1>3. PICK x : x = [q EXCEPT !.at = at, !.decisions = d]
  OBVIOUS
<1>4. Limits!Decide(q) = x
  BY <1>2, <1>3 DEF Limits!Decide
<1> HIDE DEF d
<1>5. /\ LimitIsRequest(x) /\ x.at = at /\ x.decisions = d
      /\ x.server = q.server /\ x.route = q.route /\ x.todo = q.todo /\ x.due = q.due
      /\ x.waits = q.waits /\ x.untimed = q.untimed /\ x.verdicts = q.verdicts
  <2>1. q = [at |-> q.at, server |-> q.server, route |-> q.route, caller |-> q.caller, todo |-> q.todo,
         due |-> q.due, clock |-> q.clock, started |-> q.started, waits |-> q.waits,
         untimed |-> q.untimed, verdicts |-> q.verdicts, decisions |-> q.decisions]
    BY DEF LimitSettled, LimitIsRequest
  <2> QED BY <2>1, <1>3 DEF LimitIsRequest
<1>6. LimitPlanOK(x) /\ LimitPlaceOK(x)
  BY <1>2, <1>5 DEF LimitSettled, LimitPlanOK, LimitPlaceOK
<1>7. LimitAheadOK(x, t)
  BY <1>2, <1>5 DEF LimitSettled, LimitAheadOK, LimitAhead
<1>8. LimitItemsOK(x, t)
  <2>1. \A k \in DOMAIN t : LimitOver(t, k)
      => \E i \in DOMAIN q.decisions : LimitShows(q.decisions[i], k)
    BY DEF LimitSettled, LimitItemsOK, LimitShown
  <2>2. ASSUME NEW k \in DOMAIN t, LimitOver(t, k) PROVE LimitShown(x, k)
    <3>1. PICK i \in DOMAIN q.decisions : q.decisions[i].violated
        /\ LimitEnd(k) <= q.decisions[i].resetAt
      BY <2>1, <2>2 DEF LimitShows
    <3>2. q.decisions[i].resetAt <= d[1].resetAt /\ d[1].violated /\ 1 \in DOMAIN d
      BY <1>1, <3>1
    <3>3. LimitEnd(k) \in Int /\ q.decisions[i].resetAt \in Int /\ d[1].resetAt \in Int
      <4>1. q.decisions[i] \in LimitItem /\ d[1] \in LimitItem
        BY <1>1, <3>1, <3>2 DEF LimitSettled, LimitItemsOK
      <4> QED BY <2>2, <4>1 DEF LimitItem
    <3>4. LimitEnd(k) <= d[1].resetAt
      BY <3>1, <3>2, <3>3
    <3> QED BY <1>5, <3>2, <3>4 DEF LimitShown, LimitShows
  <2>3. \A i \in DOMAIN x.decisions : x.decisions[i].violated => \E k \in DOMAIN t : LimitOver(t, k)
    BY <1>1, <1>5 DEF LimitSettled, LimitItemsOK
  <2>4. DOMAIN x.verdicts = {}
    BY <1>5 DEF LimitSettled
  <2> QED BY <1>1, <1>5, <2>2, <2>3, <2>4 DEF LimitItemsOK
<1>9. LimitOutcomeOK(x, t)
  BY <1>1, <1>2, <1>5 DEF LimitOutcomeOK
<1> QED BY <1>2, <1>4, <1>5, <1>6, <1>7, <1>8, <1>9 DEF LimitRequestInv, LimitLabel

\* All the hits of a check have been answered.
LimitAllHit(q, t) ==
    /\ LimitIsRequest(q) /\ LimitPlanOK(q) /\ q.route \in site.routes /\ q.server \in DOMAIN site.ahead
    /\ q.due # {} /\ q.waits = {} /\ q.untimed = {}
    /\ DOMAIN q.verdicts = DOMAIN Limits!EffectiveRules(Limits!Checked(q))
    /\ \A i \in DOMAIN q.verdicts : q.verdicts[i] \in LimitItem
    /\ \A k \in DOMAIN t, i \in DOMAIN q.route :
           i \in q.due \ {Limits!Min(q.due)}
               \/ (\E n \in q.todo : i \in Limits!Owned(q.route, Limits!Interceptors[n]))
                  => q.route[i].id # k.id
    /\ LimitItemsOK(q, t)

\* So does the one item that is kept of the verdicts of a check.
LEMMA LimitSettle ==
  ASSUME Limits!SitesHold, site \in Sites, NEW q, NEW t, LimitAllHit(q, t),
         \A k \in DOMAIN t : LimitEnd(k) \in Int
  PROVE  LimitRequestInv(Limits!Settle(q), t)
<1>1. PICK g : g = Limits!PickGoverning(q.verdicts)
  OBVIOUS
<1>2. PICK n \in Nat \ {0} : DOMAIN q.verdicts = 1 .. n
  <2>1. Limits!EffectiveRules(Limits!Checked(q)) \in Seq(Limits!LimitRule)
      /\ Limits!Checked(q) = q.route[Limits!Min(q.due)] /\ Limits!Min(q.due) \in q.due
    BY LimitChecked DEF LimitAllHit, LimitPlanOK
  <2>2. Limits!EffectiveRules(Limits!Checked(q)) # <<>>
    BY <2>1 DEF LimitAllHit, LimitPlanOK
  <2>3. PICK rules \in Seq(Limits!LimitRule) : rules = Limits!EffectiveRules(Limits!Checked(q))
    BY <2>1
  <2>4. DOMAIN rules = 1 .. Len(rules) /\ Len(rules) \in Nat \ {0}
    BY <2>2, <2>3
  <2> QED BY <2>3, <2>4 DEF LimitAllHit
<1>3. /\ \E i \in 1 .. n : g = q.verdicts[i]
      /\ \A i \in 1 .. n : q.verdicts[i].violated => g.violated /\ q.verdicts[i].resetAt <= g.resetAt
      /\ g \in LimitItem
  <2>1. \A i \in 1 .. n : q.verdicts[i] \in LimitItem
    BY <1>2 DEF LimitAllHit
  <2>2. /\ \E i \in 1 .. n : g = q.verdicts[i]
        /\ \A i \in 1 .. n : q.verdicts[i].violated => g.violated /\ q.verdicts[i].resetAt <= g.resetAt
    BY <1>1, <1>2, <2>1, LimitGoverning
  <2> QED BY <2>1, <2>2
<1>4. PICK ds : ds = Append(q.decisions, g)
  OBVIOUS
<1>5. PICK m \in Nat : DOMAIN q.decisions = 1 .. m
  <2>1. q.decisions \in Seq(LimitItem)
    BY DEF LimitAllHit, LimitItemsOK
  <2> QED BY <2>1
<1>6. ds \in Seq(LimitItem) /\ DOMAIN ds = 1 .. (m + 1) /\ ds[m + 1] = g
    /\ \A i \in 1 .. m : ds[i] = q.decisions[i]
  <2>1. q.decisions \in Seq(LimitItem) /\ Len(q.decisions) = m
    <3>1. q.decisions \in Seq(LimitItem)
      BY DEF LimitAllHit, LimitItemsOK
    <3> QED BY <1>5, <3>1
  <2> QED BY <1>3, <1>4, <2>1
<1>7. PICK x : x = [q EXCEPT !.due = @ \ {Limits!Min(@)}, !.verdicts = <<>>, !.clock = 0, !.started = 0,
                             !.at = "checks", !.decisions = ds]
  OBVIOUS
<1>8. Limits!Settle(q) = IF x.due = {} THEN Limits!Decide(x) ELSE x
  BY <1>1, <1>4, <1>7 DEF Limits!Settle, LimitAllHit
<1>9. /\ LimitIsRequest(x) /\ x.at = "checks" /\ x.decisions = ds /\ x.due = q.due \ {Limits!Min(q.due)}
      /\ x.verdicts = <<>>
      /\ x.server = q.server /\ x.route = q.route /\ x.todo = q.todo
      /\ x.waits = q.waits /\ x.untimed = q.untimed
  <2>1. q = [at |-> q.at, server |-> q.server, route |-> q.route, caller |-> q.caller, todo |-> q.todo,
         due |-> q.due, clock |-> q.clock, started |-> q.started, waits |-> q.waits,
         untimed |-> q.untimed, verdicts |-> q.verdicts, decisions |-> q.decisions]
    BY DEF LimitAllHit, LimitIsRequest
  <2> QED BY <2>1, <1>7 DEF LimitIsRequest
<1>10. LimitPlanOK(x)
  BY <1>9 DEF LimitAllHit, LimitPlanOK
<1>11. LimitItemsOK(x, t)
  <2>1. ASSUME NEW k \in DOMAIN t, LimitOver(t, k) PROVE \E i \in DOMAIN ds : LimitShows(ds[i], k)
    <3>1. LimitShown(q, k)
      BY <2>1 DEF LimitAllHit, LimitItemsOK
    <3>2. CASE \E i \in DOMAIN q.decisions : LimitShows(q.decisions[i], k)
      <4>1. PICK i \in 1 .. m : LimitShows(q.decisions[i], k)
        BY <1>5, <3>2
      <4>2. i \in 1 .. (m + 1)
        OBVIOUS
      <4> QED BY <1>6, <4>1, <4>2
    <3>3. CASE \E i \in DOMAIN q.verdicts \ q.waits : LimitShows(q.verdicts[i], k)
      <4>1. PICK i \in 1 .. n : LimitShows(q.verdicts[i], k)
        BY <1>2, <3>3
      <4>2. g.violated /\ q.verdicts[i].resetAt <= g.resetAt /\ LimitEnd(k) <= q.verdicts[i].resetAt
        BY <1>3, <4>1 DEF LimitShows
      <4>3. LimitEnd(k) \in Int /\ g.resetAt \in Int /\ q.verdicts[i].resetAt \in Int
        <5>1. q.verdicts[i] \in LimitItem
          BY <1>2 DEF LimitAllHit
        <5> QED BY <1>3, <2>1, <5>1 DEF LimitItem
      <4>4. LimitShows(g, k)
        BY <4>2, <4>3 DEF LimitShows
      <4>5. m + 1 \in 1 .. (m + 1)
        OBVIOUS
      <4> QED BY <1>6, <4>4, <4>5
    <3> QED BY <3>1, <3>2, <3>3 DEF LimitShown
  <2>2. ASSUME NEW i \in DOMAIN ds, ds[i].violated PROVE \E k \in DOMAIN t : LimitOver(t, k)
    <3>1. CASE i \in 1 .. m
      <4>1. i \in DOMAIN q.decisions /\ q.decisions[i].violated
        BY <1>5, <1>6, <2>2, <3>1
      <4> QED BY <4>1 DEF LimitAllHit, LimitItemsOK
    <3>2. CASE i = m + 1
      <4>1. PICK j \in DOMAIN q.verdicts : q.verdicts[j].violated
        BY <1>2, <1>3, <1>6, <2>2, <3>2
      <4> QED BY <4>1 DEF LimitAllHit, LimitItemsOK
    <3>3. i \in 1 .. m \/ i = m + 1
      BY <1>6
    <3> QED BY <3>1, <3>2, <3>3
  <2>3. DOMAIN x.verdicts = {}
    BY <1>9
  <2> QED BY <1>6, <1>9, <2>1, <2>2, <2>3 DEF LimitItemsOK, LimitShown
<1>12. LimitSettled(x, t)
  <2>1. \A k \in DOMAIN t, i \in DOMAIN x.route :
           i \in x.due \/ (\E j \in x.todo : i \in Limits!Owned(x.route, Limits!Interceptors[j]))
               => x.route[i].id # k.id
    BY <1>9 DEF LimitAllHit
  <2> QED BY <1>9, <1>10, <1>11, <2>1 DEF LimitSettled, LimitAllHit
<1>13. CASE x.due = {}
  BY <1>8, <1>12, <1>13, LimitDecide
<1>14. CASE x.due # {}
  <2>1. Limits!Settle(q) = x
    BY <1>8, <1>14
  <2>2. LimitPlaceOK(x)
    BY <1>9, <1>14 DEF LimitAllHit, LimitPlaceOK
  <2>3. LimitAheadOK(x, t)
    BY <1>9, <1>12 DEF LimitSettled, LimitAheadOK, LimitAhead
  <2>4. LimitOutcomeOK(x, t)
    BY <1>9 DEF LimitOutcomeOK
  <2> QED BY <1>9, <1>10, <1>11, <2>1, <2>2, <2>3, <2>4 DEF LimitRequestInv, LimitLabel
<1> QED BY <1>13, <1>14

(* ------------------------------ Requests --------------------------------- *)
\* What holds of a request goes on holding of it while the clock moves on.
LEMMA LimitStays ==
  ASSUME site' = site, now \in Nat, NEW q, NEW t, LimitRequestInv(q, t), site \in Sites,
         Limits!SitesHold,
         now' = now \/ (now' = now + 1 /\ (q.at = "hits" => now < q.started + site.lag))
  PROVE  LimitRequestInv(q, t)'
<1>1. \A p : Limits!EffectiveRules(p)' = Limits!EffectiveRules(p)
  BY DEF Limits!EffectiveRules, Limits!RulesAt
<1>2. Limits!Interceptors' = Limits!Interceptors
  BY DEF Limits!Interceptors
<1>3. \A k : Limits!RuleOf(k)' = Limits!RuleOf(k)
  BY <1>1 DEF Limits!RuleOf, Limits!EffectiveRules
<1>4. \A k : LimitEnd(k)' = LimitEnd(k) /\ (LimitOver(t, k)' <=> LimitOver(t, k))
  BY <1>3 DEF LimitEnd, LimitOver, Limits!RuleOf, Limits!EffectiveRules
<1>5. LimitPlanOK(q) => LimitPlanOK(q)'
  BY <1>1, <1>2 DEF LimitPlanOK, Limits!Interceptors, Limits!EffectiveRules
<1>6. LimitPlaceOK(q) => LimitPlaceOK(q)'
  BY DEF LimitPlaceOK
<1>7. \A i : Limits!Owned(q.route, i)' = Limits!Owned(q.route, i)
  BY <1>1 DEF Limits!Owned, Limits!EffectiveRules
<1>8. LimitAheadOK(q, t) => LimitAheadOK(q, t)'
  BY <1>2, <1>7 DEF LimitAheadOK, LimitAhead, Limits!Interceptors, Limits!Owned, Limits!EffectiveRules
<1>9. LimitItemsOK(q, t) => LimitItemsOK(q, t)'
  BY <1>4 DEF LimitItemsOK, LimitShown, LimitShows, LimitOver, LimitEnd, Limits!RuleOf,
      Limits!EffectiveRules
<1>10. LimitOutcomeOK(q, t) => LimitOutcomeOK(q, t)'
  BY DEF LimitOutcomeOK
<1>11. q.at = "hits" /\ LimitHitsOK(q) => LimitHitsOK(q)'
  <2> SUFFICES ASSUME q.at = "hits", LimitHitsOK(q) PROVE LimitHitsOK(q)'
    OBVIOUS
  <2>1. Limits!EffectiveRules(Limits!Checked(q))' = Limits!EffectiveRules(Limits!Checked(q))
    BY <1>1 DEF Limits!EffectiveRules, Limits!Checked
  <2>2. q.started \in Nat /\ site.lag \in Nat /\ q.started <= now /\ now <= q.started + site.lag
    BY DEF LimitHitsOK, Limits!SitesHold
  <2>3. q.started <= now' /\ now' <= q.started + site.lag
    BY <2>2
  <2> QED BY <2>1, <2>3 DEF LimitHitsOK, Limits!EffectiveRules, Limits!Checked
<1> QED BY <1>5, <1>6, <1>8, <1>9, <1>10, <1>11 DEF LimitRequestInv

\* The same of the request that is there after the step.
LEMMA LimitIs ==
  ASSUME NEW x \in Request, NEW q, NEW t, q = req'[x], t = tally'[x], LimitRequestInv(q, t)'
  PROVE  LimitRequestInv(req[x], tally[x])'
<1>1. LimitIsRequest(q)' <=> LimitIsRequest(req[x])'
  BY DEF LimitIsRequest
<1>2. LimitPlanOK(q)' <=> LimitPlanOK(req[x])'
  BY DEF LimitPlanOK, Limits!Interceptors, Limits!EffectiveRules, Limits!RulesAt
<1>3. LimitPlaceOK(q)' <=> LimitPlaceOK(req[x])'
  BY DEF LimitPlaceOK
<1>4. LimitAheadOK(q, t)' <=> LimitAheadOK(req[x], tally[x])'
  BY DEF LimitAheadOK, LimitAhead, Limits!Owned, Limits!Interceptors, Limits!EffectiveRules,
      Limits!RulesAt, Limits!Checked
<1>5. LimitItemsOK(q, t)' <=> LimitItemsOK(req[x], tally[x])'
  BY DEF LimitItemsOK, LimitShown, LimitShows, LimitOver, LimitEnd, Limits!RuleOf,
      Limits!EffectiveRules, Limits!RulesAt
<1>6. LimitOutcomeOK(q, t)' <=> LimitOutcomeOK(req[x], tally[x])'
  BY DEF LimitOutcomeOK
<1>7. LimitHitsOK(q)' <=> LimitHitsOK(req[x])'
  BY DEF LimitHitsOK, Limits!Checked, Limits!EffectiveRules, Limits!RulesAt
<1> QED BY <1>1, <1>2, <1>3, <1>4, <1>5, <1>6, <1>7 DEF LimitRequestInv

\* One request moves on and the others stay as they are.
LEMMA LimitMoves ==
  ASSUME Limits!SitesHold, LimitInv, NEW r \in Request, NEW q, req' = [req EXCEPT ![r] = q],
         UNCHANGED <<site, now>>,
         NEW t, t = tally'[r], \A x \in Request \ {r} : tally'[x] = tally[x], LimitRequestInv(q, t)
  PROVE  LimitRequestsOK'
<1>1. now \in Nat /\ site \in Sites
  BY DEF LimitInv, LimitCountersOK
<1>2. req' = [x \in Request |-> req'[x]] /\ req'[r] = q /\ \A x \in Request \ {r} : req'[x] = req[x]
  BY DEF LimitInv, LimitRequestsOK
<1>3. ASSUME NEW x \in Request PROVE LimitRequestInv(req[x], tally[x])'
  <2>1. CASE x = r
    <3>1. LimitRequestInv(q, t)'
      BY <1>1, LimitStays
    <3> QED BY <1>2, <2>1, <3>1, LimitIs
  <2>2. CASE x # r
    <3>1. PICK p, s : p = req[x] /\ s = tally[x]
      OBVIOUS
    <3>2. LimitRequestInv(p, s)
      BY <3>1 DEF LimitInv, LimitRequestsOK
    <3>3. LimitRequestInv(p, s)'
      BY <1>1, <3>2, LimitStays
    <3>4. p = req'[x] /\ s = tally'[x]
      BY <1>2, <2>2, <3>1
    <3> QED BY <3>3, <3>4, LimitIs
  <2> QED BY <2>1, <2>2
<1> QED BY <1>2, <1>3 DEF LimitRequestsOK

\* Keys and counters are judged by the deployment, which is constant.
LEMMA LimitKeyStays ==
  ASSUME site' = site, NEW k, NEW c
  PROVE  (LimitKeyOK(k)' <=> LimitKeyOK(k)) /\ (LimitCounterOK(k, c)' <=> LimitCounterOK(k, c))
<1>1. \A p : Limits!EffectiveRules(p)' = Limits!EffectiveRules(p)
  BY DEF Limits!EffectiveRules, Limits!RulesAt
<1>2. LimitEnd(k)' = LimitEnd(k)
  BY <1>1 DEF LimitEnd, Limits!RuleOf, Limits!EffectiveRules
<1>3. LimitKeyOK(k)' <=> LimitKeyOK(k)
  BY <1>1 DEF LimitKeyOK, Limits!EffectiveRules
<1> QED BY <1>2, <1>3 DEF LimitCounterOK, LimitLasts, LimitKeyOK, LimitEnd, Limits!RuleOf,
    Limits!EffectiveRules

\* Nothing is counted.
LEMMA LimitQuiet ==
  ASSUME LimitInv, UNCHANGED <<site, counters, tally>>, now' \in Nat, now' <= LimitTime
  PROVE  LimitCountersOK' /\ LimitTallyOK'
<1>1. ASSUME NEW k \in DOMAIN counters PROVE LimitCounterOK(k, counters[k])'
  <2>1. PICK c : c = counters[k]
    OBVIOUS
  <2>2. LimitCounterOK(k, c)'
    BY <2>1, LimitKeyStays DEF LimitInv, LimitCountersOK
  <2>3. c = counters'[k]
    BY <2>1
  <2> QED BY <2>2, <2>3, Zenon DEF LimitCounterOK, LimitKeyOK, LimitLasts, LimitEnd, Limits!RuleOf,
      Limits!EffectiveRules, Limits!RulesAt
<1>2. LimitCountersOK'
  <2>1. /\ site' \in Sites /\ counters' = [k \in DOMAIN counters' |-> counters'[k]]
        /\ counters' = counters
    BY DEF LimitInv, LimitCountersOK
  <2>2. \A k \in DOMAIN counters' : LimitCounterOK(k, counters[k])'
    BY <1>1, <2>1
  <2> QED BY <2>1, <2>2, Zenon DEF LimitCountersOK, LimitCounterOK, LimitKeyOK, LimitLasts, LimitEnd,
      Limits!RuleOf, Limits!EffectiveRules, Limits!RulesAt
<1>3. LimitTallyOK'
  BY DEF LimitInv, LimitTallyOK, LimitTold
<1> QED BY <1>2, <1>3

\* A step that moves one request on and counts nothing.
LEMMA LimitOnlyMoves ==
  ASSUME Limits!SitesHold, LimitInv, NEW r \in Request, NEW q, req' = [req EXCEPT ![r] = q],
         UNCHANGED <<site, now, counters, tally>>, LimitRequestInv(q, tally[r])
  PROVE  LimitInv'
<1>1. LimitCountersOK' /\ LimitTallyOK'
  BY LimitQuiet DEF LimitInv, LimitCountersOK
<1>2. PICK t : t = tally[r]
  OBVIOUS
<1>3. LimitRequestInv(q, t)
  BY <1>2
<1>4. LimitRequestsOK'
  BY <1>2, <1>3, LimitMoves
<1> QED BY <1>1, <1>4 DEF LimitInv

\* A request arrives, with every phase that has policies to do.
LEMMA LimitArriveStep ==
  ASSUME Limits!SitesHold, LimitInv, NEW r \in Request, Limits!Arrive(r)
  PROVE  LimitInv'
<1>1. PICK route \in site.routes, caller \in site.callers, server \in DOMAIN site.ahead :
         req' = [req EXCEPT ![r] = Limits!Decide([Limits!Fresh EXCEPT !.server = server,
             !.route = route,
                       !.caller = caller, !.todo = Limits!Evaluations(route)])]
  BY DEF Limits!Arrive
<1>2. PICK q : q = [Limits!Fresh EXCEPT !.server = server, !.route = route, !.caller = caller,
    !.todo = Limits!Evaluations(route)]
  OBVIOUS
<1>3. site \in Sites
  BY DEF LimitInv, LimitCountersOK
<1>4. LimitIsRequest(q) /\ q.server = server /\ q.route = route /\ q.todo = Limits!Evaluations(route)
    /\ q.due = {}
      /\ q.waits = {} /\ q.untimed = {} /\ q.verdicts = <<>> /\ q.decisions = <<>>
  BY <1>2 DEF Limits!Fresh, LimitIsRequest
<1>5. DOMAIN tally[r] = {}
  BY DEF Limits!Arrive, LimitInv, LimitRequestsOK, LimitRequestInv, LimitOutcomeOK
<1>6. LimitPlanOK(q)
  <2>1. \A n, m \in Limits!Evaluations(route) : n \in Nat /\ m \in Nat /\ 1 <= n /\ 1 <= m
    BY <1>3 DEF Limits!Evaluations, Limits!Interceptors, Limits!SitesHold
  <2>2. ASSUME NEW n \in Limits!Evaluations(route), NEW m \in Limits!Evaluations(route),
      Limits!Interceptors[n] = Limits!Interceptors[m]
        PROVE  n = m
    <3>1. ~(n < m) /\ ~(m < n)
      <4>1. n < m => n \in 1 .. (m - 1)
        BY <2>1
      <4>2. m < n => m \in 1 .. (n - 1)
        BY <2>1
      <4> QED BY <2>2, <4>1, <4>2 DEF Limits!Evaluations
    <3> QED BY <2>1, <3>1
  <2>3. Limits!Evaluations(route) \subseteq DOMAIN Limits!Interceptors
    BY DEF Limits!Evaluations
  <2> QED BY <1>4, <2>2, <2>3 DEF LimitPlanOK
<1>7. LimitItemsOK(q, tally[r])
  BY <1>4, <1>5 DEF LimitItemsOK
<1>8. LimitSettled(q, tally[r])
  BY <1>1, <1>4, <1>5, <1>6, <1>7 DEF LimitSettled
<1>9. LimitRequestInv(Limits!Decide(q), tally[r])
  BY <1>4, <1>5, <1>8, LimitDecide
<1>10. req' = [req EXCEPT ![r] = Limits!Decide(q)]
  BY <1>1, <1>2
<1> QED BY <1>9, <1>10, LimitOnlyMoves DEF Limits!Arrive

\* The keys a request was counted on have a start and an end.
LEMMA LimitTallyKeys ==
  ASSUME Limits!SitesHold, LimitInv, NEW r \in Request, NEW k \in DOMAIN tally[r]
  PROVE  LimitKeyOK(k) /\ LimitEnd(k) \in Int
<1>1. k \in DOMAIN counters /\ site \in Sites
  BY DEF LimitInv, LimitTallyOK, LimitCountersOK
<1>2. LimitKeyOK(k)
  BY <1>1 DEF LimitInv, LimitCountersOK, LimitCounterOK
<1> QED BY <1>1, <1>2, LimitKeyRule

\* Interceptors are numbered.
LEMMA LimitInterceptors ==
  ASSUME Limits!SitesHold, site \in Sites
  PROVE  DOMAIN Limits!Interceptors \in SUBSET Nat
<1>1. site.attached \in Nat
  BY DEF Limits!SitesHold
<1> QED BY <1>1 DEF Limits!Interceptors

\* A phase is evaluated: its policies become those that are due.
LEMMA LimitEvaluateStep ==
  ASSUME Limits!SitesHold, LimitInv, NEW r \in Request, Limits!Evaluate(r)
  PROVE  LimitInv'
<1>1. PICK p : p = req[r]
  OBVIOUS
<1>2. PICK t : t = tally[r]
  OBVIOUS
<1>3. p.at = "between" /\ LimitRequestInv(p, t) /\ site \in Sites
  BY <1>1, <1>2 DEF Limits!Evaluate, LimitInv, LimitRequestsOK, LimitCountersOK
<1>4. PICK n : n = Limits!Min(p.todo)
  OBVIOUS
<1>5. n \in p.todo /\ Limits!Phase(p) = Limits!Interceptors[n]
  <2>1. p.todo \in SUBSET Nat /\ p.todo # {}
    BY <1>3, LimitInterceptors DEF LimitRequestInv, LimitPlanOK, LimitPlaceOK
  <2> QED BY <1>4, <2>1, LimitMin DEF Limits!Phase
<1>6. PICK due : due = Limits!Due(p, Limits!Phase(p))
  OBVIOUS
<1>7. PICK q : q = [p EXCEPT !.todo = @ \ {Limits!Min(@)}, !.due = due]
  OBVIOUS
<1>8. req' = [req EXCEPT ![r] = IF q.due = {} THEN Limits!Decide(q) ELSE [q EXCEPT !.at = "checks"]]
  BY <1>1, <1>6, <1>7 DEF Limits!Evaluate
<1>9. /\ LimitIsRequest(q) /\ q.at = "between" /\ q.server = p.server /\ q.route = p.route
      /\ q.todo = p.todo \ {n}
      /\ q.due = due /\ q.waits = {} /\ q.untimed = {} /\ q.verdicts = <<>> /\ q.decisions = p.decisions
  BY <1>3, <1>4, <1>7 DEF LimitRequestInv, LimitIsRequest, LimitPlaceOK
<1>10. \A i \in due : i \in Limits!Owned(p.route, Limits!Interceptors[n])
  BY <1>5, <1>6 DEF Limits!Due
<1>11. LimitPlanOK(q)
  BY <1>3, <1>5, <1>9, <1>10 DEF LimitRequestInv, LimitPlanOK, Limits!Owned
<1>12. p.route \in site.routes /\ p.server \in DOMAIN site.ahead /\ LimitAheadOK(p, t)
    /\ LimitItemsOK(p, t) /\ LimitOutcomeOK(p, t)
       /\ p.waits = {} /\ p.verdicts = <<>>
  BY <1>3 DEF LimitRequestInv, LimitPlaceOK
<1>13. \A k \in DOMAIN t, i \in DOMAIN q.route :
           i \in q.due \/ (\E m \in q.todo : i \in Limits!Owned(q.route, Limits!Interceptors[m]))
               => q.route[i].id # k.id
  <2>1. \A i \in DOMAIN q.route :
           i \in q.due \/ (\E m \in q.todo : i \in Limits!Owned(q.route, Limits!Interceptors[m]))
               => i \in LimitAhead(p)
    BY <1>5, <1>9, <1>10 DEF LimitAhead
  <2> QED BY <1>9, <1>12, <2>1 DEF LimitAheadOK
<1>14. LimitItemsOK(q, t)
  BY <1>9, <1>12 DEF LimitItemsOK, LimitShown
<1>15. LimitSettled(q, t)
  BY <1>9, <1>11, <1>12, <1>13, <1>14 DEF LimitSettled
<1>16. CASE q.due = {}
  <2>1. \A k \in DOMAIN t : LimitEnd(k) \in Int
    BY <1>2, LimitTallyKeys
  <2>2. LimitRequestInv(Limits!Decide(q), tally[r])
    BY <1>2, <1>15, <1>16, <2>1, LimitDecide
  <2> QED BY <1>8, <1>16, <2>2, LimitOnlyMoves DEF Limits!Evaluate
<1>17. CASE q.due # {}
  <2>1. PICK x : x = [q EXCEPT !.at = "checks"]
    OBVIOUS
  <2>2. /\ LimitIsRequest(x) /\ x.at = "checks" /\ x.server = q.server /\ x.route = q.route
        /\ x.todo = q.todo
        /\ x.due = q.due /\ x.waits = {} /\ x.untimed = {} /\ x.verdicts = <<>>
        /\ x.decisions = q.decisions
    BY <1>9, <2>1 DEF LimitIsRequest
  <2>3. LimitPlanOK(x) /\ LimitPlaceOK(x)
    BY <1>9, <1>11, <1>12, <1>17, <2>2 DEF LimitPlanOK, LimitPlaceOK
  <2>4. LimitAheadOK(x, t)
    BY <1>13, <2>2 DEF LimitAheadOK, LimitAhead
  <2>5. LimitItemsOK(x, t) /\ LimitOutcomeOK(x, t)
    BY <1>9, <1>14, <2>2 DEF LimitItemsOK, LimitOutcomeOK, LimitShown
  <2>6. LimitRequestInv(x, t)
    BY <2>2, <2>3, <2>4, <2>5 DEF LimitRequestInv, LimitLabel
  <2> QED BY <1>2, <1>8, <1>17, <2>1, <2>6, LimitOnlyMoves DEF Limits!Evaluate
<1> QED BY <1>16, <1>17

\* A check over Redis begins: nothing is counted and no verdict is in.
LEMMA LimitStartCheckStep ==
  ASSUME Limits!SitesHold, LimitInv, NEW r \in Request, Limits!StartCheck(r)
  PROVE  LimitInv'
<1>1. PICK p : p = req[r]
  OBVIOUS
<1>2. PICK t : t = tally[r]
  OBVIOUS
<1>3. p.at = "checks" /\ LimitRequestInv(p, t) /\ site \in Sites /\ now \in Nat /\ site.redis
  BY <1>1, <1>2 DEF Limits!StartCheck, LimitInv, LimitRequestsOK, LimitCountersOK
<1>4. PICK rules : rules = DOMAIN Limits!EffectiveRules(Limits!Checked(p))
  OBVIOUS
<1>5. PICK x : x = [p EXCEPT !.at = "hits", !.started = now, !.clock = now + site.ahead[p.server],
    !.waits = rules,
                             !.verdicts = [i \in rules |-> [violated |-> FALSE]]]
  OBVIOUS
<1>6. req' = [req EXCEPT ![r] = x]
  BY <1>1, <1>4, <1>5 DEF Limits!StartCheck, LimitInv, LimitRequestsOK
<1>7. /\ LimitIsRequest(x) /\ x.at = "hits" /\ x.server = p.server /\ x.route = p.route
      /\ x.todo = p.todo /\ x.due = p.due
      /\ x.waits = rules /\ x.untimed = {} /\ x.decisions = p.decisions
      /\ x.verdicts = [i \in rules |-> [violated |-> FALSE]]
      /\ x.started = now /\ x.clock = now + site.ahead[p.server]
  BY <1>3, <1>5 DEF LimitRequestInv, LimitIsRequest, LimitPlaceOK
<1>8. Limits!Checked(x) = Limits!Checked(p)
  BY <1>7 DEF Limits!Checked
<1>9. LimitPlanOK(x) /\ LimitPlaceOK(x)
  BY <1>3, <1>7 DEF LimitRequestInv, LimitPlanOK, LimitPlaceOK
<1>10. PICK j : j = Limits!Min(p.due)
  OBVIOUS
<1>11. j \in p.due /\ Limits!Checked(p) = p.route[j]
  <2>1. p.due # {} /\ p.route \in site.routes /\ p.due \subseteq DOMAIN p.route
    BY <1>3 DEF LimitRequestInv, LimitPlanOK, LimitPlaceOK
  <2> QED BY <1>3, <1>10, <2>1, LimitChecked
<1>12. LimitAheadOK(x, t)
  <2>1. LimitAheadOK(p, t)
    BY <1>3 DEF LimitRequestInv
  <2>2. LimitAhead(x) \subseteq LimitAhead(p)
    BY <1>3, <1>7 DEF LimitAhead
  <2>3. \A k \in DOMAIN t : Limits!Checked(x).id # k.id
    <3>1. j \in LimitAhead(p)
      BY <1>3, <1>11 DEF LimitAhead, LimitRequestInv, LimitPlanOK
    <3> QED BY <1>8, <1>11, <2>1, <3>1 DEF LimitAheadOK
  <2> QED BY <1>7, <2>1, <2>2, <2>3 DEF LimitAheadOK
<1>13. LimitItemsOK(x, t) /\ LimitOutcomeOK(x, t)
  <2>1. LimitItemsOK(p, t) /\ DOMAIN p.verdicts = {}
    BY <1>3 DEF LimitRequestInv, LimitPlaceOK
  <2>2. DOMAIN x.verdicts \ x.waits = {}
    BY <1>7
  <2> QED BY <1>7, <2>1, <2>2 DEF LimitItemsOK, LimitOutcomeOK, LimitShown
<1>14. LimitHitsOK(x)
  <2>1. site.lag \in Nat
    BY <1>3 DEF Limits!SitesHold
  <2>2. now <= now + site.lag
    BY <1>3, <2>1
  <2> QED BY <1>3, <1>4, <1>7, <1>8, <2>2 DEF LimitHitsOK
<1>15. LimitRequestInv(x, t)
  BY <1>7, <1>9, <1>12, <1>13, <1>14 DEF LimitRequestInv, LimitLabel
<1> QED BY <1>2, <1>6, <1>15, LimitOnlyMoves DEF Limits!StartCheck

\* A server dies: what it counted stays counted.
LEMMA LimitDieStep ==
  ASSUME Limits!SitesHold, LimitInv, NEW r \in Request, Limits!Die(r)
  PROVE  LimitInv'
<1>1. PICK p : p = req[r]
  OBVIOUS
<1>2. LimitRequestInv(p, tally[r])
  BY <1>1 DEF LimitInv, LimitRequestsOK
<1>3. PICK x : x = [p EXCEPT !.at = "dead"]
  OBVIOUS
<1>4. LimitIsRequest(x) /\ x.at = "dead"
  BY <1>2, <1>3 DEF LimitRequestInv, LimitIsRequest
<1>5. LimitRequestInv(x, tally[r])
  BY <1>4 DEF LimitRequestInv, LimitLabel
<1>6. req' = [req EXCEPT ![r] = x]
  BY <1>1, <1>3 DEF Limits!Die, LimitInv, LimitRequestsOK
<1> QED BY <1>5, <1>6, LimitOnlyMoves DEF Limits!Die

\* The guard refuses a request no budget has rejected.
LEMMA LimitGuardStep ==
  ASSUME Limits!SitesHold, LimitInv, NEW r \in Request, Limits!GuardRefuses(r)
  PROVE  LimitInv'
<1>1. PICK p : p = req[r]
  OBVIOUS
<1>2. PICK t : t = tally[r]
  OBVIOUS
<1>3. LimitRequestInv(p, t) /\ p.at = "between"
  BY <1>1, <1>2 DEF LimitInv, LimitRequestsOK, Limits!GuardRefuses
<1>4. PICK x : x = [p EXCEPT !.at = "refused"]
  OBVIOUS
<1>5. /\ LimitIsRequest(x) /\ x.at = "refused" /\ x.server = p.server /\ x.route = p.route
      /\ x.todo = p.todo
      /\ x.due = p.due /\ x.waits = {} /\ x.untimed = {} /\ x.verdicts = <<>>
      /\ x.decisions = p.decisions
      /\ p.waits = {} /\ p.verdicts = <<>>
  BY <1>3, <1>4 DEF LimitRequestInv, LimitIsRequest, LimitPlaceOK
<1>6. LimitPlanOK(x) /\ LimitPlaceOK(x)
  BY <1>3, <1>5 DEF LimitRequestInv, LimitPlanOK, LimitPlaceOK
<1>7. LimitAheadOK(x, t)
  BY <1>3, <1>5 DEF LimitRequestInv, LimitAheadOK, LimitAhead
<1>8. LimitItemsOK(x, t) /\ LimitOutcomeOK(x, t)
  BY <1>3, <1>5 DEF LimitRequestInv, LimitItemsOK, LimitOutcomeOK, LimitShown
<1>9. LimitRequestInv(x, t)
  BY <1>5, <1>6, <1>7, <1>8 DEF LimitRequestInv, LimitLabel
<1>10. req' = [req EXCEPT ![r] = x]
  BY <1>1, <1>4 DEF Limits!GuardRefuses, LimitInv, LimitRequestsOK
<1> QED BY <1>2, <1>9, <1>10, LimitOnlyMoves DEF Limits!GuardRefuses

\* Time passes: counters are judged by the moment they expire, and no hit is later than lag.
LEMMA LimitTickStep ==
  ASSUME Limits!SitesHold, LimitInv, Limits!Tick
  PROVE  LimitInv'
<1>1. now \in Nat /\ now <= LimitTime /\ LimitTime \in Nat /\ site \in Sites
  BY DEF LimitInv, LimitCountersOK, Limits!SitesHold
<1>2. LimitCountersOK' /\ LimitTallyOK'
  BY <1>1, LimitQuiet DEF Limits!Tick
<1>3. ASSUME NEW x \in Request PROVE LimitRequestInv(req[x], tally[x])'
  <2>1. PICK q, t : q = req[x] /\ t = tally[x]
    OBVIOUS
  <2>2. LimitRequestInv(q, t) /\ (q.at = "hits" => now < q.started + site.lag) /\ site' = site
      /\ now' = now + 1
    BY <2>1 DEF LimitInv, LimitRequestsOK, Limits!Tick
  <2>3. LimitRequestInv(q, t)'
    BY <1>1, <2>2, LimitStays
  <2>4. q = req'[x] /\ t = tally'[x]
    BY <2>1 DEF Limits!Tick
  <2> QED BY <2>3, <2>4, LimitIs
<1>4. LimitRequestsOK'
  BY <1>3, Zenon DEF LimitInv, LimitRequestsOK, Limits!Tick
<1> QED BY <1>2, <1>4 DEF LimitInv

(* ------------------------------- Hits ------------------------------------ *)
\* Counters that hold after a step which leaves the clock alone.
LEMMA LimitCountersAre ==
  ASSUME LimitCountersOK, UNCHANGED <<site, now>>,
         counters' = [k \in DOMAIN counters' |-> counters'[k]],
         \A k \in DOMAIN counters' : \E c : c = counters'[k] /\ LimitCounterOK(k, c)
  PROVE  LimitCountersOK'
<1>1. ASSUME NEW k \in DOMAIN counters' PROVE LimitCounterOK(k, counters[k])'
  <2>1. PICK c : c = counters'[k] /\ LimitCounterOK(k, c)
    OBVIOUS
  <2>2. LimitCounterOK(k, c)'
    BY <2>1, LimitKeyStays
  <2> QED BY <2>1, <2>2, Zenon DEF LimitCounterOK, LimitKeyOK, LimitLasts, LimitEnd, Limits!RuleOf,
      Limits!EffectiveRules, Limits!RulesAt
<1> QED BY <1>1, Zenon DEF LimitCountersOK, LimitCounterOK, LimitKeyOK, LimitLasts, LimitEnd, Limits!RuleOf,
    Limits!EffectiveRules, Limits!RulesAt

\* A verdict says of the count what the tally does.
LEMMA LimitVerdict ==
  ASSUME Limits!SitesHold, site \in Sites, NEW k, LimitKeyOK(k), NEW n \in Nat
  PROVE  /\ Limits!Verdict(Limits!RuleOf(k), k, n) \in LimitItem
         /\ Limits!Verdict(Limits!RuleOf(k), k, n).resetAt = LimitEnd(k)
         /\ Limits!Verdict(Limits!RuleOf(k), k, n).violated <=> n > Limits!RuleOf(k).limit
<1>1. PICK rule : rule = Limits!RuleOf(k)
  OBVIOUS
<1>2. rule.limit \in Nat /\ LimitEnd(k) \in Nat /\ LimitEnd(k) = k.start + rule.window
  BY <1>1, LimitKeyRule DEF LimitEnd
<1>3. PICK left : left = IF n < rule.limit THEN rule.limit - n ELSE 0
  OBVIOUS
<1>4. left \in Nat
  BY <1>2, <1>3
<1>5. Limits!Verdict(rule, k, n) = [limit |-> rule.limit, violated |-> n > rule.limit,
    resetAt |-> LimitEnd(k), remaining |-> left]
  BY <1>2, <1>3 DEF Limits!Verdict
<1>6. (n > rule.limit) \in BOOLEAN
  OBVIOUS
<1>7. PICK v : v = [limit |-> rule.limit, violated |-> n > rule.limit, resetAt |-> LimitEnd(k),
    remaining |-> left]
  OBVIOUS
<1>8. v.limit \in Nat /\ v.violated \in BOOLEAN /\ v.resetAt = LimitEnd(k) /\ v.remaining \in Nat
      /\ v = [limit |-> v.limit, violated |-> v.violated, resetAt |-> v.resetAt,
         remaining |-> v.remaining]
  BY <1>2, <1>4, <1>7
<1>9. v.violated <=> n > rule.limit
  BY <1>7
<1>10. v \in LimitItem
  BY <1>2, <1>8 DEF LimitItem
<1> QED BY <1>1, <1>5, <1>7, <1>8, <1>9, <1>10

\* A check whose hits may all be in.
LEMMA LimitHitsSettle ==
  ASSUME Limits!SitesHold, site \in Sites, NEW q, NEW t, LimitRequestInv(q, t), q.at = "hits",
         \A k \in DOMAIN t : LimitEnd(k) \in Int
  PROVE  LimitRequestInv(Limits!Settle(q), t)
<1>1. CASE q.waits # {} \/ q.untimed # {}
  BY <1>1 DEF Limits!Settle
<1>2. CASE q.waits = {} /\ q.untimed = {}
  <2>1. LimitPlanOK(q) /\ LimitPlaceOK(q) /\ LimitAheadOK(q, t) /\ LimitItemsOK(q, t) /\ LimitHitsOK(q)
      /\ LimitIsRequest(q)
    BY DEF LimitRequestInv
  <2>2. \A i \in DOMAIN q.verdicts : q.verdicts[i] \in LimitItem
    BY <1>2, <2>1 DEF LimitHitsOK
  <2>3. \A k \in DOMAIN t, i \in DOMAIN q.route :
           i \in q.due \ {Limits!Min(q.due)}
               \/ (\E n \in q.todo : i \in Limits!Owned(q.route, Limits!Interceptors[n]))
                  => q.route[i].id # k.id
    BY <2>1 DEF LimitAheadOK, LimitAhead
  <2>4. LimitAllHit(q, t)
    BY <1>2, <2>1, <2>2, <2>3 DEF LimitAllHit, LimitPlaceOK, LimitHitsOK
  <2> QED BY <2>4, LimitSettle
<1> QED BY <1>1, <1>2

\* A hit of a request in flight: where it counts.
LEMMA LimitHitNow ==
  ASSUME Limits!SitesHold, LimitInv, NEW r \in Request, req[r].at = "hits",
         NEW i \in DOMAIN Limits!EffectiveRules(Limits!Checked(req[r]))
  PROVE  LET k == Limits!HitKey(req[r], i)
         IN /\ k.id = Limits!Checked(req[r]).id /\ k.rule = i
            /\ Limits!RuleOf(k) = Limits!HitRule(req[r], i) /\ LimitKeyOK(k)
            /\ k.start <= req[r].clock /\ LimitPunctual(k)
            /\ Limits!Count(k) = IF k \in DOMAIN counters THEN counters[k].count ELSE 0
            /\ Limits!Min(req[r].due) \in req[r].due
            /\ Limits!Checked(req[r]) = req[r].route[Limits!Min(req[r].due)]
            /\ Limits!Checked(req[r]) \in Limits!PoliciesOf(site)
<1>1. PICK p : p = req[r]
  OBVIOUS
<1>2. PICK t : t = tally[r]
  OBVIOUS
<1>3. LimitRequestInv(p, t) /\ p.at = "hits" /\ site \in Sites /\ now \in Nat /\ LimitCountersOK
  BY <1>1, <1>2 DEF LimitInv, LimitRequestsOK, LimitCountersOK
<1>4. p.due # {} /\ p.route \in site.routes /\ p.due \subseteq DOMAIN p.route /\ LimitHitsOK(p)
    /\ p.server \in DOMAIN site.ahead
  BY <1>3 DEF LimitRequestInv, LimitPlanOK, LimitPlaceOK
<1>5. p.started \in Nat /\ site.ahead[p.server] \in Nat /\ site.lag \in Nat
  BY <1>3, <1>4 DEF LimitHitsOK, Limits!SitesHold
<1>6. p.clock = p.started + site.ahead[p.server] /\ now <= p.started + site.lag /\ site.redis
  BY <1>4 DEF LimitHitsOK
<1>7. p.clock \in Nat
  BY <1>5, <1>6
<1>8. PICK k : k = Limits!HitKey(p, i)
  OBVIOUS
<1>9. k.id = Limits!Checked(p).id /\ k.rule = i /\ Limits!RuleOf(k) = Limits!HitRule(p, i)
    /\ LimitKeyOK(k) /\ k.start <= p.clock /\ p.clock < LimitEnd(k)
  BY <1>1, <1>3, <1>4, <1>7, <1>8, LimitHit
<1>10. LimitEnd(k) \in Nat
  BY <1>3, <1>9, LimitKeyRule
<1>11. now + site.ahead[p.server] < LimitEnd(k) + site.lag
  BY <1>3, <1>5, <1>6, <1>9, <1>10
<1>12. LimitPunctual(k)
  BY <1>4, <1>6, <1>11 DEF LimitPunctual
<1>13. Limits!Count(k) = IF k \in DOMAIN counters THEN counters[k].count ELSE 0
  BY <1>3, <1>9, <1>12, LimitFound
<1> QED BY <1>1, <1>3, <1>4, <1>8, <1>9, <1>12, <1>13, LimitChecked

\* The policies ahead of a request have other ids than the one it is checked against.
LEMMA LimitOtherIds ==
  ASSUME Limits!SitesHold, site \in Sites, NEW q, LimitPlanOK(q), q.route \in site.routes,
         NEW j \in q.due,
         NEW i \in DOMAIN q.route, i \in q.due \ {j}
             \/ (\E n \in q.todo : i \in Limits!Owned(q.route, Limits!Interceptors[n]))
  PROVE  q.route[i].id # q.route[j].id
<1>1. i # j
  <2>1. \A n \in q.todo : j \notin Limits!Owned(q.route, Limits!Interceptors[n])
    BY DEF LimitPlanOK, Limits!Owned
  <2> QED BY <2>1
<1>2. j \in DOMAIN q.route
  BY DEF LimitPlanOK
<1> QED BY <1>1, <1>2 DEF Limits!SitesHold

\* A counter gets its expiry: two windows from now, so after the last increment of its
\* window by any server's clock.  This is where clocks and lag must fit into a window.
LEMMA LimitPexpireStep ==
  ASSUME Limits!SitesHold, LimitInv, NEW r \in Request, NEW i \in req[r].untimed, Limits!Pexpire(r, i)
  PROVE  LimitInv'
<1>1. PICK p : p = req[r]
  OBVIOUS
<1>2. PICK t : t = tally[r]
  OBVIOUS
<1>3. LimitRequestInv(p, t) /\ p.at = "hits" /\ site \in Sites /\ now \in Nat /\ LimitTime \in Nat
  BY <1>1, <1>2 DEF LimitInv, LimitRequestsOK, LimitCountersOK, Limits!Pexpire, Limits!SitesHold
<1>4. LimitPlanOK(p) /\ LimitPlaceOK(p) /\ LimitAheadOK(p, t) /\ LimitItemsOK(p, t) /\ LimitHitsOK(p)
    /\ LimitIsRequest(p)
  BY <1>3 DEF LimitRequestInv
<1>5. i \in DOMAIN Limits!EffectiveRules(Limits!Checked(p))
  BY <1>1, <1>4 DEF LimitHitsOK
<1>6. PICK k : k = Limits!HitKey(p, i)
  OBVIOUS
<1>7. /\ Limits!RuleOf(k) = Limits!HitRule(p, i) /\ LimitKeyOK(k) /\ k.start <= p.clock
      /\ Limits!Checked(p) \in Limits!PoliciesOf(site)
  BY <1>1, <1>3, <1>5, <1>6, LimitHitNow
<1>8. PICK w : w = Limits!RuleOf(k).window
  OBVIOUS
<1>9. w \in Nat /\ k.start \in Nat /\ LimitEnd(k) \in Nat /\ LimitEnd(k) = k.start + w
  BY <1>3, <1>7, <1>8, LimitKeyRule DEF LimitEnd
<1>10. PICK e : e = now + Limits!CounterTtl(Limits!HitRule(p, i))
  OBVIOUS
<1>11. e = now + 2 * w
  BY <1>7, <1>8, <1>10 DEF Limits!CounterTtl
<1>12. LimitLasts(k, e) /\ e \in Nat
  <2>1. ASSUME NEW v \in DOMAIN site.ahead PROVE LimitEnd(k) + site.lag <= e + site.ahead[v]
    <3>1. site.ahead[p.server] - site.ahead[v] + site.lag <= w
      <4>1. p.server \in DOMAIN site.ahead
        BY <1>3, <1>4 DEF LimitPlaceOK
      <4>2. Limits!RuleOf(k) = Limits!RulesAt(site, Limits!Checked(p))[i]
        BY <1>7 DEF Limits!HitRule, Limits!EffectiveRules
      <4>3. i \in DOMAIN Limits!RulesAt(site, Limits!Checked(p)) /\ site.redis
        BY <1>4, <1>5 DEF Limits!EffectiveRules, LimitHitsOK
      <4> QED BY <1>3, <1>7, <1>8, <4>1, <4>2, <4>3 DEF Limits!SitesHold
    <3>2. p.started \in Nat /\ p.clock = p.started + site.ahead[p.server] /\ p.started <= now
      BY <1>4 DEF LimitHitsOK
    <3>3. site.ahead[p.server] \in Nat /\ site.ahead[v] \in Nat /\ site.lag \in Nat
      BY <1>3, <1>4 DEF Limits!SitesHold, LimitPlaceOK
    <3> QED BY <1>3, <1>7, <1>9, <1>11, <3>1, <3>2, <3>3
  <2>2. site.redis
    BY <1>4 DEF LimitHitsOK
  <2> QED BY <1>3, <1>9, <1>11, <2>1, <2>2 DEF LimitLasts
<1>13. counters' = [counters EXCEPT ![k].expires = e]
  BY <1>1, <1>6, <1>10 DEF Limits!Pexpire
<1>14. UNCHANGED <<site, now, tally>>
  BY DEF Limits!Pexpire
<1>15. /\ DOMAIN counters' = DOMAIN counters /\ counters' = [x \in DOMAIN counters' |-> counters'[x]]
       /\ \A x \in DOMAIN counters : x # k => counters'[x] = counters[x]
       /\ k \in DOMAIN counters => counters'[k] = [counters[k] EXCEPT !.expires = e]
  BY <1>13 DEF LimitInv, LimitCountersOK
<1>16. ASSUME NEW x \in DOMAIN counters'
       PROVE  LimitCounterOK(x, counters'[x]) /\ counters'[x].count = counters[x].count
  <2>1. PICK old : old = counters[x]
    OBVIOUS
  <2>2. LimitCounterOK(x, old)
    BY <1>15, <2>1 DEF LimitInv, LimitCountersOK
  <2>3. CASE x # k
    BY <1>15, <2>1, <2>2, <2>3
  <2>4. CASE x = k
    <3>1. PICK c : c = [old EXCEPT !.expires = e]
      OBVIOUS
    <3>2. c.count = old.count /\ c.expires = e /\ c = [count |-> c.count, expires |-> c.expires]
      BY <2>2, <3>1 DEF LimitCounterOK
    <3>3. LimitCounterOK(x, c)
      BY <1>12, <2>2, <2>4, <3>2 DEF LimitCounterOK
    <3> QED BY <1>15, <2>1, <2>4, <3>1, <3>2, <3>3
  <2> QED BY <2>3, <2>4
<1>17. LimitCountersOK'
  BY <1>14, <1>15, <1>16, LimitCountersAre DEF LimitInv
<1>18. LimitTallyOK'
  BY <1>14, <1>15, <1>16 DEF LimitInv, LimitTallyOK, LimitTold
<1>19. PICK x : x = [p EXCEPT !.untimed = @ \ {i}]
  OBVIOUS
<1>20. /\ LimitIsRequest(x) /\ x.at = "hits" /\ x.server = p.server /\ x.route = p.route
       /\ x.todo = p.todo /\ x.due = p.due
       /\ x.clock = p.clock /\ x.started = p.started /\ x.waits = p.waits /\ x.untimed = p.untimed \ {i}
       /\ x.verdicts = p.verdicts /\ x.decisions = p.decisions
  BY <1>3, <1>4, <1>19 DEF LimitIsRequest
<1>21. LimitPlanOK(x) /\ LimitPlaceOK(x)
  BY <1>3, <1>4, <1>20 DEF LimitPlanOK, LimitPlaceOK
<1>22. LimitAheadOK(x, t)
  BY <1>3, <1>4, <1>20 DEF LimitAheadOK, LimitAhead, Limits!Checked
<1>23. LimitItemsOK(x, t) /\ LimitOutcomeOK(x, t)
  BY <1>4, <1>20 DEF LimitItemsOK, LimitShown, LimitOutcomeOK
<1>24. LimitHitsOK(x)
  BY <1>4, <1>20 DEF LimitHitsOK, Limits!Checked
<1>25. LimitRequestInv(x, t)
  BY <1>20, <1>21, <1>22, <1>23, <1>24 DEF LimitRequestInv, LimitLabel
<1>26. \A y \in DOMAIN t : LimitEnd(y) \in Int
  BY <1>2, LimitTallyKeys
<1>27. LimitRequestInv(Limits!Settle(x), t)
  BY <1>3, <1>20, <1>25, <1>26, LimitHitsSettle
<1>28. req' = [req EXCEPT ![r] = Limits!Settle(x)]
  BY <1>1, <1>19 DEF Limits!Pexpire
<1>29. LimitRequestsOK'
  BY <1>2, <1>14, <1>27, <1>28, LimitMoves
<1> QED BY <1>17, <1>18, <1>29 DEF LimitInv

\* An increment lands: it finds the counter of its window, and its count is new.
LEMMA LimitIncrStep ==
  ASSUME Limits!SitesHold, LimitInv, NEW r \in Request, NEW i \in req[r].waits, Limits!Incr(r, i)
  PROVE  LimitInv'
<1>1. PICK p : p = req[r]
  OBVIOUS
<1>2. PICK t : t = tally[r]
  OBVIOUS
<1>3. LimitRequestInv(p, t) /\ p.at = "hits" /\ site \in Sites /\ now \in Nat /\ i \in p.waits
  BY <1>1, <1>2 DEF LimitInv, LimitRequestsOK, LimitCountersOK, Limits!Incr
<1>4. LimitPlanOK(p) /\ LimitPlaceOK(p) /\ LimitAheadOK(p, t) /\ LimitItemsOK(p, t) /\ LimitHitsOK(p)
    /\ LimitIsRequest(p)
  BY <1>3 DEF LimitRequestInv
<1>5. i \in DOMAIN Limits!EffectiveRules(Limits!Checked(p)) /\ p.route \in site.routes
  BY <1>3, <1>4 DEF LimitHitsOK, LimitPlaceOK
<1>6. PICK k : k = Limits!HitKey(p, i)
  OBVIOUS
<1>7. /\ k.id = Limits!Checked(p).id /\ k.rule = i /\ Limits!RuleOf(k) = Limits!HitRule(p, i)
      /\ LimitKeyOK(k)
      /\ Limits!Count(k) = IF k \in DOMAIN counters THEN counters[k].count ELSE 0
      /\ Limits!Min(p.due) \in p.due /\ Limits!Checked(p) = p.route[Limits!Min(p.due)]
  BY <1>1, <1>3, <1>5, <1>6, LimitHitNow
<1>8. k \notin DOMAIN t
  BY <1>3, <1>4, <1>7 DEF LimitAheadOK
<1>9. PICK n : n = Limits!Count(k) + 1
  OBVIOUS
<1>10. \A c \in DOMAIN counters : counters[c].count \in Nat /\ 1 <= counters[c].count
  BY DEF LimitInv, LimitCountersOK, LimitCounterOK
<1>11. n \in Nat /\ 1 <= n /\ (n = 1 <=> k \notin DOMAIN counters)
  BY <1>7, <1>9, <1>10
<1>12. PICK c : c = [count |-> n, expires |-> IF n = 1 THEN Limits!Forever ELSE counters[k].expires]
  OBVIOUS
<1>13. counters' = [x \in DOMAIN counters \cup {k} |-> IF x # k THEN counters[x] ELSE c]
  BY <1>1, <1>6, <1>9, <1>12 DEF Limits!Incr
<1>14. UNCHANGED <<site, now>> /\ Limits!Counted(r, {k})
  BY <1>1, <1>6 DEF Limits!Incr
<1>15. LimitCounterOK(k, c)
  <2>1. k \in DOMAIN counters => LimitCounterOK(k, counters[k])
    BY DEF LimitInv, LimitCountersOK
  <2>2. c.count = n /\ c = [count |-> c.count, expires |-> c.expires]
        /\ c.expires = IF n = 1 THEN Limits!Forever ELSE counters[k].expires
    BY <1>12
  <2> QED BY <1>7, <1>11, <2>1, <2>2 DEF LimitCounterOK
<1>16. LimitCountersOK'
  <2>1. \A x \in DOMAIN counters' : \E y : y = counters'[x] /\ LimitCounterOK(x, y)
    BY <1>13, <1>15 DEF LimitInv, LimitCountersOK
  <2>2. counters' = [x \in DOMAIN counters' |-> counters'[x]]
    BY <1>13
  <2> QED BY <1>14, <2>1, <2>2, LimitCountersAre DEF LimitInv
<1>17. LimitCounts(r, {k})
  BY <1>7, <1>9, <1>12, <1>13 DEF LimitCounts
<1>18. LimitTallyOK'
  <2>1. \A x \in {k} : x \notin DOMAIN tally[r]
      /\ Limits!Count(x) = IF x \in DOMAIN counters THEN counters[x].count ELSE 0
    BY <1>2, <1>7, <1>8
  <2> QED BY <1>14, <1>17, <2>1, LimitCounted DEF LimitInv
<1>19. PICK s : s = tally'[r]
  OBVIOUS
<1>20. /\ DOMAIN s = DOMAIN t \cup {k} /\ s[k] = {n} /\ \A x \in DOMAIN t : s[x] = t[x]
       /\ \A x \in Request \ {r} : tally'[x] = tally[x]
  <2>1. \A x \in DOMAIN t : x \notin {k}
    BY <1>8
  <2> QED BY <1>2, <1>8, <1>9, <1>14, <1>19, <2>1, LimitTallied DEF LimitInv
<1>21. \A x \in DOMAIN t : LimitOver(s, x) <=> LimitOver(t, x)
  BY <1>20 DEF LimitOver
<1>22. LimitOver(s, k) <=> n > Limits!RuleOf(k).limit
  BY <1>20 DEF LimitOver
<1>23. PICK v : v = Limits!Verdict(Limits!RuleOf(k), k, n)
  OBVIOUS
<1>24. v \in LimitItem /\ v.resetAt = LimitEnd(k) /\ (v.violated <=> n > Limits!RuleOf(k).limit)
  BY <1>3, <1>7, <1>11, <1>23, LimitVerdict
<1>25. PICK untimed : untimed = IF n = 1 THEN p.untimed \cup {i} ELSE p.untimed
  OBVIOUS
<1>26. PICK x : x = [p EXCEPT !.waits = @ \ {i}, !.untimed = untimed, !.verdicts[i] = v]
  OBVIOUS
<1>27. /\ LimitIsRequest(x) /\ x.at = "hits" /\ x.server = p.server /\ x.route = p.route
       /\ x.todo = p.todo /\ x.due = p.due
       /\ x.clock = p.clock /\ x.started = p.started /\ x.waits = p.waits \ {i} /\ x.untimed = untimed
       /\ x.verdicts = [p.verdicts EXCEPT ![i] = v] /\ x.decisions = p.decisions
  BY <1>3, <1>4, <1>26 DEF LimitIsRequest
<1>28. /\ DOMAIN x.verdicts = DOMAIN p.verdicts /\ x.verdicts[i] = v
       /\ \A j \in DOMAIN p.verdicts : j # i => x.verdicts[j] = p.verdicts[j]
       /\ DOMAIN p.verdicts = DOMAIN Limits!EffectiveRules(Limits!Checked(p))
       /\ x.verdicts = [j \in DOMAIN Limits!EffectiveRules(Limits!Checked(p)) |-> x.verdicts[j]]
  BY <1>4, <1>5, <1>27 DEF LimitHitsOK
<1>29. LimitPlanOK(x) /\ LimitPlaceOK(x) /\ Limits!Checked(x) = Limits!Checked(p)
  BY <1>3, <1>4, <1>27 DEF LimitPlanOK, LimitPlaceOK, Limits!Checked
<1>30. LimitAheadOK(x, s)
  <2>1. LimitAhead(x) = LimitAhead(p)
    BY <1>3, <1>27 DEF LimitAhead
  <2>2. \A j \in LimitAhead(p) : p.route[j].id # k.id
    BY <1>3, <1>4, <1>5, <1>7, LimitOtherIds DEF LimitAhead
  <2> QED BY <1>3, <1>4, <1>7, <1>20, <1>27, <1>29, <2>1, <2>2 DEF LimitAheadOK
<1>31. LimitItemsOK(x, s)
  <2>1. ASSUME NEW y \in DOMAIN s, LimitOver(s, y) PROVE LimitShown(x, y)
    <3>1. CASE y = k
      <4>1. LimitShows(x.verdicts[i], y) /\ i \in DOMAIN x.verdicts \ x.waits
        <5>1. x.verdicts[i].violated /\ x.verdicts[i].resetAt = LimitEnd(k) /\ LimitEnd(k) \in Nat
          BY <1>3, <1>7, <1>22, <1>24, <1>28, <2>1, <3>1, LimitKeyRule
        <5> QED BY <1>5, <1>27, <1>28, <3>1, <5>1 DEF LimitShows
      <4> QED BY <4>1 DEF LimitShown
    <3>2. CASE y \in DOMAIN t
      <4>1. LimitShown(p, y)
        BY <1>4, <1>21, <2>1, <3>2 DEF LimitItemsOK
      <4>2. CASE \E j \in DOMAIN p.decisions : LimitShows(p.decisions[j], y)
        BY <1>27, <4>2 DEF LimitShown
      <4>3. CASE \E j \in DOMAIN p.verdicts \ p.waits : LimitShows(p.verdicts[j], y)
        <5>1. PICK j \in DOMAIN p.verdicts \ p.waits : LimitShows(p.verdicts[j], y)
          BY <4>3
        <5>2. j # i /\ j \in DOMAIN x.verdicts \ x.waits /\ x.verdicts[j] = p.verdicts[j]
          BY <1>3, <1>27, <1>28
        <5> QED BY <5>1, <5>2 DEF LimitShown
      <4> QED BY <4>1, <4>2, <4>3 DEF LimitShown
    <3> QED BY <1>20, <3>1, <3>2
  <2>2. ASSUME NEW y \in DOMAIN t, LimitOver(t, y) PROVE \E z \in DOMAIN s : LimitOver(s, z)
    BY <1>20, <1>21, <2>2
  <2>3. \A j \in DOMAIN x.decisions : x.decisions[j].violated => \E y \in DOMAIN s : LimitOver(s, y)
    BY <1>4, <1>27, <2>2 DEF LimitItemsOK
  <2>4. ASSUME NEW j \in DOMAIN x.verdicts \ x.waits, x.verdicts[j].violated
        PROVE \E y \in DOMAIN s : LimitOver(s, y)
    <3>1. CASE j = i
      <4>1. LimitOver(s, k) /\ k \in DOMAIN s
        BY <1>20, <1>22, <1>24, <1>28, <2>4, <3>1
      <4> QED BY <4>1
    <3>2. CASE j # i
      <4>1. j \in DOMAIN p.verdicts \ p.waits /\ p.verdicts[j].violated
        BY <1>27, <1>28, <2>4, <3>2
      <4> QED BY <1>4, <2>2, <4>1 DEF LimitItemsOK
    <3> QED BY <3>1, <3>2
  <2> QED BY <1>4, <1>27, <2>1, <2>3, <2>4 DEF LimitItemsOK
<1>32. LimitOutcomeOK(x, s)
  BY <1>27 DEF LimitOutcomeOK
<1>33. LimitHitsOK(x)
  <2>1. \A j \in DOMAIN Limits!EffectiveRules(Limits!Checked(p)) : j \in x.waits
      \/ x.verdicts[j] \in LimitItem
    BY <1>4, <1>24, <1>27, <1>28 DEF LimitHitsOK
  <2>2. x.waits \subseteq DOMAIN Limits!EffectiveRules(Limits!Checked(p))
      /\ x.untimed \subseteq DOMAIN Limits!EffectiveRules(Limits!Checked(p))
    BY <1>4, <1>5, <1>25, <1>27 DEF LimitHitsOK
  <2> QED BY <1>4, <1>27, <1>28, <1>29, <2>1, <2>2 DEF LimitHitsOK
<1>34. LimitRequestInv(x, s)
  BY <1>27, <1>29, <1>30, <1>31, <1>32, <1>33 DEF LimitRequestInv, LimitLabel
<1>35. \A y \in DOMAIN s : LimitEnd(y) \in Int
  <2>1. \A y \in DOMAIN t : LimitEnd(y) \in Int
    BY <1>2, LimitTallyKeys
  <2>2. LimitEnd(k) \in Int
    BY <1>3, <1>7, LimitKeyRule
  <2> QED BY <1>20, <2>1, <2>2
<1>36. LimitRequestInv(Limits!Settle(x), s)
  BY <1>3, <1>27, <1>34, <1>35, LimitHitsSettle
<1>37. req' = [req EXCEPT ![r] = Limits!Settle(x)]
  <2>1. Limits!HitRule(p, i) = Limits!RuleOf(k)
    BY <1>7
  <2> QED BY <1>1, <1>6, <1>9, <1>23, <1>25, <1>26, <2>1 DEF Limits!Incr
<1>38. LimitRequestsOK'
  BY <1>14, <1>19, <1>20, <1>36, <1>37, LimitMoves
<1> QED BY <1>16, <1>18, <1>38 DEF LimitInv

\* A check in memory counts all the rules of a policy, whose keys differ.
LEMMA LimitInMemoryStep ==
  ASSUME Limits!SitesHold, LimitInv, NEW r \in Request, Limits!CheckInMemory(r)
  PROVE  LimitInv'
<1>1. PICK p : p = req[r]
  OBVIOUS
<1>2. PICK t : t = tally[r]
  OBVIOUS
<1>3. PICK q : q = [p EXCEPT !.clock = now]
  OBVIOUS
<1>4. /\ LimitRequestInv(p, t) /\ p.at = "checks" /\ site \in Sites /\ now \in Nat /\ ~site.redis
      /\ now <= LimitTime /\ LimitTime \in Nat
  <2>1. q.at = p.at
    BY <1>1, <1>3 DEF LimitInv, LimitRequestsOK, LimitRequestInv, LimitIsRequest
  <2> QED BY <1>1, <1>2, <1>3, <2>1 DEF LimitInv, LimitRequestsOK, LimitCountersOK,
      Limits!CheckInMemory, Limits!SitesHold
<1>5. LimitPlanOK(p) /\ LimitPlaceOK(p) /\ LimitAheadOK(p, t) /\ LimitItemsOK(p, t) /\ LimitIsRequest(p)
  BY <1>4 DEF LimitRequestInv
<1>6. /\ LimitIsRequest(q) /\ q.at = "checks" /\ q.server = p.server /\ q.route = p.route
      /\ q.todo = p.todo /\ q.due = p.due
      /\ q.clock = now /\ q.waits = {} /\ q.untimed = {} /\ q.verdicts = <<>>
      /\ q.decisions = p.decisions
  BY <1>3, <1>4, <1>5 DEF LimitIsRequest, LimitPlaceOK
<1>7. PICK rules : rules = DOMAIN Limits!EffectiveRules(Limits!Checked(q))
  OBVIOUS
<1>8. q.route \in site.routes /\ q.due \subseteq DOMAIN q.route /\ q.due # {}
    /\ q.server \in DOMAIN site.ahead
  BY <1>4, <1>5, <1>6 DEF LimitPlanOK, LimitPlaceOK
<1>9. PICK j : j = Limits!Min(q.due)
  OBVIOUS
<1>10. j \in q.due /\ Limits!Checked(q) = q.route[j]
  BY <1>4, <1>8, <1>9, LimitChecked
<1>11. PICK key : key = [i \in rules |-> Limits!HitKey(q, i)]
  OBVIOUS
<1>12. PICK ks : ks = {Limits!HitKey(q, i) : i \in rules}
  OBVIOUS
<1>13. ASSUME NEW i \in rules
       PROVE  /\ key[i] = Limits!HitKey(q, i) /\ key[i] \in ks
              /\ key[i].id = Limits!Checked(q).id /\ key[i].rule = i
              /\ Limits!RuleOf(key[i]) = Limits!HitRule(q, i) /\ LimitKeyOK(key[i])
              /\ key[i].start <= now /\ now < LimitEnd(key[i])
  BY <1>4, <1>6, <1>7, <1>8, <1>11, <1>12, LimitHit
<1>14. \A k \in ks : k.rule \in rules /\ k = key[k.rule]
  <2>1. ASSUME NEW k \in ks PROVE k.rule \in rules /\ k = key[k.rule]
    <3>1. PICK i \in rules : k = Limits!HitKey(q, i)
      BY <1>12
    <3> QED BY <1>13, <3>1
  <2> QED BY <2>1
<1>15. ASSUME NEW k \in ks
       PROVE  /\ LimitKeyOK(k) /\ k \notin DOMAIN t /\ LimitEnd(k) \in Nat /\ k.start \in Nat
              /\ Limits!Count(k) = IF k \in DOMAIN counters THEN counters[k].count ELSE 0
              /\ Limits!HitRule(q, k.rule) = Limits!RuleOf(k) /\ k.id = Limits!Checked(q).id
  <2>1. k.rule \in rules /\ k = key[k.rule]
    BY <1>14
  <2>2. LimitKeyOK(k) /\ now < LimitEnd(k) /\ Limits!HitRule(q, k.rule) = Limits!RuleOf(k)
      /\ k.id = Limits!Checked(q).id
    BY <1>13, <2>1
  <2>3. LimitPunctual(k)
    BY <1>4, <2>2 DEF LimitPunctual
  <2>4. Limits!Count(k) = IF k \in DOMAIN counters THEN counters[k].count ELSE 0
    BY <2>2, <2>3, LimitFound DEF LimitInv
  <2>5. k \notin DOMAIN t
    <3>1. j \in LimitAhead(p)
      BY <1>4, <1>6, <1>8, <1>10 DEF LimitAhead
    <3> QED BY <1>5, <1>6, <1>10, <2>2, <3>1 DEF LimitAheadOK
  <2> QED BY <1>4, <2>2, <2>4, <2>5, LimitKeyRule
<1>16. PICK N : N = [k \in ks |-> Limits!Count(k) + 1]
  OBVIOUS
<1>17. \A x \in DOMAIN counters : counters[x].count \in Nat /\ 1 <= counters[x].count
    /\ LimitCounterOK(x, counters[x])
  BY DEF LimitInv, LimitCountersOK, LimitCounterOK
<1>18. \A k \in ks : N[k] = Limits!Count(k) + 1 /\ N[k] \in Nat /\ 1 <= N[k]
    /\ (Limits!Count(k) = 0 <=> k \notin DOMAIN counters)
  BY <1>15, <1>16, <1>17
<1>19. counters' = [k \in DOMAIN counters \cup ks |->
              IF k \notin ks THEN counters[k]
              ELSE IF Limits!Count(k) = 0 THEN [count |-> 1,
                  expires |-> now + Limits!CounterTtl(Limits!HitRule(q, k.rule))]
              ELSE [counters[k] EXCEPT !.count = @ + 1]]
  BY <1>1, <1>3, <1>7, <1>12 DEF Limits!CheckInMemory
<1>20. UNCHANGED <<site, now>> /\ Limits!Counted(r, ks)
  BY <1>1, <1>3, <1>7, <1>12 DEF Limits!CheckInMemory
<1>21. ASSUME NEW k \in DOMAIN counters'
       PROVE  /\ LimitCounterOK(k, counters'[k])
              /\ counters'[k].count = IF k \in ks THEN N[k] ELSE counters[k].count
  <2>1. CASE k \notin ks
    BY <1>17, <1>19, <2>1
  <2>2. CASE k \in ks /\ k \notin DOMAIN counters
    <3>1. PICK e : e = now + Limits!CounterTtl(Limits!HitRule(q, k.rule))
      OBVIOUS
    <3>2. counters'[k] = [count |-> 1, expires |-> e]
      BY <1>18, <1>19, <2>2, <3>1
    <3>3. Limits!RuleOf(k).window \in Nat /\ LimitEnd(k) = k.start + Limits!RuleOf(k).window
        /\ LimitKeyOK(k) /\ k.start \in Nat /\ LimitEnd(k) \in Nat
      BY <1>4, <1>15, <2>2, LimitKeyRule DEF LimitEnd
    <3>4. k.start <= now
      BY <1>13, <1>14, <2>2
    <3>5. e = now + 2 * Limits!RuleOf(k).window
      BY <1>15, <2>2, <3>1 DEF Limits!CounterTtl
    <3>6. LimitEnd(k) <= e /\ e \in Nat
      BY <1>4, <3>3, <3>4, <3>5
    <3>7. LimitCounterOK(k, [count |-> 1, expires |-> e])
      BY <1>4, <3>3, <3>6 DEF LimitCounterOK, LimitLasts
    <3>8. N[k] = 1
      BY <1>18, <2>2
    <3> QED BY <2>2, <3>2, <3>7, <3>8
  <2>3. CASE k \in ks /\ k \in DOMAIN counters
    <3>1. PICK c : c = counters[k]
      OBVIOUS
    <3>2. LimitCounterOK(k, c)
      BY <1>17, <2>3, <3>1
    <3>3. PICK d : d = [c EXCEPT !.count = @ + 1]
      OBVIOUS
    <3>4. d.count = c.count + 1 /\ d.expires = c.expires
        /\ d = [count |-> d.count, expires |-> d.expires]
      BY <3>2, <3>3 DEF LimitCounterOK
    <3>5. counters'[k] = d
      BY <1>18, <1>19, <2>3, <3>1, <3>3
    <3>6. LimitCounterOK(k, d)
      BY <3>2, <3>4 DEF LimitCounterOK
    <3>7. N[k] = c.count + 1
      BY <1>15, <1>18, <2>3, <3>1
    <3> QED BY <2>3, <3>4, <3>5, <3>6, <3>7
  <2> QED BY <1>19, <2>1, <2>2, <2>3
<1>22. DOMAIN counters' = DOMAIN counters \cup ks
    /\ counters' = [k \in DOMAIN counters' |-> counters'[k]]
  BY <1>19
<1>23. LimitCountersOK'
  BY <1>20, <1>21, <1>22, LimitCountersAre DEF LimitInv
<1>24. LimitCounts(r, ks)
  BY <1>15, <1>18, <1>21, <1>22 DEF LimitCounts
<1>25. LimitTallyOK'
  BY <1>2, <1>15, <1>20, <1>24, LimitCounted DEF LimitInv
<1>26. PICK s : s = tally'[r]
  OBVIOUS
<1>27. /\ DOMAIN s = DOMAIN t \cup ks /\ \A k \in ks : s[k] = {N[k]}
       /\ \A x \in DOMAIN t : s[x] = t[x]
       /\ \A x \in Request \ {r} : tally'[x] = tally[x]
  <2>1. \A x \in DOMAIN t : x \notin ks
    BY <1>15
  <2> QED BY <1>2, <1>15, <1>18, <1>20, <1>26, <2>1, LimitTallied DEF LimitInv
<1>28. \A x \in DOMAIN t : LimitOver(s, x) <=> LimitOver(t, x)
  BY <1>27 DEF LimitOver
<1>29. \A k \in ks : LimitOver(s, k) <=> N[k] > Limits!RuleOf(k).limit
  BY <1>27 DEF LimitOver
<1>30. PICK vs : vs = [i \in rules |-> Limits!Verdict(Limits!HitRule(q, i), Limits!HitKey(q, i),
    Limits!Count(Limits!HitKey(q, i)) + 1)]
  OBVIOUS
<1>31. ASSUME NEW i \in rules
       PROVE  vs[i] \in LimitItem /\ vs[i].resetAt = LimitEnd(key[i])
              /\ (vs[i].violated <=> LimitOver(s, key[i])) /\ key[i] \in ks
  <2>1. key[i] \in ks /\ Limits!HitKey(q, i) = key[i] /\ Limits!HitRule(q, i) = Limits!RuleOf(key[i])
      /\ LimitKeyOK(key[i])
    BY <1>13
  <2>2. vs[i] = Limits!Verdict(Limits!RuleOf(key[i]), key[i], N[key[i]]) /\ N[key[i]] \in Nat
    BY <1>18, <1>30, <2>1
  <2> QED BY <1>4, <1>29, <2>1, <2>2, LimitVerdict
<1>32. PICK x : x = [q EXCEPT !.verdicts = vs]
  OBVIOUS
<1>33. /\ LimitIsRequest(x) /\ x.server = p.server /\ x.route = p.route /\ x.todo = p.todo
       /\ x.due = p.due
       /\ x.waits = {} /\ x.untimed = {} /\ x.verdicts = vs /\ x.decisions = p.decisions
  BY <1>6, <1>32 DEF LimitIsRequest
<1>34. LimitPlanOK(x) /\ Limits!Checked(x) = Limits!Checked(q) /\ DOMAIN vs = rules
  BY <1>5, <1>6, <1>30, <1>33 DEF LimitPlanOK, Limits!Checked
<1>35. \A k \in DOMAIN s, i \in DOMAIN x.route :
           i \in x.due \ {Limits!Min(x.due)}
               \/ (\E n \in x.todo : i \in Limits!Owned(x.route, Limits!Interceptors[n]))
                  => x.route[i].id # k.id
  <2>1. ASSUME NEW i \in DOMAIN p.route,
               i \in p.due \ {j} \/ (\E n \in p.todo : i \in Limits!Owned(p.route,
                   Limits!Interceptors[n]))
        PROVE  (\A k \in DOMAIN t : p.route[i].id # k.id) /\ p.route[i].id # Limits!Checked(q).id
    <3>1. i \in LimitAhead(p)
      BY <1>4, <2>1 DEF LimitAhead
    <3>2. p.route[i].id # p.route[j].id
      BY <1>4, <1>5, <1>6, <1>8, <1>10, <2>1, LimitOtherIds
    <3> QED BY <1>5, <1>6, <1>10, <3>1, <3>2 DEF LimitAheadOK
  <2>2. \A k \in DOMAIN s : k \in DOMAIN t \/ k.id = Limits!Checked(q).id
    BY <1>15, <1>27
  <2> QED BY <1>6, <1>9, <1>33, <2>1, <2>2
<1>36. LimitItemsOK(x, s)
  <2>1. ASSUME NEW y \in DOMAIN s, LimitOver(s, y) PROVE LimitShown(x, y)
    <3>1. CASE y \in ks
      <4>1. y.rule \in rules /\ y = key[y.rule]
        BY <1>14, <3>1
      <4>2. vs[y.rule].violated /\ vs[y.rule].resetAt = LimitEnd(y)
        BY <1>31, <2>1, <4>1
      <4>3. LimitEnd(y) \in Nat
        BY <1>15, <3>1
      <4> QED BY <1>33, <1>34, <4>1, <4>2, <4>3 DEF LimitShown, LimitShows
    <3>2. CASE y \in DOMAIN t
      <4>1. LimitShown(p, y)
        BY <1>5, <1>28, <2>1, <3>2 DEF LimitItemsOK
      <4>2. DOMAIN p.verdicts = {}
        BY <1>4, <1>5 DEF LimitPlaceOK
      <4> QED BY <1>33, <4>1, <4>2 DEF LimitShown
    <3> QED BY <1>27, <3>1, <3>2
  <2>2. \A y \in DOMAIN t : LimitOver(t, y) => \E z \in DOMAIN s : LimitOver(s, z)
    BY <1>27, <1>28
  <2>3. \A i \in DOMAIN x.decisions : x.decisions[i].violated => \E y \in DOMAIN s : LimitOver(s, y)
    BY <1>5, <1>33, <2>2 DEF LimitItemsOK
  <2>4. \A i \in DOMAIN x.verdicts \ x.waits : x.verdicts[i].violated
      => \E y \in DOMAIN s : LimitOver(s, y)
    BY <1>27, <1>31, <1>33, <1>34
  <2> QED BY <1>5, <1>33, <2>1, <2>3, <2>4 DEF LimitItemsOK
<1>37. LimitAllHit(x, s)
  BY <1>6, <1>7, <1>8, <1>31, <1>33, <1>34, <1>35, <1>36 DEF LimitAllHit
<1>38. \A y \in DOMAIN s : LimitEnd(y) \in Int
  <2>1. \A y \in DOMAIN t : LimitEnd(y) \in Int
    BY <1>2, LimitTallyKeys
  <2> QED BY <1>15, <1>27, <2>1
<1>39. LimitRequestInv(Limits!Settle(x), s)
  BY <1>4, <1>37, <1>38, LimitSettle
<1>40. req' = [req EXCEPT ![r] = Limits!Settle(x)]
  BY <1>1, <1>3, <1>7, <1>30, <1>32 DEF Limits!CheckInMemory
<1>41. LimitRequestsOK'
  BY <1>20, <1>26, <1>27, <1>39, <1>40, LimitMoves
<1> QED BY <1>23, <1>25, <1>41 DEF LimitInv

(* ------------------------------- Theorems -------------------------------- *)
(* ------------------------------- Theorems -------------------------------- *)
\* Limits brings the Cardinality of its own instance of FiniteSets.
LEMMA LimitCardinality == \A S : Limits!Cardinality(S) = Cardinality(S)
  BY DEF Cardinality, Limits!Cardinality

\* There are n numbers from 1 to n.
LEMMA LimitUpto ==
  ASSUME NEW n \in Nat
  PROVE  IsFiniteSet(1 .. n) /\ Cardinality(1 .. n) = n
<1>1. IsFiniteSet(1 .. n) /\ Cardinality(1 .. n) = IF 1 > n THEN 0 ELSE n - 1 + 1
  BY FS_Interval
<1> QED BY <1>1

\* The invariant holds of a new deployment.
LEMMA LimitInvInit == Limits!SitesHold /\ Limits!Init => LimitInv
<1> SUFFICES ASSUME Limits!SitesHold, Limits!Init PROVE LimitInv
  OBVIOUS
<1>1. LimitCountersOK
  BY DEF Limits!Init, LimitCountersOK, Limits!SitesHold
<1>2. LimitTallyOK
  BY DEF Limits!Init, LimitTallyOK, LimitTold
<1>3. ASSUME NEW t, DOMAIN t = {} PROVE LimitRequestInv(Limits!Fresh, t)
  <2>1. /\ LimitIsRequest(Limits!Fresh) /\ Limits!Fresh.at = "new" /\ Limits!Fresh.route = <<>>
        /\ Limits!Fresh.todo = {} /\ Limits!Fresh.due = {}
        /\ Limits!Fresh.waits = {} /\ Limits!Fresh.untimed = {} /\ Limits!Fresh.verdicts = <<>>
        /\ Limits!Fresh.decisions = <<>>
    BY DEF Limits!Fresh, LimitIsRequest
  <2>2. LimitPlanOK(Limits!Fresh) /\ LimitPlaceOK(Limits!Fresh)
    BY <2>1 DEF LimitPlanOK, LimitPlaceOK
  <2>3. LimitAheadOK(Limits!Fresh, t) /\ LimitItemsOK(Limits!Fresh, t)
      /\ LimitOutcomeOK(Limits!Fresh, t)
    BY <1>3, <2>1 DEF LimitAheadOK, LimitItemsOK, LimitOutcomeOK
  <2> QED BY <2>1, <2>2, <2>3 DEF LimitRequestInv, LimitLabel
<1>4. \A r \in Request : req[r] = Limits!Fresh /\ DOMAIN tally[r] = {}
  BY DEF Limits!Init
<1>5. LimitRequestsOK
  BY <1>3, <1>4 DEF Limits!Init, LimitRequestsOK
<1> QED BY <1>1, <1>2, <1>5 DEF LimitInv

\* Every step keeps it.
LEMMA LimitInvStep ==
  ASSUME Limits!SitesHold
  PROVE  LimitInv /\ [Limits!Next]_Limits!vars => LimitInv'
<1> SUFFICES ASSUME LimitInv, [Limits!Next]_Limits!vars PROVE LimitInv'
  OBVIOUS
<1>1. ASSUME NEW r \in Request,
             \/ Limits!Arrive(r) \/ Limits!Evaluate(r) \/ Limits!CheckInMemory(r)
                \/ Limits!StartCheck(r)
             \/ \E i \in req[r].waits : Limits!Incr(r, i)
             \/ \E i \in req[r].untimed : Limits!Pexpire(r, i)
             \/ Limits!Die(r) \/ Limits!GuardRefuses(r)
      PROVE  LimitInv'
  BY <1>1, LimitArriveStep, LimitEvaluateStep, LimitInMemoryStep, LimitStartCheckStep, LimitIncrStep,
     LimitPexpireStep, LimitDieStep, LimitGuardStep
<1>2. CASE Limits!Tick
  BY <1>2, LimitTickStep
<1>3. CASE UNCHANGED Limits!vars
  <2>1. UNCHANGED <<site, now, counters, req, tally>>
    BY <1>3 DEF Limits!vars
  <2>2. LimitCountersOK' /\ LimitTallyOK'
    BY <2>1, LimitQuiet DEF LimitInv, LimitCountersOK
  <2>3. ASSUME NEW x \in Request PROVE LimitRequestInv(req[x], tally[x])'
    <3>1. PICK q, t : q = req[x] /\ t = tally[x]
      OBVIOUS
    <3>2. LimitRequestInv(q, t) /\ now \in Nat /\ site \in Sites
      BY <3>1 DEF LimitInv, LimitRequestsOK, LimitCountersOK
    <3>3. LimitRequestInv(q, t)'
      BY <2>1, <3>2, LimitStays
    <3>4. q = req'[x] /\ t = tally'[x]
      BY <2>1, <3>1
    <3> QED BY <3>3, <3>4, LimitIs
  <2> QED BY <2>1, <2>2, <2>3 DEF LimitInv, LimitRequestsOK
<1> QED BY <1>1, <1>2, <1>3 DEF Limits!Next

\* What was told of a key a request was counted on.
LEMMA LimitToldOK ==
  ASSUME Limits!SitesHold, LimitInv, NEW r \in Request, NEW k \in DOMAIN tally[r]
  PROVE  /\ k \in DOMAIN counters /\ Limits!RuleOf(k).limit \in Nat /\ counters[k].count \in Nat
         /\ \E n \in Nat : tally[r][k] = {n} /\ 1 <= n /\ n <= counters[k].count
<1>1. k \in DOMAIN counters /\ site \in Sites
  BY DEF LimitInv, LimitTallyOK, LimitCountersOK
<1>2. LimitKeyOK(k) /\ counters[k].count \in Nat
  BY <1>1 DEF LimitInv, LimitCountersOK, LimitCounterOK
<1>3. PICK n \in tally[r][k] : TRUE
  BY DEF LimitInv, LimitTallyOK
<1>4. n \in Nat /\ 1 <= n /\ n <= counters[k].count /\ \A m \in tally[r][k] : m = n
  BY DEF LimitInv, LimitTallyOK
<1>5. tally[r][k] = {n}
  BY <1>3, <1>4
<1> QED BY <1>1, <1>2, <1>4, <1>5, LimitKeyRule

\* The requests served in a window were told different counts, none above the limit.
LEMMA LimitBudgets ==
  ASSUME Limits!SitesHold, LimitInv
  PROVE  Limits!BudgetsHold
<1> SUFFICES ASSUME NEW k \in Limits!EveryKey
             PROVE  Cardinality({r \in Limits!CountedOn(k) : req[r].at = "served"})
                        <= Limits!RuleOf(k).limit
  BY LimitCardinality DEF Limits!BudgetsHold
<1>1. PICK S : S = {r \in Limits!CountedOn(k) : req[r].at = "served"}
  OBVIOUS
<1>2. PICK limit : limit = Limits!RuleOf(k).limit
  OBVIOUS
<1>3. limit \in Nat
  BY <1>2, LimitToldOK DEF Limits!EveryKey
<1>4. \A r \in S : r \in Request /\ k \in DOMAIN tally[r] /\ req[r].at = "served"
  BY <1>1 DEF Limits!CountedOn
<1>5. PICK f : f = [r \in S |-> CHOOSE n : n \in tally[r][k]]
  OBVIOUS
<1>6. ASSUME NEW r \in S PROVE f[r] \in 1 .. limit /\ tally[r][k] = {f[r]}
  <2>1. PICK n \in Nat : tally[r][k] = {n} /\ 1 <= n
    BY <1>4, LimitToldOK
  <2>2. f[r] = n
    BY <1>5, <2>1
  <2>3. PICK q, t : q = req[r] /\ t = tally[r]
    OBVIOUS
  <2>4. LimitRequestInv(q, t) /\ q.at = "served" /\ k \in DOMAIN t
    BY <1>4, <2>3 DEF LimitInv, LimitRequestsOK
  <2>5. ~LimitOver(t, k)
    <3>1. LimitItemsOK(q, t) /\ LimitOutcomeOK(q, t) /\ q.verdicts = <<>>
      BY <2>4 DEF LimitRequestInv, LimitPlaceOK
    <3>2. ~LimitShown(q, k)
      BY <2>4, <3>1 DEF LimitOutcomeOK, LimitShown, LimitShows
    <3> QED BY <2>4, <3>1, <3>2 DEF LimitItemsOK
  <2>6. n <= limit
    BY <1>2, <1>3, <1>4, <2>1, <2>3, <2>5 DEF LimitOver
  <2> QED BY <1>3, <2>1, <2>2, <2>6
<1>7. ASSUME NEW a \in S, NEW b \in S, f[a] = f[b] PROVE a = b
  <2>1. f[a] \in tally[a][k] /\ f[a] \in tally[b][k] /\ a \in Request /\ b \in Request
        /\ k \in DOMAIN tally[a] /\ k \in DOMAIN tally[b]
    BY <1>4, <1>6, <1>7
  <2> QED BY <2>1 DEF LimitInv, LimitTallyOK, LimitTold
<1>8. f \in Injection(S, 1 .. limit)
  <2>1. f \in [S -> 1 .. limit]
    BY <1>5, <1>6
  <2> QED BY <1>7, <2>1 DEF Injection, IsInjective
<1>9. IsFiniteSet(1 .. limit) /\ Cardinality(1 .. limit) = limit
  BY <1>3, LimitUpto
<1>10. Cardinality(S) <= Cardinality(1 .. limit)
  BY <1>8, <1>9, FS_Injection
<1> QED BY <1>1, <1>2, <1>9, <1>10

\* The counts up to the limit were told to different requests, none of them the rejected one.
LEMMA LimitRejections ==
  ASSUME Limits!SitesHold, LimitInv
  PROVE  Limits!RejectionsAreEarned
<1> SUFFICES ASSUME NEW r \in Request, req[r].at = "rejected"
             PROVE  LET over == {k \in DOMAIN tally[r] :
                                     \E n \in tally[r][k] : n > Limits!RuleOf(k).limit}
                    IN /\ over # {}
                       /\ \A k \in over :
                              /\ Cardinality(Limits!CountedOn(k) \ {r}) >= Limits!RuleOf(k).limit
                              /\ req[r].decisions[1].resetAt >= k.start + Limits!RuleOf(k).window
  BY LimitCardinality DEF Limits!RejectionsAreEarned
<1>1. PICK q, t : q = req[r] /\ t = tally[r]
  OBVIOUS
<1>2. LimitItemsOK(q, t) /\ q.verdicts = <<>> /\ Len(q.decisions) = 1 /\ q.decisions[1].violated
  BY <1>1 DEF LimitInv, LimitRequestsOK, LimitRequestInv, LimitPlaceOK, LimitOutcomeOK
<1>3. DOMAIN q.decisions = {1} /\ q.decisions[1] \in LimitItem
  <2>1. q.decisions \in Seq(LimitItem)
    BY <1>2 DEF LimitItemsOK
  <2>2. DOMAIN q.decisions = 1 .. 1
    BY <1>2, <2>1
  <2>3. 1 .. 1 = {1}
    OBVIOUS
  <2> QED BY <2>1, <2>2, <2>3
<1>4. \E k \in DOMAIN t : LimitOver(t, k)
  BY <1>2, <1>3 DEF LimitItemsOK
<1>5. ASSUME NEW k \in DOMAIN t, LimitOver(t, k)
      PROVE  Cardinality(Limits!CountedOn(k) \ {r}) >= Limits!RuleOf(k).limit
             /\ q.decisions[1].resetAt >= LimitEnd(k)
  <2>1. q.decisions[1].resetAt >= LimitEnd(k)
    <3>1. LimitShows(q.decisions[1], k)
      BY <1>2, <1>3, <1>5 DEF LimitItemsOK, LimitShown
    <3>2. LimitEnd(k) \in Int /\ q.decisions[1].resetAt \in Int
      BY <1>1, <1>3, LimitTallyKeys DEF LimitItem
    <3> QED BY <3>1, <3>2 DEF LimitShows
  <2>2. PICK limit : limit = Limits!RuleOf(k).limit
    OBVIOUS
  <2>3. PICK n \in Nat : tally[r][k] = {n} /\ 1 <= n /\ n <= counters[k].count
    BY <1>1, LimitToldOK
  <2>4. limit \in Nat /\ counters[k].count \in Nat /\ k \in DOMAIN counters /\ limit < n
    <3>1. limit \in Nat /\ counters[k].count \in Nat /\ k \in DOMAIN counters
      BY <1>1, <2>2, LimitToldOK
    <3>2. \E m \in {n} : m > limit
      BY <1>1, <1>5, <2>2, <2>3 DEF LimitOver
    <3> QED BY <2>3, <3>1, <3>2
  <2>5. PICK T : T = Limits!CountedOn(k) \ {r}
    OBVIOUS
  <2>6. \A x \in T : x \in Request /\ k \in DOMAIN tally[x] /\ x # r
    BY <2>5 DEF Limits!CountedOn
  <2>7. IsFiniteSet(T)
    <3>1. PICK f : f = [x \in T |-> CHOOSE m : m \in tally[x][k]]
      OBVIOUS
    <3>2. ASSUME NEW x \in T PROVE f[x] \in 1 .. counters[k].count /\ tally[x][k] = {f[x]}
      <4>1. PICK m \in Nat : tally[x][k] = {m} /\ 1 <= m /\ m <= counters[k].count
        BY <2>6, LimitToldOK
      <4>2. f[x] = m
        BY <3>1, <4>1
      <4> QED BY <2>4, <4>1, <4>2
    <3>3. ASSUME NEW a \in T, NEW b \in T, f[a] = f[b] PROVE a = b
      <4>1. f[a] \in tally[a][k] /\ f[a] \in tally[b][k]
        BY <3>2, <3>3
      <4> QED BY <2>6, <4>1 DEF LimitInv, LimitTallyOK, LimitTold
    <3>4. f \in Injection(T, 1 .. counters[k].count)
      <4>1. f \in [T -> 1 .. counters[k].count]
        BY <3>1, <3>2
      <4> QED BY <3>3, <4>1 DEF Injection, IsInjective
    <3>5. IsFiniteSet(1 .. counters[k].count)
      BY <2>4, LimitUpto
    <3> QED BY <3>4, <3>5, FS_Injection
  <2>8. PICK g : g = [m \in 1 .. limit |-> CHOOSE x \in Request : LimitTold(tally[x], k, m)]
    OBVIOUS
  <2>9. ASSUME NEW m \in 1 .. limit PROVE g[m] \in T /\ tally[g[m]][k] = {m}
    <3>1. m \in 1 .. counters[k].count
      BY <2>3, <2>4
    <3>2. \E x \in Request : LimitTold(tally[x], k, m)
      BY <2>4, <3>1 DEF LimitInv, LimitTallyOK
    <3>3. g[m] \in Request /\ k \in DOMAIN tally[g[m]] /\ m \in tally[g[m]][k]
      BY <2>8, <3>2 DEF LimitTold
    <3>4. tally[g[m]][k] = {m}
      BY <3>3, LimitToldOK
    <3>5. g[m] # r
      BY <2>3, <2>4, <3>4
    <3> QED BY <2>5, <3>3, <3>4, <3>5 DEF Limits!CountedOn
  <2>10. g \in Injection(1 .. limit, T)
    <3>1. g \in [1 .. limit -> T]
      BY <2>8, <2>9
    <3>2. ASSUME NEW a \in 1 .. limit, NEW b \in 1 .. limit, g[a] = g[b] PROVE a = b
      BY <2>9, <3>2
    <3> QED BY <3>1, <3>2 DEF Injection, IsInjective
  <2>11. Cardinality(1 .. limit) <= Cardinality(T)
    BY <2>7, <2>10, FS_Injection
  <2>12. Cardinality(1 .. limit) = limit
    BY <2>4, LimitUpto
  <2>13. Cardinality(T) \in Nat
    BY <2>7, FS_CardinalityType
  <2> QED BY <2>1, <2>2, <2>4, <2>5, <2>11, <2>12, <2>13
<1>6. \A k \in DOMAIN t : LimitOver(t, k) <=> \E n \in tally[r][k] : n > Limits!RuleOf(k).limit
  BY <1>1 DEF LimitOver
<1> QED BY <1>1, <1>4, <1>5, <1>6 DEF LimitEnd

(***************************************************************************)
(* FederatedLogin                                                           *)
(***************************************************************************)

(* ------------------------------ The invariant ---------------------------- *)
LoginSub == Subjects \cup {""}
LoginNames == {Logins!NoUser} \cup DOMAIN Locals \cup {Logins!Desired(s) : s \in Subjects} \cup {Logins!Fallback(s) : s \in Subjects}
LoginIdentity == [sub : Subjects, user : LoginNames]
LoginFlow == [browser : Browsers, user : LoginNames, exp : Nat]
LoginLabel == {"idle", "resolve", "match", "create", "createFallback", "activate", "link", "touchFind",
          "touchReplace", "linkIdentity", "prove", "gate", "enter", "unlink"}
LoginCallState == [at : LoginLabel, browser : Browsers \cup {0}, sub : LoginSub, user : LoginNames,
              row : [id : Nat, sub : LoginSub, user : LoginNames], ends : {"gate", "enter", "idle"}]

LoginIds == DOMAIN rows \cup removed
LoginStoresOK ==
    /\ DOMAIN users \subseteq LoginNames
    /\ rows \in [DOMAIN rows -> LoginIdentity]
    /\ flows \in Seq(LoginFlow) /\ cookie \in [Browsers -> Nat]
    /\ codes \subseteq [seed : Nat, sub : Subjects]
    /\ now \in Nat

\* Every row has a number of its own, also of those that were removed.
LoginNumbersHold ==
    /\ IsFiniteSet(DOMAIN rows) /\ IsFiniteSet(removed)
    /\ removed \cap DOMAIN rows = {}
    /\ LoginIds = 1 .. Cardinality(DOMAIN rows) + Cardinality(removed)

LoginRowsHold ==
    /\ \A i \in DOMAIN rows : <<rows[i].sub, rows[i].user>> \in earned
    /\ \A i, j \in DOMAIN rows : rows[i].sub = rows[j].sub => i = j

\* The seed in a browser's cookie is of a round trip that began there.
LoginCookiesHold ==
    \A b \in Browsers : cookie[b] <= Len(flows) /\ (cookie[b] # 0 => flows[cookie[b]].browser = b)

\* What a call links, touches or signs in belongs together; the row it is to write
\* back is as it was read, or gone.
LoginEarned == {"activate", "link", "touchFind", "touchReplace", "linkIdentity", "gate", "enter"}
LoginCallHolds(k) ==
    /\ k.at # "idle" => k.sub \in Subjects
    /\ k.at \in LoginEarned => <<k.sub, k.user>> \in earned
    /\ k.at = "touchReplace" =>
          /\ k.row.id \in LoginIds
          /\ k.row.id \in DOMAIN rows => rows[k.row.id] = [sub |-> k.row.sub, user |-> k.row.user]

LoginStoresHold == LoginStoresOK /\ LoginNumbersHold /\ LoginRowsHold /\ LoginCookiesHold /\ entered \subseteq earned
LoginCallsHold == \A c \in LoginCalls : LoginCallHolds(call[c])
LoginInv == LoginStoresHold /\ call \in [LoginCalls -> LoginCallState] /\ LoginCallsHold

(* ------------------------------ What a step keeps ------------------------ *)
\* Nothing that belongs together is forgotten, no row changes, and none comes back.
LoginLater ==
    /\ earned \subseteq earned' /\ LoginIds \subseteq LoginIds'
    /\ \A i \in LoginIds : i \in DOMAIN rows' => i \in DOMAIN rows /\ rows'[i] = rows[i]

LEMMA LoginCallStays ==
  ASSUME LoginLater, NEW k, LoginCallHolds(k)
  PROVE  LoginCallHolds(k)'
BY DEF LoginCallHolds, LoginLater

LEMMA LoginCallStep ==
  ASSUME LoginInv, NEW c \in LoginCalls, NEW k \in LoginCallState, Logins!Goes(c, k),
         LoginStoresHold', LoginLater, LoginCallHolds(k)'
  PROVE  LoginInv'
<1>1. call' \in [LoginCalls -> LoginCallState] /\ \A d \in LoginCalls : call'[d] = IF d = c THEN k ELSE call[d]
  BY DEF LoginInv, Logins!Goes
<1>2. ASSUME NEW d \in LoginCalls PROVE LoginCallHolds(call[d])'
  <2>1. CASE d = c
    BY <1>1, <2>1 DEF LoginCallHolds
  <2>2. CASE d # c
    <3>1. PICK q : q = call[d]
      OBVIOUS
    <3>2. LoginCallHolds(q)'
      BY <3>1, LoginCallStays DEF LoginInv, LoginCallsHold
    <3> QED BY <1>1, <2>2, <3>1, <3>2 DEF LoginCallHolds
  <2> QED BY <2>1, <2>2
<1> QED BY <1>1, <1>2 DEF LoginInv, LoginCallsHold

LEMMA LoginNoCallStep ==
  ASSUME LoginInv, call' = call, LoginStoresHold', LoginLater
  PROVE  LoginInv'
<1>1. ASSUME NEW d \in LoginCalls PROVE LoginCallHolds(call[d])'
  <2>1. PICK q : q = call[d]
    OBVIOUS
  <2>2. LoginCallHolds(q)'
    BY <2>1, LoginCallStays DEF LoginInv, LoginCallsHold
  <2> QED BY <2>1, <2>2 DEF LoginCallHolds
<1> QED BY <1>1 DEF LoginInv, LoginCallsHold

LEMMA LoginIdleHolds == Logins!Idle \in LoginCallState /\ LoginCallHolds(Logins!Idle) /\ LoginCallHolds(Logins!Idle)'
<1>1. Logins!NoUser \in LoginNames /\ "" \in LoginSub
  BY DEF LoginNames, LoginSub
<1>2. Logins!Idle \in LoginCallState
  BY <1>1 DEF Logins!Idle, Logins!NoRow, LoginCallState, LoginLabel
<1> QED BY <1>2 DEF Logins!Idle, LoginCallHolds, LoginEarned

\* The stores but for the rows, and what belongs together, which only grows.
LEMMA LoginStoresStay ==
  ASSUME LoginStoresHold, rows' = rows, removed' = removed, earned \subseteq earned',
         DOMAIN users' \subseteq LoginNames,
         entered' = entered, flows' = flows, cookie' = cookie, codes' \subseteq codes, now' = now
  PROVE  LoginStoresHold' /\ LoginLater
<1>1. LoginIds' = LoginIds /\ LoginNumbersHold'
  BY DEF LoginIds, LoginStoresHold, LoginNumbersHold
<1>2. LoginStoresOK'
  BY DEF LoginStoresHold, LoginStoresOK
<1>3. LoginRowsHold' /\ LoginCookiesHold' /\ entered' \subseteq earned'
  BY DEF LoginStoresHold, LoginRowsHold, LoginCookiesHold
<1>4. LoginLater
  BY <1>1 DEF LoginLater
<1> QED BY <1>1, <1>2, <1>3, <1>4 DEF LoginStoresHold

(* --------------------------------- Actions ------------------------------- *)
LEMMA LoginCallState1 ==
  ASSUME LoginInv, NEW c \in LoginCalls
  PROVE  /\ call[c] \in LoginCallState /\ LoginCallHolds(call[c])
BY DEF LoginInv, LoginCallsHold

LEMMA LoginEndsStep ==
  ASSUME LoginInv, NEW c \in LoginCalls, Logins!Ends(c), LoginStoresHold', LoginLater,
         call[c].at \in LoginEarned
  PROVE  LoginInv'
<1>1. PICK q \in LoginCallState : q = call[c] /\ LoginCallHolds(q)
  BY LoginCallState1
<1>2. CASE q.ends = "idle"
  BY <1>1, <1>2, LoginIdleHolds, LoginCallStep DEF Logins!Ends
<1>3. CASE q.ends # "idle"
  <2>1. Logins!NoRow \in [id : Nat, sub : LoginSub, user : LoginNames]
    BY DEF Logins!NoRow, LoginSub, LoginNames
  <2>2. PICK k : k = [q EXCEPT !.at = q.ends, !.row = Logins!NoRow]
    OBVIOUS
  <2>3. Logins!Goes(c, k)
    BY <1>1, <1>3, <2>2 DEF Logins!Ends
  <2>4. k \in LoginCallState
    BY <1>3, <2>1, <2>2 DEF LoginCallState, LoginLabel
  <2>5. k.at \in {"gate", "enter"} /\ k.sub = q.sub /\ k.user = q.user
    BY <1>3, <2>2 DEF LoginCallState
  <2>6. LoginCallHolds(k)'
    BY <1>1, <2>5 DEF LoginCallHolds, LoginEarned, LoginLater
  <2> QED BY <2>3, <2>4, <2>6, LoginCallStep
<1> QED BY <1>2, <1>3

\* A call goes on to a step for which what it is about belongs together, or to one
\* that asks for nothing.
LEMMA LoginGoesOn ==
  ASSUME LoginInv, NEW c \in LoginCalls, NEW label \in LoginLabel \ {"touchReplace"},
         NEW user \in LoginNames,
         NEW ends \in {"gate", "enter", "idle"},
         Logins!Goes(c, [call[c] EXCEPT !.at = label, !.user = user, !.ends = ends]),
         LoginStoresHold', LoginLater, call[c].at # "idle",
         label \in LoginEarned => <<call[c].sub, user>> \in earned'
  PROVE  LoginInv'
<1>1. PICK q \in LoginCallState : q = call[c] /\ LoginCallHolds(q)
  BY LoginCallState1
<1>2. PICK k : k = [q EXCEPT !.at = label, !.user = user, !.ends = ends]
  OBVIOUS
<1>3. Logins!Goes(c, k)
  BY <1>1, <1>2
<1>4. k \in LoginCallState
  BY <1>2 DEF LoginCallState
<1>5. k.at = label /\ k.sub = q.sub /\ k.user = user
  BY <1>2 DEF LoginCallState
<1>6. LoginCallHolds(k)'
  BY <1>1, <1>5 DEF LoginCallHolds
<1> QED BY <1>3, <1>4, <1>6, LoginCallStep

LEMMA LoginSameFields ==
  ASSUME NEW q \in LoginCallState, NEW x, NEW y
  PROVE  /\ [q EXCEPT !.at = x] = [q EXCEPT !.at = x, !.user = q.user, !.ends = q.ends]
         /\ [q EXCEPT !.at = x, !.user = y] = [q EXCEPT !.at = x, !.user = y, !.ends = q.ends]
         /\ [q EXCEPT !.at = x, !.ends = y] = [q EXCEPT !.at = x, !.user = q.user, !.ends = y]
BY DEF LoginCallState

LEMMA LoginCallEnds ==
  ASSUME LoginInv, NEW c \in LoginCalls, Logins!Goes(c, Logins!Idle), LoginStoresHold', LoginLater
  PROVE  LoginInv'
BY LoginIdleHolds, LoginCallStep

LEMMA LoginBeginStep ==
  ASSUME Logins!TablesHold, LoginInv, NEW b \in Browsers,
         NEW user \in {Logins!NoUser} \cup DOMAIN Locals, Logins!Begin(b, user)
  PROVE  LoginInv'
<1>1. PICK flow : flow = Logins!Authorization(b, user)
  OBVIOUS
<1>2. PICK n \in Nat : n = Len(flows) + 1 /\ flows \in Seq(LoginFlow)
  BY DEF LoginInv, LoginStoresHold, LoginStoresOK
<1>3. flow.browser = b /\ flow \in LoginFlow
  <2>1. now + TtlSec \in Nat /\ user \in LoginNames
    BY DEF Logins!TablesHold, LoginInv, LoginStoresHold, LoginStoresOK, LoginNames
  <2> QED BY <1>1, <2>1 DEF Logins!Authorization, LoginFlow
<1>4. flows' = Append(flows, flow) /\ cookie' = [cookie EXCEPT ![b] = n]
  BY <1>1, <1>2 DEF Logins!Begin
<1>5. /\ flows' \in Seq(LoginFlow) /\ Len(flows') = n /\ flows'[n] = flow
      /\ \A i \in 1 .. Len(flows) : flows'[i] = flows[i]
  BY <1>2, <1>3, <1>4
<1>6. cookie' \in [Browsers -> Nat] /\ \A a \in Browsers : cookie'[a] = IF a = b THEN n ELSE cookie[a]
  BY <1>2, <1>4 DEF LoginInv, LoginStoresHold, LoginStoresOK
<1>7. UNCHANGED <<users, rows, removed, codes, call, earned, entered, now>>
  BY DEF Logins!Begin
<1>8. LoginStoresOK' /\ LoginNumbersHold' /\ LoginRowsHold' /\ entered' \subseteq earned'
  BY <1>5, <1>6, <1>7 DEF LoginInv, LoginStoresHold, LoginStoresOK, LoginNumbersHold, LoginIds,
                          LoginRowsHold
<1>9. LoginCookiesHold'
  <2> SUFFICES ASSUME NEW a \in Browsers
               PROVE  cookie'[a] <= Len(flows') /\ (cookie'[a] # 0 => flows'[cookie'[a]].browser = a)
    BY DEF LoginCookiesHold
  <2>1. CASE a = b
    BY <1>2, <1>3, <1>5, <1>6, <2>1
  <2>2. CASE a # b
    <3>1. PICK i \in Nat : i = cookie[a] /\ cookie'[a] = i
      BY <1>6, <2>2 DEF LoginInv, LoginStoresHold, LoginStoresOK
    <3>2. i <= Len(flows) /\ (i # 0 => flows[i].browser = a)
      BY <3>1 DEF LoginInv, LoginStoresHold, LoginCookiesHold
    <3>3. i # 0 => flows'[i] = flows[i]
      BY <1>2, <1>5, <3>1, <3>2
    <3> QED BY <1>2, <1>5, <3>1, <3>2, <3>3
  <2> QED BY <2>1, <2>2
<1>10. LoginLater
  BY <1>7 DEF LoginLater, LoginIds
<1> QED BY <1>7, <1>8, <1>9, <1>10, LoginNoCallStep DEF LoginStoresHold

LEMMA LoginGrantStep ==
  ASSUME LoginInv, NEW seed \in DOMAIN flows, NEW sub \in Subjects, Logins!Grant(seed, sub)
  PROVE  LoginInv'
<1>1. seed \in Nat
  BY DEF LoginInv, LoginStoresHold, LoginStoresOK
<1>2. codes' = codes \cup {[seed |-> seed, sub |-> sub]}
      /\ UNCHANGED <<users, rows, removed, flows, cookie, call, earned, entered, now>>
  BY DEF Logins!Grant
<1>3. LoginStoresHold' /\ LoginLater
  BY <1>1, <1>2 DEF LoginInv, LoginStoresHold, LoginStoresOK, LoginNumbersHold, LoginIds,
                    LoginRowsHold, LoginCookiesHold, LoginLater
<1> QED BY <1>2, <1>3, LoginNoCallStep

\* A round trip ends in the browser it began in, so a link is asked for by its owner.
LEMMA LoginCallbackStep ==
  ASSUME LoginInv, NEW c \in LoginCalls, NEW b \in Browsers, NEW seed \in DOMAIN flows,
         NEW code \in codes,
         Logins!Callback(c, b, seed, code)
  PROVE  LoginInv'
<1>1. PICK flow \in LoginFlow : flow = flows[seed] /\ seed \in Nat /\ seed # 0
  BY DEF LoginInv, LoginStoresHold, LoginStoresOK
<1>2. flow.browser = b
  BY <1>1 DEF Logins!Callback, Logins!CsrfHolds, LoginInv, LoginStoresHold, LoginCookiesHold
<1>3. code.sub \in Subjects
  BY DEF LoginInv, LoginStoresHold, LoginStoresOK
<1>4. PICK sub \in Subjects : sub = code.sub
  BY <1>3
<1>5. codes' \subseteq codes /\ UNCHANGED <<users, rows, removed, flows, cookie, entered, now>>
  BY DEF Logins!Callback
<1>6. CASE flow.user # Logins!NoUser
  <2>1. PICK k : k = [Logins!Idle EXCEPT !.browser = b, !.sub = sub, !.user = flow.user,
                                  !.at = "linkIdentity", !.ends = "idle"]
    OBVIOUS
  <2>2. Logins!Goes(c, k) /\ earned' = earned \cup {<<sub, flow.user>>}
    BY <1>1, <1>2, <1>4, <1>6, <2>1 DEF Logins!Callback, Logins!Idle
  <2>3. k \in LoginCallState
    BY <2>1, LoginIdleHolds DEF LoginCallState, LoginLabel, LoginSub, LoginFlow
  <2>4. k.at = "linkIdentity" /\ k.sub = sub /\ k.user = flow.user
    BY <2>1 DEF Logins!Idle
  <2>5. LoginCallHolds(k)'
    BY <2>2, <2>4 DEF LoginCallHolds
  <2> QED BY <1>5, <2>2, <2>3, <2>5, LoginStoresStay, LoginCallStep DEF LoginInv, LoginStoresHold,
                                                                        LoginStoresOK
<1>7. CASE flow.user = Logins!NoUser
  <2>1. PICK k : k = [Logins!Idle EXCEPT !.browser = b, !.sub = sub, !.user = flow.user, !.at = "resolve"]
    OBVIOUS
  <2>2. Logins!Goes(c, k) /\ earned' = earned
    BY <1>1, <1>4, <1>7, <2>1 DEF Logins!Callback, Logins!Idle
  <2>3. k \in LoginCallState
    BY <2>1, LoginIdleHolds DEF LoginCallState, LoginLabel, LoginSub, LoginFlow
  <2>4. k.at = "resolve" /\ k.sub = sub
    BY <2>1 DEF Logins!Idle
  <2>5. LoginCallHolds(k)'
    BY <2>4 DEF LoginCallHolds, LoginEarned
  <2> QED BY <1>5, <2>2, <2>3, <2>5, LoginStoresStay, LoginCallStep DEF LoginInv, LoginStoresHold,
                                                                        LoginStoresOK
<1> QED BY <1>6, <1>7

LEMMA LoginResolveStep ==
  ASSUME LoginInv, NEW c \in LoginCalls, Logins!Resolve(c)
  PROVE  LoginInv'
<1>1. PICK q \in LoginCallState : q = call[c] /\ q.at = "resolve"
  BY LoginCallState1 DEF Logins!Resolve, Logins!At
<1>2. LoginStoresHold' /\ LoginLater
  BY LoginStoresStay DEF Logins!Resolve, LoginInv, LoginStoresHold, LoginStoresOK
<1>3. CASE Logins!RowsOf(q.sub) # {}
  <2>1. PICK i \in Logins!RowsOf(q.sub) : Logins!Goes(c, [q EXCEPT !.at = "touchFind", !.user = rows[i].user, !.ends = "gate"])
    BY <1>1, <1>3 DEF Logins!Resolve
  <2>2. <<q.sub, rows[i].user>> \in earned' /\ rows[i].user \in LoginNames
    BY DEF Logins!RowsOf, LoginInv, LoginStoresHold, LoginStoresOK, LoginRowsHold, Logins!Resolve,
           LoginIdentity
  <2>3. "touchFind" \in LoginLabel \ {"touchReplace"}
    BY DEF LoginLabel
  <2> QED BY <1>1, <1>2, <2>1, <2>2, <2>3, LoginGoesOn
<1>4. CASE Logins!RowsOf(q.sub) = {}
  <2>1. PICK label \in {"match", "create"} : Logins!Goes(c, [q EXCEPT !.at = label])
    BY <1>1, <1>4 DEF Logins!Resolve
  <2>2. label \in LoginLabel \ {"touchReplace"} /\ label \notin LoginEarned
    BY DEF LoginLabel, LoginEarned
  <2>3. Logins!Goes(c, [q EXCEPT !.at = label, !.user = q.user, !.ends = q.ends])
    BY <2>1, LoginSameFields
  <2>4. q.user \in LoginNames /\ q.ends \in {"gate", "enter", "idle"}
    BY DEF LoginCallState
  <2> QED BY <1>1, <1>2, <2>2, <2>3, <2>4, LoginGoesOn
<1> QED BY <1>3, <1>4

LEMMA LoginMatchStep ==
  ASSUME LoginInv, NEW c \in LoginCalls, Logins!Match(c)
  PROVE  LoginInv'
<1>1. PICK q \in LoginCallState : q = call[c] /\ q.at = "match"
  BY LoginCallState1 DEF Logins!Match, Logins!At
<1>2. earned \subseteq earned'
  BY DEF Logins!Match, Logins!Earn
<1>3. LoginStoresHold' /\ LoginLater
  BY <1>2, LoginStoresStay DEF Logins!Match, LoginInv, LoginStoresHold, LoginStoresOK
<1>4. q.user \in LoginNames /\ q.ends \in {"gate", "enter", "idle"} /\ "gate" \in {"gate", "enter", "idle"}
  BY DEF LoginCallState
<1>5. CASE Logins!Holding(Emails[q.sub]) = {}
  <2>1. Logins!Goes(c, [q EXCEPT !.at = "create", !.user = q.user, !.ends = q.ends])
    BY <1>1, <1>5, LoginSameFields DEF Logins!Match
  <2>2. "create" \in LoginLabel \ {"touchReplace"} /\ "create" \notin LoginEarned
    BY DEF LoginLabel, LoginEarned
  <2> QED BY <1>1, <1>3, <1>4, <2>1, <2>2, LoginGoesOn
<1>6. CASE Logins!Holding(Emails[q.sub]) # {}
  <2>1. PICK n \in Logins!Holding(Emails[q.sub]) :
           IF Logins!CanAutoLink(q.sub)
           THEN Logins!Goes(c, [q EXCEPT !.at = "link", !.user = n, !.ends = "gate"]) /\ Logins!Earn(q.sub, n)
           ELSE Logins!Goes(c, [q EXCEPT !.at = "prove", !.user = n])
    BY <1>1, <1>6 DEF Logins!Match
  <2>2. n \in LoginNames
    BY DEF Logins!Holding, LoginInv, LoginStoresHold, LoginStoresOK
  <2>3. CASE Logins!CanAutoLink(q.sub)
    <3>1. Logins!Goes(c, [q EXCEPT !.at = "link", !.user = n, !.ends = "gate"]) /\ <<q.sub, n>> \in earned'
      BY <2>1, <2>3 DEF Logins!Earn
    <3>2. "link" \in LoginLabel \ {"touchReplace"}
      BY DEF LoginLabel
    <3> QED BY <1>1, <1>3, <1>4, <2>2, <3>1, <3>2, LoginGoesOn
  <2>4. CASE ~Logins!CanAutoLink(q.sub)
    <3>1. Logins!Goes(c, [q EXCEPT !.at = "prove", !.user = n, !.ends = q.ends])
      BY <2>1, <2>4, LoginSameFields
    <3>2. "prove" \in LoginLabel \ {"touchReplace"} /\ "prove" \notin LoginEarned
      BY DEF LoginLabel, LoginEarned
    <3> QED BY <1>1, <1>3, <1>4, <2>2, <3>1, <3>2, LoginGoesOn
  <2> QED BY <2>3, <2>4
<1> QED BY <1>5, <1>6

LEMMA LoginCreateStep ==
  ASSUME LoginInv, NEW c \in LoginCalls, Logins!CreateFederatedUser(c)
  PROVE  LoginInv'
<1>1. PICK q \in LoginCallState : q = call[c] /\ q.at \in {"create", "createFallback"} /\ LoginCallHolds(q)
  BY LoginCallState1 DEF Logins!CreateFederatedUser, Logins!At
<1>2. PICK name : name = IF Logins!At(c, "create") THEN Logins!Desired(q.sub) ELSE Logins!Fallback(q.sub)
  OBVIOUS
<1>3. q.sub \in Subjects /\ name \in LoginNames
  BY <1>1, <1>2 DEF LoginCallHolds, LoginNames
<1>4. UNCHANGED <<rows, removed, flows, cookie, codes, entered, now>>
  BY DEF Logins!CreateFederatedUser
<1>5. q.user \in LoginNames /\ q.ends \in {"gate", "enter", "idle"}
  BY DEF LoginCallState
<1>6. CASE name \in DOMAIN users
  <2>1. Logins!Goes(c, IF name = Logins!Fallback(q.sub) THEN Logins!Idle ELSE [q EXCEPT !.at = "createFallback"])
        /\ UNCHANGED <<users, earned>>
    BY <1>1, <1>2, <1>6 DEF Logins!CreateFederatedUser
  <2>2. LoginStoresHold' /\ LoginLater
    BY <1>4, <2>1, LoginStoresStay DEF LoginInv, LoginStoresHold, LoginStoresOK
  <2>3. CASE Logins!Goes(c, Logins!Idle)
    BY <2>2, <2>3, LoginCallEnds
  <2>4. CASE Logins!Goes(c, [q EXCEPT !.at = "createFallback"])
    <3>1. "createFallback" \in LoginLabel \ {"touchReplace"} /\ "createFallback" \notin LoginEarned
      BY DEF LoginLabel, LoginEarned
    <3>2. Logins!Goes(c, [q EXCEPT !.at = "createFallback", !.user = q.user, !.ends = q.ends])
      BY <2>4, LoginSameFields
    <3> QED BY <1>1, <1>5, <2>2, <3>1, <3>2, LoginGoesOn
  <2> QED BY <2>1, <2>3, <2>4
<1>7. CASE name \notin DOMAIN users
  <2>1. /\ DOMAIN users' = DOMAIN users \cup {name}
        /\ Logins!Goes(c, [q EXCEPT !.at = "activate", !.user = name]) /\ earned' = earned \cup {<<q.sub, name>>}
    BY <1>1, <1>2, <1>7 DEF Logins!CreateFederatedUser, Logins!Earn
  <2>2. LoginStoresHold' /\ LoginLater
    BY <1>3, <1>4, <2>1, LoginStoresStay DEF LoginInv, LoginStoresHold, LoginStoresOK
  <2>3. "activate" \in LoginLabel \ {"touchReplace"}
    BY DEF LoginLabel
  <2>4. Logins!Goes(c, [q EXCEPT !.at = "activate", !.user = name, !.ends = q.ends])
    BY <2>1, LoginSameFields
  <2> QED BY <1>1, <1>3, <1>5, <2>1, <2>2, <2>3, <2>4, LoginGoesOn
<1> QED BY <1>6, <1>7

LEMMA LoginActivateStep ==
  ASSUME LoginInv, NEW c \in LoginCalls, Logins!ActivateAccount(c)
  PROVE  LoginInv'
<1>1. PICK q \in LoginCallState : q = call[c] /\ q.at = "activate" /\ LoginCallHolds(q)
  BY LoginCallState1 DEF Logins!ActivateAccount, Logins!At
<1>2. DOMAIN users' = DOMAIN users
  BY DEF Logins!ActivateAccount
<1>3. LoginStoresHold' /\ LoginLater
  BY <1>2, LoginStoresStay DEF Logins!ActivateAccount, LoginInv, LoginStoresHold, LoginStoresOK
<1>4. Logins!Goes(c, [q EXCEPT !.at = "link", !.user = q.user, !.ends = q.ends])
  BY <1>1, LoginSameFields DEF Logins!ActivateAccount
<1>5. <<q.sub, q.user>> \in earned' /\ q.user \in LoginNames /\ q.ends \in {"gate", "enter", "idle"}
      /\ "link" \in LoginLabel \ {"touchReplace"}
  BY <1>1 DEF LoginCallHolds, LoginEarned, Logins!ActivateAccount, LoginCallState, LoginLabel
<1> QED BY <1>1, <1>3, <1>4, <1>5, LoginGoesOn

(* --------------------------- The identity table -------------------------- *)
\* Logins brings the Cardinality of its own instance of FiniteSets.
LEMMA LoginCardinality == \A S : Logins!Cardinality(S) = Cardinality(S)
  BY DEF Cardinality, Logins!Cardinality

LEMMA LoginInsertedStores ==
  ASSUME LoginInv, NEW sub \in Subjects, NEW user \in LoginNames, Logins!Insert(sub, user),
         <<sub, user>> \in earned,
         UNCHANGED <<users, removed, flows, cookie, codes, earned, entered, now>>
  PROVE  LoginStoresHold' /\ LoginLater
<1>1. PICK m, n : m = Cardinality(DOMAIN rows) /\ n = Cardinality(removed)
  OBVIOUS
<1>2. m \in Nat /\ n \in Nat
  BY <1>1, FS_CardinalityType DEF LoginInv, LoginStoresHold, LoginNumbersHold
<1>3. PICK id \in Nat : id = m + n + 1
  BY <1>2
<1>4. id \notin LoginIds /\ LoginIds = 1 .. m + n
  BY <1>1, <1>2, <1>3 DEF LoginInv, LoginStoresHold, LoginNumbersHold
<1>5. PICK new : new = [sub |-> sub, user |-> user]
  OBVIOUS
<1>6. new \in LoginIdentity /\ new.sub = sub /\ new.user = user
  BY <1>5 DEF LoginIdentity
<1>7. rows' = [i \in DOMAIN rows \cup {id} |-> IF i \in DOMAIN rows THEN rows[i] ELSE new]
  <2>1. rows' = [i \in DOMAIN rows \cup {Cardinality(DOMAIN rows) + Cardinality(removed) + 1} |->
                    IF i \in DOMAIN rows THEN rows[i] ELSE [sub |-> sub, user |-> user]]
    BY LoginCardinality DEF Logins!Insert, Logins!NewIdentity
  <2>2. Cardinality(DOMAIN rows) + Cardinality(removed) + 1 = id
    BY <1>1, <1>3
  <2> QED BY <1>5, <2>1, <2>2, Zenon
<1>8. DOMAIN rows' = DOMAIN rows \cup {id} /\ rows'[id] = new /\ \A i \in DOMAIN rows : rows'[i] = rows[i]
  BY <1>4, <1>7 DEF LoginIds
<1>9. rows' \in [DOMAIN rows' -> LoginIdentity]
  BY <1>6, <1>7, <1>8 DEF LoginInv, LoginStoresHold, LoginStoresOK
<1>10. LoginNumbersHold'
  <2>1. IsFiniteSet(DOMAIN rows') /\ Cardinality(DOMAIN rows') = m + 1
    BY <1>1, <1>4, <1>8, FS_AddElement DEF LoginInv, LoginStoresHold, LoginNumbersHold, LoginIds
  <2>2. LoginIds' = LoginIds \cup {id}
    BY <1>8 DEF LoginIds
  <2>3. LoginIds' = 1 .. (m + 1) + n
    BY <1>2, <1>3, <1>4, <2>2
  <2>4. removed' \cap DOMAIN rows' = {} /\ IsFiniteSet(removed')
    BY <1>4, <1>8 DEF LoginInv, LoginStoresHold, LoginNumbersHold, LoginIds
  <2> QED BY <1>1, <2>1, <2>3, <2>4 DEF LoginNumbersHold
<1>11. LoginRowsHold'
  <2>1. \A i \in DOMAIN rows : rows[i].sub # sub
    BY DEF Logins!Insert, Logins!RowsOf
  <2> QED BY <1>6, <1>8, <2>1 DEF LoginInv, LoginStoresHold, LoginRowsHold
<1>12. LoginStoresOK' /\ LoginCookiesHold' /\ entered' \subseteq earned'
  BY <1>9 DEF LoginInv, LoginStoresHold, LoginStoresOK, LoginCookiesHold
<1>13. LoginLater
  BY <1>4, <1>8 DEF LoginLater, LoginIds
<1> QED BY <1>10, <1>11, <1>12, <1>13 DEF LoginStoresHold

LEMMA LoginLinkStep ==
  ASSUME LoginInv, NEW c \in LoginCalls, Logins!Link(c)
  PROVE  LoginInv'
<1>1. PICK q \in LoginCallState : q = call[c] /\ q.at = "link" /\ LoginCallHolds(q)
  BY LoginCallState1 DEF Logins!Link, Logins!At
<1>2. q.sub \in Subjects /\ <<q.sub, q.user>> \in earned /\ q.user \in LoginNames
      /\ q.ends \in {"gate", "enter", "idle"}
  BY <1>1 DEF LoginCallHolds, LoginEarned, LoginCallState
<1>3. UNCHANGED <<users, removed, flows, cookie, codes, earned, entered, now>>
  BY DEF Logins!Link
<1>4. CASE Logins!Insert(q.sub, q.user) /\ (IF q.ends = "gate" THEN Logins!Goes(c, [q EXCEPT !.at = "touchFind"]) ELSE Logins!Ends(c))
  <2>1. LoginStoresHold' /\ LoginLater
    BY <1>2, <1>3, <1>4, LoginInsertedStores
  <2>2. CASE Logins!Ends(c)
    BY <1>1, <2>1, <2>2, LoginEndsStep DEF LoginEarned
  <2>3. CASE Logins!Goes(c, [q EXCEPT !.at = "touchFind"])
    <3>1. Logins!Goes(c, [q EXCEPT !.at = "touchFind", !.user = q.user, !.ends = q.ends])
      BY <2>3, LoginSameFields
    <3>2. "touchFind" \in LoginLabel \ {"touchReplace"}
      BY DEF LoginLabel
    <3> QED BY <1>1, <1>2, <1>3, <2>1, <3>1, <3>2, LoginGoesOn
  <2> QED BY <1>4, <2>2, <2>3
<1>5. CASE Logins!Goes(c, Logins!Idle) /\ UNCHANGED rows
  <2>1. LoginStoresHold' /\ LoginLater
    BY <1>3, <1>5, LoginStoresStay DEF LoginInv, LoginStoresHold, LoginStoresOK
  <2> QED BY <1>5, <2>1, LoginCallEnds
<1> QED BY <1>1, <1>4, <1>5 DEF Logins!Link

LEMMA LoginTouchFindStep ==
  ASSUME LoginInv, NEW c \in LoginCalls, Logins!TouchFind(c)
  PROVE  LoginInv'
<1>1. PICK q \in LoginCallState : q = call[c] /\ q.at = "touchFind" /\ LoginCallHolds(q)
  BY LoginCallState1 DEF Logins!TouchFind, Logins!At
<1>2. UNCHANGED <<users, rows, removed, flows, cookie, codes, earned, entered, now>>
  BY DEF Logins!TouchFind
<1>3. LoginStoresHold' /\ LoginLater
  BY <1>2, LoginStoresStay DEF LoginInv, LoginStoresHold, LoginStoresOK
<1>4. CASE Logins!Ends(c)
  BY <1>1, <1>3, <1>4, LoginEndsStep DEF LoginEarned
<1>5. ASSUME NEW i \in Logins!RowsOf(q.sub),
             Logins!Goes(c, [q EXCEPT !.at = "touchReplace",
                               !.row = [id |-> i, sub |-> rows[i].sub, user |-> rows[i].user]])
      PROVE  LoginInv'
  <2>1. i \in DOMAIN rows /\ rows[i] \in LoginIdentity /\ i \in Nat
    <3>1. i \in LoginIds /\ LoginIds \subseteq Nat
      <4>1. Cardinality(DOMAIN rows) + Cardinality(removed) \in Nat
        BY FS_CardinalityType DEF LoginInv, LoginStoresHold, LoginNumbersHold
      <4> QED BY <4>1 DEF Logins!RowsOf, LoginIds, LoginInv, LoginStoresHold, LoginNumbersHold
    <3> QED BY <3>1 DEF Logins!RowsOf, LoginInv, LoginStoresHold, LoginStoresOK
  <2>2. PICK r : r = [id |-> i, sub |-> rows[i].sub, user |-> rows[i].user]
    OBVIOUS
  <2>3. r \in [id : Nat, sub : LoginSub, user : LoginNames] /\ r.id = i
        /\ rows[i] = [sub |-> r.sub, user |-> r.user]
    BY <2>1, <2>2 DEF LoginIdentity, LoginSub
  <2>4. PICK k : k = [q EXCEPT !.at = "touchReplace", !.row = r]
    OBVIOUS
  <2>5. Logins!Goes(c, k)
    BY <1>5, <2>2, <2>4
  <2>6. k \in LoginCallState
    BY <2>3, <2>4 DEF LoginCallState, LoginLabel
  <2>7. k.at = "touchReplace" /\ k.sub = q.sub /\ k.user = q.user /\ k.row = r
    BY <2>4 DEF LoginCallState
  <2>8. LoginCallHolds(k)'
    <3>1. k.sub \in Subjects /\ <<k.sub, k.user>> \in earned'
      BY <1>1, <1>2, <2>7 DEF LoginCallHolds, LoginEarned
    <3>2. i \in LoginIds' /\ rows'[i] = [sub |-> r.sub, user |-> r.user]
      BY <1>2, <2>1, <2>3 DEF LoginIds
    <3> QED BY <2>3, <2>7, <3>1, <3>2 DEF LoginCallHolds
  <2> QED BY <1>3, <2>5, <2>6, <2>8, LoginCallStep
<1> QED BY <1>1, <1>4, <1>5 DEF Logins!TouchFind

\* The row read is written back as it was, or has been removed and stays so.
LEMMA LoginTouchReplaceStep ==
  ASSUME LoginInv, NEW c \in LoginCalls, Logins!TouchReplace(c)
  PROVE  LoginInv'
<1>1. PICK q \in LoginCallState : q = call[c] /\ q.at = "touchReplace" /\ LoginCallHolds(q)
  BY LoginCallState1 DEF Logins!TouchReplace, Logins!At
<1>2. rows' = rows
  <2>1. q.row.id \in DOMAIN rows => rows[q.row.id] = [sub |-> q.row.sub, user |-> q.row.user]
    BY <1>1 DEF LoginCallHolds
  <2>2. rows = [i \in DOMAIN rows |-> rows[i]]
    BY DEF LoginInv, LoginStoresHold, LoginStoresOK
  <2> QED BY <1>1, <2>1, <2>2 DEF Logins!TouchReplace
<1>3. LoginStoresHold' /\ LoginLater
  BY <1>2, LoginStoresStay DEF Logins!TouchReplace, LoginInv, LoginStoresHold, LoginStoresOK
<1> QED BY <1>1, <1>3, LoginEndsStep DEF Logins!TouchReplace, LoginEarned

LEMMA LoginLinkIdentityStep ==
  ASSUME LoginInv, NEW c \in LoginCalls, Logins!LinkIdentity(c)
  PROVE  LoginInv'
<1>1. PICK q \in LoginCallState : q = call[c] /\ q.at = "linkIdentity" /\ LoginCallHolds(q)
  BY LoginCallState1 DEF Logins!LinkIdentity, Logins!At
<1>2. UNCHANGED <<users, rows, removed, flows, cookie, codes, earned, entered, now>>
  BY DEF Logins!LinkIdentity
<1>3. LoginStoresHold' /\ LoginLater
  BY <1>2, LoginStoresStay DEF LoginInv, LoginStoresHold, LoginStoresOK
<1>4. CASE Logins!Goes(c, Logins!Idle)
  BY <1>3, <1>4, LoginCallEnds
<1>5. ASSUME NEW label \in {"link", "touchFind"}, Logins!Goes(c, [q EXCEPT !.at = label])
      PROVE  LoginInv'
  <2>1. Logins!Goes(c, [q EXCEPT !.at = label, !.user = q.user, !.ends = q.ends])
    BY <1>5, LoginSameFields
  <2>2. <<q.sub, q.user>> \in earned' /\ q.user \in LoginNames /\ q.ends \in {"gate", "enter", "idle"}
        /\ label \in LoginLabel \ {"touchReplace"}
    BY <1>1, <1>2 DEF LoginCallHolds, LoginEarned, LoginCallState, LoginLabel
  <2> QED BY <1>1, <1>3, <2>1, <2>2, LoginGoesOn
<1> QED BY <1>1, <1>4, <1>5 DEF Logins!LinkIdentity

LEMMA LoginProveStep ==
  ASSUME LoginInv, NEW c \in LoginCalls, Logins!ProveControl(c)
  PROVE  LoginInv'
<1>1. PICK q \in LoginCallState : q = call[c] /\ q.at = "prove"
  BY LoginCallState1 DEF Logins!ProveControl, Logins!At
<1>2. earned \subseteq earned'
  BY DEF Logins!ProveControl, Logins!Earn
<1>3. LoginStoresHold' /\ LoginLater
  BY <1>2, LoginStoresStay DEF Logins!ProveControl, LoginInv, LoginStoresHold, LoginStoresOK
<1>4. CASE Logins!Goes(c, Logins!Idle)
  BY <1>3, <1>4, LoginCallEnds
<1>5. CASE Logins!Earn(q.sub, q.user) /\ Logins!Goes(c, [q EXCEPT !.at = "linkIdentity", !.ends = "enter"])
  <2>1. Logins!Goes(c, [q EXCEPT !.at = "linkIdentity", !.user = q.user, !.ends = "enter"])
    BY <1>5, LoginSameFields
  <2>2. <<q.sub, q.user>> \in earned' /\ q.user \in LoginNames /\ "enter" \in {"gate", "enter", "idle"}
        /\ "linkIdentity" \in LoginLabel \ {"touchReplace"}
    BY <1>5 DEF Logins!Earn, LoginCallState, LoginLabel
  <2> QED BY <1>1, <1>3, <2>1, <2>2, LoginGoesOn
<1> QED BY <1>1, <1>4, <1>5 DEF Logins!ProveControl

LEMMA LoginEnterStep ==
  ASSUME LoginInv, NEW c \in LoginCalls, Logins!Enter(c)
  PROVE  LoginInv'
<1>1. PICK q \in LoginCallState : q = call[c] /\ q.at \in {"gate", "enter"} /\ LoginCallHolds(q)
  BY LoginCallState1 DEF Logins!Enter, Logins!At
<1>2. <<q.sub, q.user>> \in earned
  BY <1>1 DEF LoginCallHolds, LoginEarned
<1>3. entered' \subseteq earned /\ Logins!Goes(c, Logins!Idle)
      /\ UNCHANGED <<users, rows, removed, flows, cookie, codes, earned, now>>
  BY <1>1, <1>2 DEF Logins!Enter, LoginInv, LoginStoresHold
<1>4. LoginStoresHold' /\ LoginLater
  BY <1>3 DEF LoginInv, LoginStoresHold, LoginStoresOK, LoginNumbersHold, LoginIds, LoginRowsHold,
              LoginCookiesHold, LoginLater
<1> QED BY <1>3, <1>4, LoginCallEnds

LEMMA LoginStartUnlinkStep ==
  ASSUME LoginInv, NEW c \in LoginCalls, NEW i \in DOMAIN rows, Logins!StartUnlink(c, i)
  PROVE  LoginInv'
<1>1. PICK r \in LoginIdentity : r = rows[i]
  BY DEF LoginInv, LoginStoresHold, LoginStoresOK
<1>2. LoginStoresHold' /\ LoginLater
  BY LoginStoresStay DEF Logins!StartUnlink, LoginInv, LoginStoresHold, LoginStoresOK
<1>3. PICK k : k = [Logins!Idle EXCEPT !.at = "unlink", !.sub = r.sub, !.user = r.user]
  OBVIOUS
<1>4. Logins!Goes(c, k)
  BY <1>1, <1>3 DEF Logins!StartUnlink
<1>5. k \in LoginCallState
  BY <1>3, LoginIdleHolds DEF LoginCallState, LoginLabel, LoginIdentity, LoginSub
<1>6. k.at = "unlink" /\ k.sub \in Subjects
  BY <1>3 DEF Logins!Idle, LoginIdentity
<1>7. LoginCallHolds(k)'
  BY <1>6 DEF LoginCallHolds, LoginEarned
<1> QED BY <1>2, <1>4, <1>5, <1>7, LoginCallStep

LEMMA LoginUnlinkStep ==
  ASSUME LoginInv, NEW c \in LoginCalls, Logins!Unlink(c)
  PROVE  LoginInv'
<1>1. PICK gone : gone = Logins!RowsOf(call[c].sub)
  OBVIOUS
<1>2. gone \subseteq DOMAIN rows
  BY <1>1 DEF Logins!RowsOf
<1>3. /\ removed' = removed \cup gone /\ rows' = [i \in DOMAIN rows \ gone |-> rows[i]]
      /\ Logins!Goes(c, Logins!Idle)
      /\ UNCHANGED <<users, flows, cookie, codes, earned, entered, now>>
  BY <1>1 DEF Logins!Unlink
<1>4. DOMAIN rows' = DOMAIN rows \ gone /\ \A i \in DOMAIN rows' : rows'[i] = rows[i]
  BY <1>3
<1>5. LoginIds' = LoginIds
  BY <1>2, <1>3, <1>4 DEF LoginIds
<1>6. LoginNumbersHold'
  <2>1. IsFiniteSet(DOMAIN rows) /\ IsFiniteSet(removed) /\ removed \cap DOMAIN rows = {}
    BY DEF LoginInv, LoginStoresHold, LoginNumbersHold
  <2>2. IsFiniteSet(gone) /\ gone \cap removed = {} /\ DOMAIN rows \cap gone = gone
        /\ removed \cap gone = {}
    BY <1>2, <2>1, FS_Subset
  <2>3. IsFiniteSet(DOMAIN rows') /\ Cardinality(DOMAIN rows') = Cardinality(DOMAIN rows) - Cardinality(gone)
    <3>1. /\ IsFiniteSet(DOMAIN rows \ gone)
          /\ Cardinality(DOMAIN rows \ gone) = Cardinality(DOMAIN rows) - Cardinality(DOMAIN rows \cap gone)
      BY <2>1, FS_Difference
    <3> QED BY <1>4, <2>2, <3>1
  <2>4. IsFiniteSet(removed') /\ Cardinality(removed') = Cardinality(removed) + Cardinality(gone)
    <3>1. Cardinality(removed \cap gone) = 0
      BY <2>2, FS_EmptySet
    <3>2. IsFiniteSet(removed \cup gone)
          /\ Cardinality(removed \cup gone) = Cardinality(removed) + Cardinality(gone) - Cardinality(removed \cap gone)
      BY <2>1, <2>2, FS_Union
    <3>3. Cardinality(removed) \in Nat /\ Cardinality(gone) \in Nat
      BY <2>1, <2>2, FS_CardinalityType
    <3> QED BY <1>3, <3>1, <3>2, <3>3
  <2>5. Cardinality(DOMAIN rows) \in Nat /\ Cardinality(removed) \in Nat /\ Cardinality(gone) \in Nat
    BY <2>1, <2>2, FS_CardinalityType
  <2>6. Cardinality(DOMAIN rows') + Cardinality(removed') = Cardinality(DOMAIN rows) + Cardinality(removed)
    BY <2>3, <2>4, <2>5
  <2>7. removed' \cap DOMAIN rows' = {}
    BY <1>3, <1>4, <2>1
  <2> QED BY <1>5, <2>3, <2>4, <2>6, <2>7 DEF LoginInv, LoginStoresHold, LoginNumbersHold
<1>7. LoginRowsHold'
  BY <1>3, <1>4 DEF LoginInv, LoginStoresHold, LoginRowsHold
<1>8. LoginStoresOK' /\ LoginCookiesHold' /\ entered' \subseteq earned'
  BY <1>3, <1>4 DEF LoginInv, LoginStoresHold, LoginStoresOK, LoginCookiesHold
<1>9. LoginLater
  BY <1>3, <1>4, <1>5 DEF LoginLater
<1> QED BY <1>3, <1>6, <1>7, <1>8, <1>9, LoginCallEnds DEF LoginStoresHold

LEMMA LoginBreakOffStep ==
  ASSUME LoginInv, NEW c \in LoginCalls, Logins!DenySignup(c) \/ Logins!Fail(c)
  PROVE  LoginInv'
<1>1. Logins!Goes(c, Logins!Idle) /\ UNCHANGED <<users, rows, removed, flows, cookie, codes, earned, entered, now>>
  BY DEF Logins!DenySignup, Logins!Fail
<1>2. LoginStoresHold' /\ LoginLater
  BY <1>1, LoginStoresStay DEF LoginInv, LoginStoresHold, LoginStoresOK
<1> QED BY <1>1, <1>2, LoginCallEnds

LEMMA LoginTickStep ==
  ASSUME LoginInv, Logins!Tick
  PROVE  LoginInv'
<1>1. now' \in Nat /\ UNCHANGED <<users, rows, removed, flows, cookie, codes, call, earned, entered>>
  BY DEF Logins!Tick, LoginInv, LoginStoresHold, LoginStoresOK
<1>2. LoginStoresHold' /\ LoginLater
  BY <1>1 DEF LoginInv, LoginStoresHold, LoginStoresOK, LoginNumbersHold, LoginIds, LoginRowsHold,
              LoginCookiesHold, LoginLater
<1> QED BY <1>1, <1>2, LoginNoCallStep

(* ------------------------------- Theorems -------------------------------- *)
LEMMA LoginInvInit == Logins!TablesHold /\ Logins!Init => LoginInv
<1> SUFFICES ASSUME Logins!TablesHold, Logins!Init PROVE LoginInv
  OBVIOUS
<1>1. /\ users = Locals /\ rows = Linked /\ removed = {} /\ flows = <<>> /\ now = 0
      /\ cookie = [b \in Browsers |-> 0] /\ codes = {} /\ call = [c \in LoginCalls |-> Logins!Idle]
      /\ earned = {<<Linked[i].sub, Linked[i].user>> : i \in DOMAIN Linked} /\ entered = {}
  BY DEF Logins!Init
<1>2. PICK n \in Nat : n = Len(Linked) /\ DOMAIN Linked = 1 .. n
  BY DEF Logins!TablesHold
<1>3. Linked \in [DOMAIN Linked -> LoginIdentity]
  <2>1. PICK R : R = [sub : Subjects, user : DOMAIN Locals] /\ Linked \in Seq(R)
    BY DEF Logins!TablesHold
  <2>2. Linked \in [1 .. Len(Linked) -> R] /\ DOMAIN Linked = 1 .. Len(Linked)
    <3>1. Linked \in Seq(R)
      BY <2>1
    <3> QED BY <3>1
  <2>3. R \subseteq LoginIdentity
    BY <2>1 DEF LoginIdentity, LoginNames
  <2> QED BY <2>2, <2>3
<1>4. LoginStoresOK
  BY <1>1, <1>3 DEF LoginStoresOK, LoginNames
<1>5. LoginNumbersHold
  <2>1. IsFiniteSet(1 .. n) /\ Cardinality(1 .. n) = n
    BY FS_Interval
  <2>2. IsFiniteSet({}) /\ Cardinality({}) = 0
    BY FS_EmptySet
  <2> QED BY <1>1, <1>2, <2>1, <2>2 DEF LoginNumbersHold, LoginIds
<1>6. LoginRowsHold /\ LoginCookiesHold /\ entered \subseteq earned
  BY <1>1 DEF Logins!TablesHold, LoginRowsHold, LoginCookiesHold
<1>7. call \in [LoginCalls -> LoginCallState] /\ LoginCallsHold
  BY <1>1, LoginIdleHolds DEF LoginCallsHold
<1> QED BY <1>4, <1>5, <1>6, <1>7 DEF LoginInv, LoginStoresHold

LEMMA LoginInvStep == Logins!TablesHold /\ LoginInv /\ [Logins!Next]_Logins!vars => LoginInv'
<1> SUFFICES ASSUME Logins!TablesHold, LoginInv, [Logins!Next]_Logins!vars PROVE LoginInv'
  OBVIOUS
<1>1. ASSUME NEW c \in LoginCalls,
             \/ Logins!Resolve(c) \/ Logins!Match(c) \/ Logins!CreateFederatedUser(c) \/ Logins!DenySignup(c) \/ Logins!ActivateAccount(c)
             \/ Logins!Link(c) \/ Logins!TouchFind(c) \/ Logins!TouchReplace(c) \/ Logins!LinkIdentity(c)
             \/ Logins!ProveControl(c) \/ Logins!Enter(c) \/ Logins!Unlink(c) \/ Logins!Fail(c)
      PROVE  LoginInv'
  BY <1>1, LoginResolveStep, LoginMatchStep, LoginCreateStep, LoginActivateStep, LoginLinkStep,
     LoginTouchFindStep, LoginTouchReplaceStep,
     LoginLinkIdentityStep, LoginProveStep, LoginEnterStep, LoginUnlinkStep, LoginBreakOffStep
<1>2. ASSUME NEW c \in LoginCalls, NEW b \in Browsers, NEW seed \in DOMAIN flows,
             NEW code \in codes,
             Logins!Callback(c, b, seed, code)
      PROVE  LoginInv'
  BY <1>2, LoginCallbackStep
<1>3. ASSUME NEW c \in LoginCalls, NEW i \in DOMAIN rows, Logins!StartUnlink(c, i) PROVE LoginInv'
  BY <1>3, LoginStartUnlinkStep
<1>4. ASSUME NEW b \in Browsers, NEW user \in {Logins!NoUser} \cup DOMAIN Locals,
             Logins!Begin(b, user) PROVE LoginInv'
  BY <1>4, LoginBeginStep
<1>5. ASSUME NEW seed \in DOMAIN flows, NEW sub \in Subjects,
             Logins!Grant(seed, sub) PROVE LoginInv'
  BY <1>5, LoginGrantStep
<1>6. CASE Logins!Tick
  BY <1>6, LoginTickStep
<1>7. CASE UNCHANGED Logins!vars
  <2>1. UNCHANGED <<users, rows, removed, flows, cookie, codes, call, earned, entered, now>>
    BY <1>7 DEF Logins!vars
  <2>2. LoginStoresHold' /\ LoginLater
    BY <2>1, LoginStoresStay DEF LoginInv, LoginStoresHold, LoginStoresOK
  <2> QED BY <2>1, <2>2, LoginNoCallStep
<1> QED BY <1>1, <1>2, <1>3, <1>4, <1>5, <1>6, <1>7 DEF Logins!Next

LEMMA LoginInvGives == LoginInv => Logins!IdentitiesAreEarned
  BY DEF LoginInv, LoginStoresHold, LoginNumbersHold, LoginRowsHold, Logins!IdentitiesAreEarned

(***************************************************************************)
(* CookieClient                                                             *)
(***************************************************************************)

(* ------------------------------ The invariant ---------------------------- *)
ClientPair == [session : Nat, access : BOOLEAN, refresh : BOOLEAN]
ClientFetch == [at : {"ready", "retry", "sent", "answered", "refreshing", "done"}, token : Nat,
          status : Nat, retried : BOOLEAN]
ClientFlight == [at : {"none", "sent", "answered"}, token : Nat, status : Nat, new : Nat]
ClientOther == [at : {"none", "cookies", "clear"}, token : Nat, status : Nat, new : Nat]
ClientTold == [token : Nat, what : {"nothing", "logout", "retry later"}]

ClientTypeOK ==
    /\ pair \in Seq(ClientPair)
    /\ jar \in [access : Nat, refresh : Nat]
    /\ fetch \in [ClientCalls -> ClientFetch]
    /\ flight \in [Tab -> ClientFlight]
    /\ other \in ClientOther
    /\ told \in [Tab -> Seq(ClientTold)]
    /\ served \in [Tab -> Nat]

\* A refresh on the wire is the flight of its tab, which the waiting calls wait for.
ClientFlightInv ==
    /\ \A t \in Tab : served[t] = IF flight[t].at = "none" THEN 0 ELSE 1
    /\ \A c \in ClientCalls : fetch[c].at = "refreshing" => flight[TabOf[c]].at # "none"

\* Cookies, and what was sent with a refresh, are no token or one that was minted.
ClientKnown(n) == n = 0 \/ n \in Client!Pairs
\* A refresh token that works no more; none is like one.
ClientSpent(n) == n = 0 \/ (n \in Client!Pairs /\ ~pair[n].refresh)
ClientKnownInv ==
    /\ ClientKnown(jar.access) /\ ClientKnown(jar.refresh) /\ ClientKnown(other.new)
    /\ \A t \in Tab : ClientKnown(flight[t].token) /\ ClientKnown(flight[t].new)
    /\ \A c \in ClientCalls : ClientKnown(fetch[c].token)

\* The server refuses only what is spent, and only a refusal ends a session.
ClientEndInv ==
    /\ \A t \in Tab : flight[t].at = "answered" /\ flight[t].status \in Client!AuthFailure
                         => ClientSpent(flight[t].token)
    /\ \A t \in Tab : \A i \in DOMAIN told[t] :
          told[t][i].what = "logout" /\ logoutOn = "auth-failure" => ClientSpent(told[t][i].token)

ClientInv == ClientTypeOK /\ ClientFlightInv /\ ClientKnownInv /\ ClientEndInv

(* ------------------------------- The pairs ------------------------------- *)
\* Pairs are added; a refresh token that is spent works no more.
ClientGrows ==
    /\ Client!Pairs \subseteq DOMAIN pair'
    /\ \A n \in Client!Pairs : pair'[n].refresh => pair[n].refresh

LEMMA ClientKnownStays ==
  ASSUME ClientGrows, NEW n
  PROVE  (ClientKnown(n) => ClientKnown(n)') /\ (ClientSpent(n) => ClientSpent(n)')
  BY DEF ClientGrows, ClientKnown, ClientSpent, Client!Pairs

LEMMA ClientAppended ==
  ASSUME NEW s \in Seq(ClientPair), NEW p \in ClientPair
  PROVE  /\ Append(s, p) \in Seq(ClientPair) /\ DOMAIN Append(s, p) = DOMAIN s \cup {Len(s) + 1}
         /\ Len(s) + 1 \in DOMAIN Append(s, p) /\ Len(s) + 1 \notin DOMAIN s
         /\ \A n \in DOMAIN s : Append(s, p)[n] = s[n]
  OBVIOUS

\* A revocation and an expiry.
LEMMA ClientChanged ==
  ASSUME ClientTypeOK,
         DOMAIN pair' = Client!Pairs,
         \A n \in Client!Pairs : pair'[n] \in ClientPair /\ (pair'[n].refresh => pair[n].refresh),
         pair' = [n \in Client!Pairs |-> pair'[n]]
  PROVE  pair' \in Seq(ClientPair) /\ ClientGrows
<1>1. Client!Pairs = 1 .. Len(pair) /\ Len(pair) \in Nat
  BY DEF ClientTypeOK, Client!Pairs
<1> QED BY <1>1 DEF ClientGrows, Client!Pairs

LEMMA ClientRevokedPairs ==
  ASSUME ClientTypeOK, NEW session, pair' = Client!Revoked(session)
  PROVE  pair' \in Seq(ClientPair) /\ ClientGrows
<1>1. \A n \in Client!Pairs : pair[n] \in ClientPair
  BY DEF ClientTypeOK, Client!Pairs
<1>2. \A n \in Client!Pairs : [pair[n] EXCEPT !.access = FALSE, !.refresh = FALSE] \in ClientPair
                       /\ ~[pair[n] EXCEPT !.access = FALSE, !.refresh = FALSE].refresh
  BY <1>1 DEF ClientPair
<1> QED BY <1>1, <1>2, ClientChanged DEF Client!Revoked

LEMMA ClientExpiredPairs ==
  ASSUME ClientTypeOK, NEW n \in Client!Pairs, pair' = [pair EXCEPT ![n].access = FALSE]
  PROVE  pair' \in Seq(ClientPair) /\ ClientGrows
<1>1. \A m \in Client!Pairs : pair[m] \in ClientPair
  BY DEF ClientTypeOK, Client!Pairs
<1>2. [pair[n] EXCEPT !.access = FALSE] \in ClientPair
      /\ [pair[n] EXCEPT !.access = FALSE].refresh = pair[n].refresh
  BY <1>1 DEF ClientPair
<1>3. pair' = [m \in Client!Pairs |-> IF m = n THEN [pair[n] EXCEPT !.access = FALSE] ELSE pair[m]]
  BY DEF ClientTypeOK, Client!Pairs
<1> QED BY <1>1, <1>2, <1>3, ClientChanged

(* -------------------------------- Init ----------------------------------- *)
LEMMA ClientInvInit == Client!Init => ClientInv
<1> SUFFICES ASSUME Client!Init PROVE ClientInv
  OBVIOUS
<1>1. pair \in Seq(ClientPair) /\ Client!Pairs = {1} /\ pair[1].refresh
  BY DEF Client!Init, ClientPair, Client!Pairs
<1>2. ClientTypeOK
  <2>1. \A t \in Tab : flight[t] = Client!Nothing /\ told[t] = <<>> /\ served[t] = 0
    BY DEF Client!Init
  <2>2. Client!Nothing \in ClientFlight /\ Client!Nothing \in ClientOther /\ <<>> \in Seq(ClientTold)
    BY DEF Client!Nothing, ClientFlight, ClientOther
  <2>3. fetch \in [ClientCalls -> ClientFetch]
    BY DEF Client!Init, ClientFetch
  <2> QED BY <1>1, <2>2, <2>3 DEF Client!Init, ClientTypeOK, Client!Written
<1>3. ClientFlightInv
  BY DEF Client!Init, ClientFlightInv, Client!Nothing
<1>4. ClientKnownInv
  BY <1>1 DEF Client!Init, ClientKnownInv, ClientKnown, Client!Nothing, Client!Written
<1>5. ClientEndInv
  BY DEF Client!Init, ClientEndInv, Client!Nothing
<1> QED BY <1>2, <1>3, <1>4, <1>5 DEF ClientInv

(* --------------------------------- Steps --------------------------------- *)
\* A call moves that neither was nor is waiting for a refresh.
LEMMA ClientFetchStep ==
  ASSUME ClientInv, NEW c \in ClientCalls, NEW f \in ClientFetch,
         fetch' = [fetch EXCEPT ![c] = f], ClientKnown(f.token), f.at # "refreshing",
         UNCHANGED <<logoutOn, pair, jar, flight, other, told, served>>
  PROVE  ClientInv'
<1>1. ClientTypeOK'
  BY DEF ClientInv, ClientTypeOK
<1>2. ClientFlightInv'
  BY DEF ClientInv, ClientTypeOK, ClientFlightInv
<1>3. ClientKnownInv'
  BY DEF ClientInv, ClientTypeOK, ClientKnownInv, ClientKnown, Client!Pairs
<1>4. ClientEndInv'
  BY DEF ClientInv, ClientEndInv, ClientSpent, Client!Pairs
<1> QED BY <1>1, <1>2, <1>3, <1>4 DEF ClientInv

LEMMA ClientSendStep ==
  ASSUME ClientInv, NEW c \in ClientCalls, Client!Send(c) \/ Client!Guarded(c) \/ Client!Answered(c)
  PROVE  ClientInv'
<1>1. fetch \in [ClientCalls -> ClientFetch] /\ fetch[c] \in ClientFetch /\ jar.access \in Nat
      /\ ClientKnown(jar.access) /\ ClientKnown(fetch[c].token)
  BY DEF ClientInv, ClientTypeOK, ClientKnownInv
<1>2. CASE Client!Send(c)
  <2>1. PICK f : f = [fetch[c] EXCEPT !.retried = fetch[c].at = "retry", !.at = "sent",
                          !.token = jar.access]
    OBVIOUS
  <2>2. f \in ClientFetch /\ f.token = jar.access /\ f.at = "sent"
    BY <1>1, <2>1 DEF ClientFetch
  <2>3. fetch' = [fetch EXCEPT ![c] = f]
    BY <1>1, <1>2, <2>1 DEF Client!Send
  <2>4. UNCHANGED <<logoutOn, pair, jar, flight, other, told, served>>
    BY <1>2 DEF Client!Send
  <2>5. ClientKnown(f.token) /\ f.at # "refreshing"
    BY <1>1, <2>2
  <2> QED BY <2>2, <2>3, <2>4, <2>5, ClientFetchStep
<1>3. CASE Client!Guarded(c)
  <2>1. PICK status \in Nat :
              status = IF fetch[c].token # 0 /\ pair[fetch[c].token].access THEN Client!Success ELSE 401
    BY DEF Client!Success
  <2>2. PICK f : f = [fetch[c] EXCEPT !.at = "answered", !.status = status]
    OBVIOUS
  <2>3. f \in ClientFetch /\ f.token = fetch[c].token /\ f.at = "answered"
    BY <1>1, <2>2 DEF ClientFetch
  <2>4. fetch' = [fetch EXCEPT ![c] = f]
    <3>1. fetch' = [fetch EXCEPT ![c].at = "answered", ![c].status = status]
      BY <1>3, <2>1 DEF Client!Guarded
    <3> QED BY <1>1, <2>2, <3>1
  <2>5. UNCHANGED <<logoutOn, pair, jar, flight, other, told, served>>
    BY <1>3 DEF Client!Guarded
  <2> HIDE <2>1, <2>2
  <2> QED BY <1>1, <2>3, <2>4, <2>5, ClientFetchStep
<1>4. CASE Client!Answered(c)
  <2>1. PICK f : f = [fetch[c] EXCEPT !.at = "done"]
    OBVIOUS
  <2>2. f \in ClientFetch /\ f.token = fetch[c].token /\ f.at = "done"
    BY <1>1, <2>1 DEF ClientFetch
  <2>3. fetch' = [fetch EXCEPT ![c] = f]
    BY <1>1, <1>4, <2>1 DEF Client!Answered
  <2> QED BY <1>1, <1>4, <2>2, <2>3, ClientFetchStep DEF Client!Answered
<1> QED BY <1>2, <1>3, <1>4

LEMMA ClientJoinRefreshStep ==
  ASSUME ClientInv, Client!CallsHaveTabs, NEW c \in ClientCalls, Client!JoinRefresh(c)
  PROVE  ClientInv'
<1>1. PICK t \in Tab : t = TabOf[c]
  BY DEF Client!CallsHaveTabs
<1>2. PICK q : q = IF flight[t].at = "none"
                   THEN [Client!Nothing EXCEPT !.at = "sent", !.token = jar.refresh] ELSE flight[t]
  OBVIOUS
<1>3. PICK f : f = [fetch[c] EXCEPT !.at = "refreshing"]
  OBVIOUS
<1>4. /\ flight[t] \in ClientFlight /\ fetch[c] \in ClientFetch /\ jar.refresh \in Nat
      /\ flight \in [Tab -> ClientFlight] /\ fetch \in [ClientCalls -> ClientFetch] /\ served \in [Tab -> Nat]
  BY DEF ClientInv, ClientTypeOK
<1>5. /\ fetch' = [fetch EXCEPT ![c] = f] /\ flight' = [flight EXCEPT ![t] = q]
      /\ served' = [served EXCEPT ![t] = IF flight[t].at = "none" THEN served[t] + 1 ELSE served[t]]
      /\ UNCHANGED <<logoutOn, pair, jar, other, told>>
  BY <1>1, <1>2, <1>3, <1>4 DEF Client!JoinRefresh
<1>6. f \in ClientFetch /\ f.token = fetch[c].token
  BY <1>3, <1>4 DEF ClientFetch
<1>7. q \in ClientFlight /\ q.at # "none"
  BY <1>2, <1>4 DEF ClientFlight, Client!Nothing
<1>8. (q.token = jar.refresh /\ q.new = 0 /\ q.at = "sent") \/ q = flight[t]
  BY <1>2, <1>4 DEF Client!Nothing
<1>9. ClientTypeOK'
  BY <1>4, <1>5, <1>6, <1>7 DEF ClientInv, ClientTypeOK
<1>10. ClientFlightInv'
  BY <1>1, <1>4, <1>5, <1>7 DEF ClientInv, ClientFlightInv
<1>11. ClientKnownInv'
  BY <1>4, <1>5, <1>6, <1>8 DEF ClientInv, ClientKnownInv, ClientKnown, Client!Pairs
<1>12. ClientEndInv'
  BY <1>4, <1>5, <1>8 DEF ClientInv, ClientEndInv, ClientSpent, Client!Pairs
<1> QED BY <1>9, <1>10, <1>11, <1>12 DEF ClientInv

\* The server answers: with a pair, with a refusal, or with what passes.
LEMMA ClientRefreshStep ==
  ASSUME ClientInv, NEW t \in Tab, Client!Refresh(t)
  PROVE  ClientInv'
<1>1. /\ flight[t] \in ClientFlight /\ flight \in [Tab -> ClientFlight] /\ pair \in Seq(ClientPair)
      /\ ClientKnown(flight[t].token) /\ ClientKnown(flight[t].new) /\ flight[t].at = "sent"
      /\ UNCHANGED <<logoutOn, jar, fetch, other, told, served>>
  BY DEF ClientInv, ClientTypeOK, ClientKnownInv, Client!Refresh
<1>2. SUFFICES ASSUME NEW q \in ClientFlight, flight' = [flight EXCEPT ![t] = q],
                      q.at = "answered", q.token = flight[t].token,
                      pair' \in Seq(ClientPair), ClientGrows, ClientKnown(q.new)',
                      q.status \in Client!AuthFailure => ClientSpent(q.token)
               PROVE  ClientInv'
  <2>1. CASE /\ flight[t].token # 0 /\ pair[flight[t].token].refresh
             /\ pair' = [Append(pair, [session |-> pair[flight[t].token].session,
                                       access |-> TRUE, refresh |-> TRUE])
                         EXCEPT ![flight[t].token].refresh = FALSE]
             /\ \E status \in {Client!Success, Client!Lost} :
                   flight' = [flight EXCEPT ![t].at = "answered", ![t].status = status,
                                            ![t].new = Len(pair) + 1]
    <3>0. PICK status \in {Client!Success, Client!Lost} :
             flight' = [flight EXCEPT ![t].at = "answered", ![t].status = status, ![t].new = Len(pair) + 1]
      BY <2>1
    <3>1. PICK n \in Client!Pairs : n = flight[t].token
      BY <1>1, <2>1 DEF ClientKnown
    <3>2. PICK q : q = [flight[t] EXCEPT !.at = "answered", !.status = status, !.new = Len(pair) + 1]
      OBVIOUS
    <3>3. q \in ClientFlight /\ q.at = "answered" /\ q.token = flight[t].token /\ q.new = Len(pair) + 1
          /\ q.status = status
      <4>1. Len(pair) + 1 \in Nat /\ status \in Nat
        BY <1>1 DEF Client!Success, Client!Lost
      <4> QED BY <1>1, <3>2, <4>1 DEF ClientFlight
    <3>4. flight' = [flight EXCEPT ![t] = q]
      BY <1>1, <3>0, <3>2
    <3>5. PICK p : p = [session |-> pair[n].session, access |-> TRUE, refresh |-> TRUE]
      OBVIOUS
    <3>6. p \in ClientPair /\ pair[n] \in ClientPair
      <4>1. pair[n] \in ClientPair
        BY <1>1 DEF Client!Pairs
      <4> QED BY <3>5, <4>1 DEF ClientPair
    <3>7. PICK s : s = Append(pair, p)
      OBVIOUS
    <3>8. /\ s \in Seq(ClientPair) /\ DOMAIN s = Client!Pairs \cup {Len(pair) + 1} /\ n \in DOMAIN s
          /\ \A m \in Client!Pairs : s[m] = pair[m]
      BY <1>1, <3>1, <3>6, <3>7, ClientAppended DEF Client!Pairs
    <3>9. PICK o : o = [s[n] EXCEPT !.refresh = FALSE]
      OBVIOUS
    <3>10. o \in ClientPair /\ ~o.refresh
      <4>1. s[n] \in ClientPair
        BY <3>6, <3>8, <3>1
      <4>2. o.refresh = FALSE
        BY <3>9, <4>1 DEF ClientPair
      <4>3. o \in ClientPair
        BY <3>9, <4>1 DEF ClientPair
      <4> QED BY <4>2, <4>3
    <3>11. pair' = [s EXCEPT ![n] = o]
      BY <2>1, <3>1, <3>5, <3>7, <3>8, <3>9
    <3>12. pair' \in Seq(ClientPair) /\ DOMAIN pair' = DOMAIN s
      BY <3>8, <3>10, <3>11
    <3>13. ClientGrows
      BY <3>8, <3>10, <3>11, <3>12 DEF ClientGrows
    <3>14. ClientKnown(q.new)'
      BY <3>3, <3>8, <3>12 DEF ClientKnown, Client!Pairs
    <3>15. q.status \notin Client!AuthFailure
      BY <3>3 DEF Client!AuthFailure, Client!Success, Client!Lost
    <3> QED BY <1>2, <3>3, <3>4, <3>12, <3>13, <3>14, <3>15
  <2>2. CASE /\ ~(flight[t].token # 0 /\ pair[flight[t].token].refresh)
             /\ flight' = [flight EXCEPT ![t].at = "answered", ![t].status = 401]
             /\ UNCHANGED pair
    <3> DEFINE heard == [flight[t] EXCEPT !.at = "answered"]
    <3>1. PICK q : q = [heard EXCEPT !.status = 401]
      OBVIOUS
    <3>2. q \in ClientFlight /\ q.at = "answered" /\ q.token = flight[t].token /\ q.new = flight[t].new
      <4>1. flight[t] \in ClientFlight /\ 401 \in Nat
        BY <1>1
      <4>2. /\ heard \in ClientFlight
            /\ heard.at = "answered" /\ heard.token = flight[t].token /\ heard.new = flight[t].new
        BY <4>1 DEF ClientFlight
      <4> HIDE DEF heard
      <4>3. q.at = "answered" /\ q.token = flight[t].token /\ q.new = flight[t].new
        BY <3>1, <4>2 DEF ClientFlight
      <4>4. q \in ClientFlight
        BY <3>1, <4>1, <4>2 DEF ClientFlight
      <4> QED BY <4>3, <4>4
    <3>3. flight' = [flight EXCEPT ![t] = q]
      <4>1. flight' = [[flight EXCEPT ![t] = heard] EXCEPT ![t].status = 401]
        BY <1>1, <2>2
      <4> HIDE DEF heard
      <4>2. t \in DOMAIN flight
        BY <1>1
      <4> QED BY <3>1, <4>1, <4>2
    <3>4. ClientSpent(q.token)
      BY <1>1, <2>2, <3>2 DEF ClientKnown, ClientSpent
    <3>5. pair' \in Seq(ClientPair) /\ ClientGrows /\ ClientKnown(q.new)'
      BY <1>1, <2>2, <3>2 DEF ClientGrows, ClientKnown, Client!Pairs
    <3> QED BY <1>2, <3>2, <3>3, <3>4, <3>5
  <2>3. ASSUME NEW status \in Client!Passing \cup {Client!Lost}, UNCHANGED pair,
               flight' = [flight EXCEPT ![t].at = "answered", ![t].status = status]
        PROVE  ClientInv'
    <3>1. PICK q : q = [flight[t] EXCEPT !.at = "answered", !.status = status]
      OBVIOUS
    <3>2. q \in ClientFlight /\ q.at = "answered" /\ q.token = flight[t].token /\ q.new = flight[t].new
          /\ q.status \notin Client!AuthFailure
      <4>1. status \in Nat /\ status \notin Client!AuthFailure
        BY DEF Client!Passing, Client!Lost, Client!AuthFailure
      <4> QED BY <1>1, <3>1, <4>1 DEF ClientFlight
    <3>3. flight' = [flight EXCEPT ![t] = q]
      BY <1>1, <2>3, <3>1
    <3> QED BY <1>1, <1>2, <2>3, <3>2, <3>3 DEF ClientGrows, ClientKnown, Client!Pairs
  <2> QED BY <2>1, <2>2, <2>3 DEF Client!Refresh
<1>3. ClientTypeOK'
  BY <1>1, <1>2 DEF ClientInv, ClientTypeOK
<1>4. ClientFlightInv'
  BY <1>1, <1>2 DEF ClientInv, ClientFlightInv
<1>5. ClientKnownInv'
  BY <1>1, <1>2, ClientKnownStays DEF ClientInv, ClientKnownInv
<1>6. ClientEndInv'
  BY <1>1, <1>2, ClientKnownStays DEF ClientInv, ClientEndInv
<1> QED BY <1>3, <1>4, <1>5, <1>6 DEF ClientInv

\* The answer lands; nobody waits afterwards.
LEMMA ClientSettleStep ==
  ASSUME ClientInv, NEW t \in Tab, Client!Settle(t)
  PROVE  ClientInv'
<1>1. /\ flight \in [Tab -> ClientFlight] /\ flight[t] \in ClientFlight /\ flight[t].at = "answered"
      /\ fetch \in [ClientCalls -> ClientFetch] /\ served \in [Tab -> Nat] /\ told \in [Tab -> Seq(ClientTold)]
      /\ ClientKnown(flight[t].token) /\ ClientKnown(flight[t].new)
      /\ UNCHANGED <<logoutOn, pair, other>>
  BY DEF ClientInv, ClientTypeOK, ClientKnownInv, Client!Settle
<1>2. PICK what : what = IF flight[t].status = Client!Success THEN "nothing"
                         ELSE IF Client!EndsSession(flight[t].status) THEN "logout" ELSE "retry later"
  OBVIOUS
<1>3. PICK told1 : told1 = [token |-> flight[t].token, what |-> what]
  OBVIOUS
<1>4. told1 \in ClientTold /\ told1.token = flight[t].token
  BY <1>1, <1>2, <1>3 DEF ClientTold, ClientFlight
<1>5. told1.what = "logout" /\ logoutOn = "auth-failure" => ClientSpent(told1.token)
  BY <1>1, <1>2, <1>3 DEF Client!EndsSession, ClientInv, ClientEndInv
<1>6. told' = [told EXCEPT ![t] = Append(told[t], told1)]
  BY <1>1, <1>2, <1>3 DEF Client!Settle
<1>7. flight' = [flight EXCEPT ![t] = Client!Nothing] /\ served' = [served EXCEPT ![t] = served[t] - 1]
  BY DEF Client!Settle
<1>8. PICK then \in {"retry", "done"} : then = IF flight[t].status = Client!Success THEN "retry" ELSE "done"
  OBVIOUS
<1>9. \A c \in ClientCalls : [fetch[c] EXCEPT !.at = then] \in ClientFetch
                      /\ [fetch[c] EXCEPT !.at = then].at = then
                      /\ [fetch[c] EXCEPT !.at = then].token = fetch[c].token
  BY <1>1 DEF ClientFetch
<1>10. fetch' = [c \in ClientCalls |-> IF TabOf[c] = t /\ fetch[c].at = "refreshing"
                                THEN [fetch[c] EXCEPT !.at = then] ELSE fetch[c]]
  BY <1>8 DEF Client!Settle
<1>11. /\ fetch' \in [ClientCalls -> ClientFetch] /\ \A c \in ClientCalls : fetch'[c].token = fetch[c].token
       /\ \A c \in ClientCalls : fetch'[c].at = "refreshing" => fetch[c].at = "refreshing" /\ TabOf[c] # t
  BY <1>1, <1>9, <1>10
<1>12. jar' = Client!Written(flight[t].new) \/ jar' = Client!NoCookies \/ jar' = jar
  BY DEF Client!Settle
<1>13. served'[t] = 0 /\ served' \in [Tab -> Nat]
  BY <1>1, <1>7 DEF ClientInv, ClientFlightInv
<1>14. Append(told[t], told1) \in Seq(ClientTold)
       /\ \A i \in DOMAIN Append(told[t], told1) :
             Append(told[t], told1)[i] = told1
             \/ (i \in DOMAIN told[t] /\ Append(told[t], told1)[i] = told[t][i])
  BY <1>1, <1>4
<1>15. Client!Nothing \in ClientFlight /\ Client!Nothing.at = "none" /\ Client!Nothing.token = 0 /\ Client!Nothing.new = 0
  BY DEF Client!Nothing, ClientFlight
<1>16. ClientTypeOK'
  <2>1. jar' \in [access : Nat, refresh : Nat]
    BY <1>1, <1>12 DEF Client!Written, Client!NoCookies, ClientFlight, ClientInv, ClientTypeOK
  <2>2. told' \in [Tab -> Seq(ClientTold)] /\ flight' \in [Tab -> ClientFlight]
    BY <1>1, <1>6, <1>7, <1>14, <1>15
  <2> QED BY <1>1, <1>11, <1>13, <2>1, <2>2 DEF ClientInv, ClientTypeOK
<1>17. ClientFlightInv'
  <2>1. \A x \in Tab : served'[x] = IF flight'[x].at = "none" THEN 0 ELSE 1
    BY <1>1, <1>7, <1>13, <1>15 DEF ClientInv, ClientFlightInv
  <2>2. \A c \in ClientCalls : fetch'[c].at = "refreshing" => flight'[TabOf[c]].at # "none"
    BY <1>1, <1>7, <1>11 DEF ClientInv, ClientFlightInv
  <2> QED BY <2>1, <2>2 DEF ClientFlightInv
<1>18. ClientKnownInv'
  <2>1. ClientKnown(jar.access)' /\ ClientKnown(jar.refresh)'
    BY <1>1, <1>12 DEF Client!Written, Client!NoCookies, ClientInv, ClientKnownInv, ClientKnown,
                       Client!Pairs
  <2>2. \A x \in Tab : ClientKnown(flight[x].token)' /\ ClientKnown(flight[x].new)'
    BY <1>1, <1>7, <1>15 DEF ClientInv, ClientKnownInv, ClientKnown, Client!Pairs
  <2>3. \A c \in ClientCalls : ClientKnown(fetch[c].token)'
    BY <1>1, <1>11 DEF ClientInv, ClientKnownInv, ClientKnown, Client!Pairs
  <2>4. ClientKnown(other.new)'
    BY <1>1 DEF ClientInv, ClientKnownInv, ClientKnown, Client!Pairs
  <2> QED BY <2>1, <2>2, <2>3, <2>4 DEF ClientKnownInv
<1>19. ClientEndInv'
  <2>1. \A x \in Tab : flight'[x].at = "answered" /\ flight'[x].status \in Client!AuthFailure
                          => ClientSpent(flight[x].token)'
    BY <1>1, <1>7, <1>15 DEF ClientInv, ClientEndInv, ClientSpent, Client!Pairs
  <2>2. ASSUME NEW x \in Tab, NEW i \in DOMAIN told'[x],
               told'[x][i].what = "logout", logoutOn' = "auth-failure"
        PROVE  ClientSpent(told[x][i].token)'
    <3>1. told'[x][i] = told1 \/ (i \in DOMAIN told[x] /\ told'[x][i] = told[x][i])
      BY <1>1, <1>6, <1>14, <2>2
    <3>2. ClientSpent(told'[x][i].token)
      BY <1>1, <1>5, <2>2, <3>1 DEF ClientInv, ClientEndInv
    <3> QED BY <1>1, <3>2 DEF ClientSpent, Client!Pairs
  <2> QED BY <2>1, <2>2 DEF ClientEndInv
<1> QED BY <1>16, <1>17, <1>18, <1>19 DEF ClientInv

\* The rest: the pairs change, and the cookies or the sign-in under way.
LEMMA ClientOtherStep ==
  ASSUME ClientInv, UNCHANGED <<logoutOn, fetch, flight, told, served>>,
         pair' \in Seq(ClientPair), ClientGrows, other' \in ClientOther, ClientKnown(other.new)',
         jar' \in [access : Nat, refresh : Nat], ClientKnown(jar.access)', ClientKnown(jar.refresh)'
  PROVE  ClientInv'
<1>1. ClientTypeOK'
  BY DEF ClientInv, ClientTypeOK
<1>2. ClientFlightInv'
  BY DEF ClientInv, ClientFlightInv
<1>3. ClientKnownInv'
  BY ClientKnownStays DEF ClientInv, ClientKnownInv
<1>4. ClientEndInv'
  BY ClientKnownStays DEF ClientInv, ClientEndInv
<1> QED BY <1>1, <1>2, <1>3, <1>4 DEF ClientInv

LEMMA ClientSignInStep ==
  ASSUME ClientInv, Client!SignIn
  PROVE  ClientInv'
<1>1. PICK n : n = Len(pair) + 1
  OBVIOUS
<1>2. PICK p : p = [session |-> n, access |-> TRUE, refresh |-> TRUE]
  OBVIOUS
<1>3. pair \in Seq(ClientPair) /\ n \in Nat /\ p \in ClientPair
  BY <1>1, <1>2 DEF ClientInv, ClientTypeOK, ClientPair
<1>4. pair' = Append(pair, p)
  BY <1>1, <1>2 DEF Client!SignIn, Client!Mint
<1>5. pair' \in Seq(ClientPair) /\ ClientGrows /\ n \in DOMAIN pair'
  BY <1>1, <1>3, <1>4, ClientAppended DEF ClientGrows, Client!Pairs
<1>6. other' \in ClientOther /\ other'.new = n
  BY <1>1, <1>3 DEF Client!SignIn, Client!Nothing, ClientOther
<1>7. ClientKnown(other.new)'
  BY <1>5, <1>6 DEF ClientKnown, Client!Pairs
<1>8. ClientKnown(jar.access)' /\ ClientKnown(jar.refresh)' /\ jar' \in [access : Nat, refresh : Nat]
  BY <1>5, ClientKnownStays DEF Client!SignIn, ClientInv, ClientKnownInv, ClientTypeOK
<1> QED BY <1>5, <1>6, <1>7, <1>8, ClientOtherStep DEF Client!SignIn

LEMMA ClientRemainingStep ==
  ASSUME ClientInv, \/ Client!Logout \/ Client!LandCookies
                    \/ \E n \in Client!Pairs : Client!Expire(n) \/ Client!RevokeElsewhere(n)
  PROVE  ClientInv'
<1>1. /\ ClientTypeOK /\ pair \in Seq(ClientPair) /\ other \in ClientOther /\ jar \in [access : Nat, refresh : Nat]
      /\ ClientKnown(jar.access) /\ ClientKnown(jar.refresh) /\ ClientKnown(other.new)
  BY DEF ClientInv, ClientTypeOK, ClientKnownInv
<1>2. ASSUME pair' \in Seq(ClientPair), ClientGrows, jar' = jar,
             other' = other \/ (other' \in ClientOther /\ other'.new = 0),
             UNCHANGED <<logoutOn, fetch, flight, told, served>>
      PROVE  ClientInv'
  <2>1. ClientKnown(jar.access)' /\ ClientKnown(jar.refresh)'
    BY <1>1, <1>2, ClientKnownStays
  <2>2. other' \in ClientOther /\ ClientKnown(other.new)'
    BY <1>1, <1>2, ClientKnownStays DEF ClientKnown
  <2> QED BY <1>1, <1>2, <2>1, <2>2, ClientOtherStep
<1>3. CASE Client!Logout
  <2>1. jar.access \in Client!Pairs
    BY <1>1, <1>3 DEF Client!Logout, ClientKnown
  <2>2. pair' \in Seq(ClientPair) /\ ClientGrows
    BY <1>1, <1>3, <2>1, ClientRevokedPairs, ClientExpiredPairs DEF Client!Logout
  <2>3. other' \in ClientOther /\ other'.new = 0
    BY <1>3 DEF Client!Logout, Client!Nothing, ClientOther
  <2> QED BY <1>2, <1>3, <2>2, <2>3 DEF Client!Logout
<1>4. CASE Client!LandCookies
  <2>1. pair' = pair /\ other' = Client!Nothing /\ (jar' = Client!NoCookies \/ jar' = Client!Written(other.new))
        /\ UNCHANGED <<logoutOn, fetch, flight, told, served>>
    BY <1>4 DEF Client!LandCookies
  <2>2. Client!Nothing \in ClientOther /\ Client!Nothing.new = 0 /\ other.new \in Nat
    BY <1>1 DEF Client!Nothing, ClientOther
  <2>3. jar' \in [access : Nat, refresh : Nat] /\ ClientKnown(jar'.access) /\ ClientKnown(jar'.refresh)
    BY <1>1, <2>1, <2>2 DEF Client!NoCookies, Client!Written, ClientKnown
  <2>4. ClientGrows /\ ClientKnown(jar.access)' /\ ClientKnown(jar.refresh)' /\ ClientKnown(other.new)'
    BY <2>1, <2>2, <2>3 DEF ClientGrows, ClientKnown, Client!Pairs
  <2> QED BY <1>1, <2>1, <2>2, <2>3, <2>4, ClientOtherStep
<1>5. ASSUME NEW n \in Client!Pairs, Client!Expire(n) PROVE ClientInv'
  BY <1>1, <1>2, <1>5, ClientExpiredPairs DEF Client!Expire
<1>6. ASSUME NEW n \in Client!Pairs, Client!RevokeElsewhere(n) PROVE ClientInv'
  BY <1>1, <1>2, <1>6, ClientRevokedPairs DEF Client!RevokeElsewhere
<1> QED BY <1>3, <1>4, <1>5, <1>6

(* ------------------------------- Theorems -------------------------------- *)
LEMMA ClientInvStep ==
  ASSUME Client!CallsHaveTabs
  PROVE  ClientInv /\ [Client!Next]_Client!vars => ClientInv'
<1> SUFFICES ASSUME ClientInv, [Client!Next]_Client!vars PROVE ClientInv'
  OBVIOUS
<1>1. ASSUME NEW c \in ClientCalls,
             Client!Send(c) \/ Client!Guarded(c) \/ Client!Answered(c) \/ Client!JoinRefresh(c) PROVE ClientInv'
  BY <1>1, ClientSendStep, ClientJoinRefreshStep
<1>2. ASSUME NEW t \in Tab, Client!Refresh(t) \/ Client!Settle(t) PROVE ClientInv'
  BY <1>2, ClientRefreshStep, ClientSettleStep
<1>3. CASE Client!SignIn \/ Client!Logout \/ Client!LandCookies \/ \E n \in Client!Pairs : Client!Expire(n) \/ Client!RevokeElsewhere(n)
  BY <1>3, ClientSignInStep, ClientRemainingStep
<1>4. CASE UNCHANGED Client!vars
  BY <1>4 DEF Client!vars, ClientInv, ClientTypeOK, ClientFlightInv, ClientKnownInv, ClientEndInv,
              ClientKnown, ClientSpent, Client!Pairs
<1> QED BY <1>1, <1>2, <1>3, <1>4 DEF Client!Next

LEMMA ClientInvGives ==
  ASSUME ClientInv
  PROVE  Client!OneRefreshAtATime /\ Client!LogoutMeansOver
<1>1. Client!OneRefreshAtATime
  <2>1. \A t \in Tab : served[t] = 0 \/ served[t] = 1
    BY DEF ClientInv, ClientFlightInv
  <2>2. \A t \in Tab : served[t] <= 1
    BY <2>1
  <2> QED BY <2>2 DEF ClientInv, ClientFlightInv, Client!OneRefreshAtATime
<1>2. Client!LogoutMeansOver
  BY DEF ClientInv, ClientEndInv, ClientSpent, Client!LogoutMeansOver
<1> QED BY <1>1, <1>2

(***************************************************************************)
(* One of them                                                              *)
(***************************************************************************)

LEMMA TokensBegin == Init => (service = "tokens" => TokenInv)
<1> SUFFICES ASSUME Init, service = "tokens" PROVE TokenInv
  OBVIOUS
<1>1. Tokens!Init
  BY DEF Init
<1> QED BY <1>1, TokenInvInit, ServiceAssumptions

LEMMA TokensGoOn ==
  (service = "tokens" => TokenInv) /\ [Next]_vars => (service = "tokens" => TokenInv)'
<1> SUFFICES ASSUME service = "tokens" => TokenInv, [Next]_vars, service' = "tokens"
             PROVE  TokenInv'
  OBVIOUS
<1>1. service = "tokens" /\ [Tokens!Next]_Tokens!vars
  <2>1. CASE UNCHANGED vars
    BY <2>1 DEF vars, tokenVars, Tokens!vars
  <2>2. CASE Next
    BY <2>2 DEF Next
  <2> QED BY <2>1, <2>2
<1>2. TokenInv /\ [Tokens!Next]_Tokens!vars => TokenInv'
  BY TokenInvStep, ServiceAssumptions
<1> QED BY <1>1, <1>2

\* The inductive invariant of the stores without rows: an id is denied as long as its token
\* would open, what was answered is dead, and a call that came later does not get past
\* what killed it.
THEOREM TokenInvCorrect == Spec => [](service = "tokens" => TokenInv)
  BY TokensBegin, TokensGoOn, PTL DEF Spec

\* Under every deployment of the stateless stores the services are run with: a refresh
\* token is answered with one pair, and what was minted before a sign-out is not
\* accepted after it (CredentialStoreJwt and CredentialStoreEncapsulated: consume,
\* update, revoke, revokeAllForUser).
THEOREM SpentTokensNeverReturn == Spec => []SpentTokensStayDead
<1>1. (service = "tokens" => TokenInv) => SpentTokensStayDead
  <2> SUFFICES ASSUME service = "tokens", TokenInv PROVE SpentTokensStayDead
    BY DEF SpentTokensStayDead
  <2> QED BY TokenInvGives DEF SpentTokensStayDead
<1> QED BY <1>1, TokenInvCorrect, PTL

LEMMA RedisBegin == Init => (service = "redis" => RedisInv)
<1> SUFFICES ASSUME Init, service = "redis" PROVE RedisInv
  OBVIOUS
<1>1. Redis!Init
  BY DEF Init
<1> QED BY <1>1, RedisInvInit

LEMMA RedisGoOn ==
  (service = "redis" => RedisInv) /\ [Next]_vars => (service = "redis" => RedisInv)'
<1> SUFFICES ASSUME service = "redis" => RedisInv, [Next]_vars, service' = "redis"
             PROVE  RedisInv'
  OBVIOUS
<1>1. service = "redis" /\ [Redis!Next]_Redis!vars
  <2>1. CASE UNCHANGED vars
    BY <2>1 DEF vars, redisVars, Redis!vars
  <2>2. CASE Next
    BY <2>2 DEF Next
  <2> QED BY <2>1, <2>2
<1>2. RedisInv /\ [Redis!Next]_Redis!vars => RedisInv'
  BY RedisInvStep
<1> QED BY <1>1, <1>2

\* The inductive invariant of the rows in Redis: the index shows every row that a token
\* opens, a refresh answers only for a session that has one, and a revocation nothing
\* disturbs has found, or has yet to ask for, a row of each session it has not ended.
THEOREM RedisInvCorrect == Spec => [](service = "redis" => RedisInv)
  BY RedisBegin, RedisGoOn, PTL DEF Spec

\* A revocation that returned, with no other one and no expiry in between, has left no key
\* of the sessions that were open when it began, whatever logins and refreshes ran, failed
\* or died beside it; and the index has every key of a token that somebody holds
\* (CredentialStoreRedis: persist, update, revokeAllForUser, and the purge of the index).
THEOREM RevokedRowsStayGone == Spec => []RevokedRowsAreGone
<1>1. (service = "redis" => RedisInv) => RevokedRowsAreGone
  <2> SUFFICES ASSUME service = "redis", RedisInv PROVE RevokedRowsAreGone
    BY DEF RevokedRowsAreGone
  <2> QED BY DEF RedisInv, RevokedRowsAreGone, Redis!RevokedRowsAreGone
<1> QED BY <1>1, RedisInvCorrect, PTL

LEMMA LimitsBegin == Init => (service = "limits" => LimitInv)
<1> SUFFICES ASSUME Init, service = "limits" PROVE LimitInv
  OBVIOUS
<1>1. Limits!Init
  BY DEF Init
<1> QED BY <1>1, LimitInvInit, ServiceAssumptions

LEMMA LimitsGoOn ==
  (service = "limits" => LimitInv) /\ [Next]_vars => (service = "limits" => LimitInv)'
<1> SUFFICES ASSUME service = "limits" => LimitInv, [Next]_vars, service' = "limits"
             PROVE  LimitInv'
  OBVIOUS
<1>1. service = "limits" /\ [Limits!Next]_Limits!vars
  <2>1. CASE UNCHANGED vars
    BY <2>1 DEF vars, limitVars, Limits!vars
  <2>2. CASE Next
    BY <2>2 DEF Next
  <2> QED BY <2>1, <2>2
<1>2. LimitInv /\ [Limits!Next]_Limits!vars => LimitInv'
  BY LimitInvStep, ServiceAssumptions
<1> QED BY <1>1, <1>2

\* The inductive invariant of the limiter: each count of a counter was told to one request, a
\* counter lasts until the last increment of its window, and a request holds an item over
\* the limit exactly when it was told a count over one.
THEOREM LimitInvCorrect == Spec => [](service = "limits" => LimitInv)
  BY LimitsBegin, LimitsGoOn, PTL DEF Spec

\* Under every deployment whose servers differ, and whose increments are late, by no more
\* than a window together: of the requests counted in a window at most `limit' are served,
\* and one is rejected only where `limit' others were counted, until no sooner than that
\* window ends (RateLimiter.check, the increments of both stores and the two interceptors).
THEOREM BudgetsAreKept == Spec => []CountsAreKept
<1>1. (service = "limits" => LimitInv) => CountsAreKept
  <2> SUFFICES ASSUME service = "limits", LimitInv PROVE CountsAreKept
    BY DEF CountsAreKept
  <2> QED BY LimitBudgets, LimitRejections, ServiceAssumptions DEF CountsAreKept, Limits!CountsAreKept
<1> QED BY <1>1, LimitInvCorrect, PTL

LEMMA LoginsBegin == Init => (service = "logins" => LoginInv)
<1> SUFFICES ASSUME Init, service = "logins" PROVE LoginInv
  OBVIOUS
<1>1. Logins!Init
  BY DEF Init
<1> QED BY <1>1, LoginInvInit, ServiceAssumptions

LEMMA LoginsGoOn ==
  (service = "logins" => LoginInv) /\ [Next]_vars => (service = "logins" => LoginInv)'
<1> SUFFICES ASSUME service = "logins" => LoginInv, [Next]_vars, service' = "logins"
             PROVE  LoginInv'
  OBVIOUS
<1>1. service = "logins" /\ [Logins!Next]_Logins!vars
  <2>1. CASE UNCHANGED vars
    BY <2>1 DEF vars, loginVars, Logins!vars
  <2>2. CASE Next
    BY <2>2 DEF Next
  <2> QED BY <2>1, <2>2
<1>2. LoginInv /\ [Logins!Next]_Logins!vars => LoginInv'
  BY LoginInvStep, ServiceAssumptions
<1> QED BY <1>1, <1>2

\* The inductive invariant of the federated sign-in: rows are numbered once and for all, a
\* subject has one row, and a login past its resolution answers for an account its
\* identity belongs to.
THEOREM LoginInvCorrect == Spec => [](service = "logins" => LoginInv)
  BY LoginsBegin, LoginsGoOn, PTL DEF Spec

\* A federated identity opens only the account it was created for or linked to, and an
\* identity that was removed opens none (FederatedLoginService.resolve,
\* and link, touchLogin and unlink of the identity store).
THEOREM IdentitiesOpenTheirAccount == Spec => []IdentitiesAreEarned
<1>1. (service = "logins" => LoginInv) => IdentitiesAreEarned
  <2> SUFFICES ASSUME service = "logins", LoginInv PROVE IdentitiesAreEarned
    BY DEF IdentitiesAreEarned
  <2> QED BY LoginInvGives DEF IdentitiesAreEarned
<1> QED BY <1>1, LoginInvCorrect, PTL

LEMMA ClientBegin == Init => (service = "client" => ClientInv)
<1> SUFFICES ASSUME Init, service = "client" PROVE ClientInv
  OBVIOUS
<1>1. Client!Init
  BY DEF Init
<1> QED BY <1>1, ClientInvInit

LEMMA ClientGoOn ==
  (service = "client" => ClientInv) /\ [Next]_vars => (service = "client" => ClientInv)'
<1> SUFFICES ASSUME service = "client" => ClientInv, [Next]_vars, service' = "client"
             PROVE  ClientInv'
  OBVIOUS
<1>1. service = "client" /\ [Client!Next]_Client!vars
  <2>1. CASE UNCHANGED vars
    BY <2>1 DEF vars, clientVars, Client!vars
  <2>2. CASE Next
    BY <2>2 DEF Next
  <2> QED BY <2>1, <2>2
<1>2. ClientInv /\ [Client!Next]_Client!vars => ClientInv'
  BY ClientInvStep, ServiceAssumptions
<1> QED BY <1>1, <1>2

\* The inductive invariant of the client: the flight of a tab is the one refresh it has on
\* the wire, its waiting calls wait for that one, and the server refuses spent tokens only.
THEOREM ClientInvCorrect == Spec => [](service = "client" => ClientInv)
  BY ClientBegin, ClientGoOn, PTL DEF Spec

\* A tab has one refresh on the wire, however many of its calls fail together; and with
\* logoutOn "auth-failure" it is logged out only on a refresh token that is dead, or none,
\* in whatever order answers, sign-ins and sign-outs land (client: runRefresh, failed).
THEOREM TabsAreKeptSignedIn == Spec => []TabsKeepTheirSession
<1>1. (service = "client" => ClientInv) => TabsKeepTheirSession
  <2> SUFFICES ASSUME service = "client", ClientInv PROVE TabsKeepTheirSession
    BY DEF TabsKeepTheirSession
  <2> QED BY ClientInvGives DEF TabsKeepTheirSession
<1> QED BY <1>1, ClientInvCorrect, PTL
=============================================================================
