------------------------- MODULE ValidateCache_proofs -------------------------
(***************************************************************************)
(* Proofs about ValidateCache, for every value of its constants.           *)
(***************************************************************************)
EXTENDS ValidateCache, FiniteSetTheorems, TLAPS

USE DEF Never, RevokesPc

LEMMA AnyTypes == AnyToken \in Token /\ AnyUser \in User
  BY TokenAssumption DEF AnyToken, AnyUser

LEMMA WaitingType == Waiting \in ValidationState /\ Waiting.pc = "idle"
  BY AnyTypes DEF Waiting, ValidationState

LEMMA IdleType ==
  /\ Idle \in CallState
  /\ Idle.pc = "idle" /\ Idle.targets = {}
  /\ Idle.writing = {} /\ Idle.evicting = {}
  BY AnyTypes, CacheAssumption DEF Idle, CallState

\* Every field of a call in flight, as facts the provers can use.
LEMMA CallFields ==
  ASSUME TypeOK, NEW c \in Revoker
  PROVE  /\ call[c] \in CallState
         /\ call[c].sessions \subseteq Session /\ call[c].user \in User
         /\ call[c].writing \subseteq Token /\ call[c].evicting \subseteq Token
         /\ call[c].targets \subseteq Token /\ call[c].pass \in 0 .. MaxRevokePasses
         /\ call[c].failed \in BOOLEAN
  BY DEF TypeOK, CallState

\* Replacing one call by a well-typed one.
LEMMA CallStep ==
  ASSUME TypeOK, NEW c \in Revoker, NEW d \in CallState,
         d.pc = "purgeList" => d.pass < MaxRevokePasses,
         call' = [call EXCEPT ![c] = d]
  PROVE  /\ call' \in [Revoker -> CallState]
         /\ \A x \in Revoker : call'[x].pc = "purgeList" => call'[x].pass < MaxRevokePasses
  BY DEF TypeOK

LEMMA EndStep ==
  ASSUME TypeOK, NEW c \in Revoker, End(c)
  PROVE  /\ call' \in [Revoker -> CallState]
         /\ \A x \in Revoker : call'[x].pc = "purgeList" => call'[x].pass < MaxRevokePasses
  BY IdleType, CallStep DEF End

LEMMA EvictType ==
  ASSUME TypeOK, NEW T, Evict(T)
  PROVE  /\ cached' \in [Token -> Nat \cup {Never}]
         /\ validation' \in [Validator -> ValidationState]
  BY DEF Evict, Drop, TypeOK, ValidationState

LEMMA RemoveType ==
  ASSUME TypeOK, NEW T, Remove(T)
  PROVE  /\ removedAt' \in [Token -> Nat \cup {Never}]
         /\ live' \subseteq live
  BY DEF Remove, TypeOK

LEMMA PutType ==
  ASSUME TypeOK, NEW t \in Token, Put(t)
  PROVE  /\ cached' \in [Token -> Nat \cup {Never}]
         /\ cached'[t] = now + TtlMs
         /\ \A u \in Token \ {t} : cached'[u] \in {cached[u], Never}
<1>1. now + TtlMs \in Nat
  BY CacheAssumption DEF TypeOK
<1> QED BY <1>1 DEF Put, Drop, TypeOK
-----------------------------------------------------------------------------
(* Type correctness.                                                       *)

THEOREM TypeInit == Init => TypeOK
  BY IdleType, WaitingType DEF Init, TypeOK

LEMMA ValidateType ==
  ASSUME TypeOK, NEW v \in Validator, ValidateStep(v)
  PROVE  TypeOK'
<1>1. CASE \E t \in Token : StartRead(v, t)
  <2>1. PICK t \in Token : StartRead(v, t)
    BY <1>1
  <2>2. cached' \in [Token -> Nat \cup {Never}]
    BY <2>1 DEF StartRead, Drop, TypeOK
  <2>3. [pc |-> "read", tok |-> t, clean |-> TRUE, since |-> now] \in ValidationState
    BY DEF ValidationState, TypeOK
  <2> QED BY <2>1, <2>2, <2>3 DEF StartRead, TypeOK
<1>2. CASE Read(v)
  <2>1. [validation[v] EXCEPT !.pc = "reply"] \in ValidationState
    BY DEF ValidationState, TypeOK
  <2> QED BY <1>2, <2>1, WaitingType DEF Read, TypeOK
<1>3. CASE ReadFails(v)
  BY <1>3, WaitingType DEF ReadFails, TypeOK
<1>4. CASE Fill(v)
  <2>1. validation[v].tok \in Token
    BY DEF TypeOK, ValidationState
  <2> QED BY <1>4, <2>1, PutType, WaitingType DEF Fill, TypeOK
<1>5. CASE Answer(v)
  BY <1>5, WaitingType DEF Answer, TypeOK
<1> QED BY <1>1, <1>2, <1>3, <1>4, <1>5 DEF ValidateStep

LEMMA StoreType ==
  ASSUME TypeOK, NEW t \in Token, StoreStep(t)
  PROVE  TypeOK'
<1>1. CASE Mint(t)
  <2>1. now + Lifetime[t] \in Nat
    BY TokenAssumption DEF TypeOK
  <2> QED BY <1>1, <2>1 DEF Mint, TypeOK
<1>2. CASE RevokeElsewhere(t)
  BY <1>2, RemoveType DEF RevokeElsewhere, TypeOK
<1>3. CASE HitExpired(t)
  BY <1>3, EvictType DEF HitExpired, TypeOK
<1> QED BY <1>1, <1>2, <1>3 DEF StoreStep

LEMMA TickType == TypeOK /\ Tick => TypeOK'
  BY DEF TypeOK, Tick

LEMMA RevokeType ==
  ASSUME TypeOK, NEW c \in Revoker, RevokeStep(c)
  PROVE  TypeOK'
<1> USE CallFields
<1>1. CASE \E t \in Token : StartRevoke(c, t)
  <2>1. PICK t \in Token : StartRevoke(c, t)
    BY <1>1
  <2> DEFINE d == [Idle EXCEPT !.pc = "one", !.writing = {t}, !.targets = {t}]
  <2>2. d \in CallState /\ d.pc = "one"
    BY IdleType DEF CallState
  <2> HIDE DEF d
  <2>3. call' = [call EXCEPT ![c] = d]
    BY <2>1 DEF StartRevoke, d
  <2> QED BY <2>1, <2>2, <2>3, CallStep, EvictType DEF StartRevoke, TypeOK
<1>2. CASE StartRevokeSession(c) \/ StartRevokeOthers(c)
  <2>1. PICK S \in SUBSET Session : StartSweep(c, S)
    <3>1. \A s \in Session : {s} \in SUBSET Session
      OBVIOUS
    <3>2. \A k \in Session :
             {s \in Session : UserOf[s] = UserOf[k]} \ {k} \in SUBSET Session
      OBVIOUS
    <3> QED BY <1>2, <3>1, <3>2 DEF StartRevokeSession, StartRevokeOthers
  <2> DEFINE d == [Idle EXCEPT !.pc = "list", !.sessions = S]
  <2>2. d \in CallState /\ d.pc = "list"
    BY IdleType DEF CallState
  <2> HIDE DEF d
  <2>3. call' = [call EXCEPT ![c] = d]
    BY <2>1 DEF StartSweep, d
  <2> QED BY <2>1, <2>2, <2>3, CallStep DEF StartSweep, TypeOK
<1>3. CASE ListRows(c)
  <2>1. Matched(c) \subseteq Token
    BY DEF Matched, TypeOK
  <2> DEFINE d == [call[c] EXCEPT !.pc = "sweep", !.writing = Matched(c),
                                  !.targets = @ \cup Matched(c)]
  <2>2. d \in CallState /\ d.pc = "sweep"
    BY <2>1 DEF CallState
  <2>3. call' = [call EXCEPT ![c] = d]
    BY <1>3 DEF ListRows
  <2> HIDE DEF d
  <2> QED BY <1>3, <2>2, <2>3, CallStep, EvictType DEF ListRows, TypeOK
<1>4. CASE ListEmpty(c)
  BY <1>4, EndStep DEF ListEmpty, TypeOK
<1>5. CASE ListFails(c)
  BY <1>5, EndStep DEF ListFails, TypeOK
<1>6. CASE RowStep(c)
  <2>1. PICK t \in Token : WriteRow(c, t) \/ WriteFails(c, t) \/ EvictAgain(c, t)
    BY <1>6 DEF RowStep
  <2>2. CASE WriteRow(c, t)
    <3> DEFINE d == [call[c] EXCEPT !.writing = @ \ {t}, !.evicting = @ \cup {t}]
    <3>1. d \in CallState /\ d.pc = call[c].pc
      BY DEF CallState
    <3>2. call' = [call EXCEPT ![c] = d]
      BY <2>2 DEF WriteRow
    <3> HIDE DEF d
    <3> QED BY <2>2, <3>1, <3>2, CallStep, RemoveType DEF WriteRow, TypeOK
  <2>3. CASE WriteFails(c, t)
    <3> DEFINE d == [call[c] EXCEPT !.writing = @ \ {t}, !.evicting = @ \cup {t},
                                    !.pc = "orphaned"]
    <3>1. d \in CallState /\ d.pc = "orphaned"
      BY DEF CallState
    <3>2. call' = [call EXCEPT ![c] = d]
      BY <2>3 DEF WriteFails
    <3> HIDE DEF d
    <3> QED BY <2>3, <3>1, <3>2, CallStep DEF WriteFails, TypeOK
  <2>4. CASE EvictAgain(c, t)
    <3> DEFINE d == [call[c] EXCEPT !.evicting = @ \ {t}]
    <3>1. d \in CallState /\ d.pc = call[c].pc
      BY DEF CallState
    <3>2. call' = [call EXCEPT ![c] = d]
      BY <2>4 DEF EvictAgain
    <3> HIDE DEF d
    <3> QED BY <2>4, <3>1, <3>2, CallStep, EvictType DEF EvictAgain, TypeOK
  <2> QED BY <2>1, <2>2, <2>3, <2>4
<1>7. CASE RevokeReturns(c)
  BY <1>7, EndStep DEF RevokeReturns, TypeOK
<1>8. CASE OrphanEnds(c)
  BY <1>8, EndStep DEF OrphanEnds, TypeOK
<1>9. CASE SweepAgain(c)
  <2>1. CASE call[c].pass >= MaxRevokePasses
    BY <1>9, <2>1, EndStep DEF SweepAgain, TypeOK
  <2>2. CASE ~(call[c].pass >= MaxRevokePasses)
    <3> DEFINE d == [call[c] EXCEPT !.pc = "list", !.pass = @ + 1]
    <3>3. call[c].pass + 1 \in 0 .. MaxRevokePasses
      BY <2>2, CacheAssumption
    <3>1. d \in CallState /\ d.pc = "list"
      BY <3>3 DEF CallState
    <3>2. call' = [call EXCEPT ![c] = d]
      BY <1>9, <2>2 DEF SweepAgain
    <3> HIDE DEF d
    <3> QED BY <1>9, <3>1, <3>2, CallStep DEF SweepAgain, TypeOK
  <2> QED BY <2>1, <2>2
<1> QED
  BY <1>1, <1>2, <1>3, <1>4, <1>5, <1>6, <1>7, <1>8, <1>9 DEF RevokeStep

LEMMA PurgeType ==
  ASSUME TypeOK, NEW c \in Revoker, PurgeStep(c)
  PROVE  TypeOK'
<1> USE CallFields
<1>1. CASE \E u \in User : StartRevokeAll(c, u)
  <2>1. PICK u \in User : StartRevokeAll(c, u)
    BY <1>1
  <2> DEFINE d == [Idle EXCEPT !.pc = "purge", !.user = u,
                               !.targets = minted \cap TokensOf(u)]
  <2>2. d \in CallState /\ d.pc = "purge"
    BY IdleType DEF CallState, TokensOf
  <2> HIDE DEF d
  <2>3. call' = [call EXCEPT ![c] = d]
    BY <2>1 DEF StartRevokeAll, d
  <2> QED BY <2>1, <2>2, <2>3, CallStep, EvictType DEF StartRevokeAll, TypeOK
<1>2. CASE Purge(c)
  <2>1. CASE call[c].pass >= MaxRevokePasses
    <3> DEFINE d == [call[c] EXCEPT !.pc = "finally", !.failed = TRUE]
    <3>1. d \in CallState /\ d.pc = "finally"
      BY DEF CallState
    <3>2. call' = [call EXCEPT ![c] = d]
      BY <1>2, <2>1 DEF Purge
    <3> HIDE DEF d
    <3> QED BY <1>2, <3>1, <3>2, CallStep, RemoveType DEF Purge, TypeOK
  <2>2. CASE ~(call[c].pass >= MaxRevokePasses)
    <3> DEFINE d == [call[c] EXCEPT !.pc = "purgeList"]
    <3>1. d \in CallState /\ d.pass = call[c].pass
      BY DEF CallState
    <3>2. call' = [call EXCEPT ![c] = d]
      BY <1>2, <2>2 DEF Purge
    <3>3. d.pass < MaxRevokePasses
      BY <2>2, <3>1, CacheAssumption
    <3> HIDE DEF d
    <3> QED BY <1>2, <3>1, <3>2, <3>3, CallStep, RemoveType DEF Purge, TypeOK
  <2> QED BY <2>1, <2>2
<1>3. CASE PurgeList(c)
  <2> DEFINE d == IF live \cap TokensOf(call[c].user) = {}
                  THEN [call[c] EXCEPT !.pc = "finally"]
                  ELSE [call[c] EXCEPT !.pc = "purge", !.pass = @ + 1]
  <2>1. call[c].pass < MaxRevokePasses
    BY <1>3 DEF PurgeList, TypeOK
  <2>4. call[c].pass + 1 \in 0 .. MaxRevokePasses
    BY <2>1, CacheAssumption
  <2>5. [call[c] EXCEPT !.pc = "finally"] \in CallState
    BY DEF CallState
  <2>6. [call[c] EXCEPT !.pc = "purge", !.pass = @ + 1] \in CallState
    BY <2>4 DEF CallState
  <2>2. d \in CallState /\ d.pc # "purgeList"
    BY <2>5, <2>6
  <2>3. call' = [call EXCEPT ![c] = d]
    BY <1>3 DEF PurgeList
  <2> HIDE DEF d
  <2> QED BY <1>3, <2>2, <2>3, CallStep DEF PurgeList, TypeOK
<1>4. CASE PurgeFails(c)
  <2> DEFINE d == [call[c] EXCEPT !.pc = "finally", !.failed = TRUE]
  <2>1. d \in CallState /\ d.pc = "finally"
    BY DEF CallState
  <2>2. call' = [call EXCEPT ![c] = d]
    BY <1>4 DEF PurgeFails
  <2> HIDE DEF d
  <2> QED BY <1>4, <2>1, <2>2, CallStep DEF PurgeFails, TypeOK
<1>5. CASE Finally(c)
  BY <1>5, EndStep, EvictType DEF Finally, TypeOK
<1> QED BY <1>1, <1>2, <1>3, <1>4, <1>5 DEF PurgeStep

THEOREM TypeStep == TypeOK /\ [Next]_vars => TypeOK'
<1> SUFFICES ASSUME TypeOK, [Next]_vars PROVE TypeOK'
  OBVIOUS
<1>1. CASE UNCHANGED vars
  BY <1>1 DEF vars, TypeOK
<1>2. CASE Next
  BY <1>2, ValidateType, RevokeType, PurgeType, StoreType, TickType DEF Next
<1> QED BY <1>1, <1>2

\* Types hold throughout.
THEOREM TypeCorrect == Spec => []TypeOK
  BY TypeInit, TypeStep, PTL DEF Spec
-----------------------------------------------------------------------------
(* Revoked tokens stay out of the cache.                                   *)

LEMMA EvictQuiet ==
  ASSUME TypeOK, NEW T, Evict(T), NEW t \in Token
  PROVE  /\ \A v \in Validator : ~Holds(v, t)'
         /\ t \in T => cached'[t] = Never
         /\ cached[t] = Never => cached'[t] = Never
  BY DEF Evict, Drop, Holds, TypeOK, ValidationState

\* An eviction silences every dead token it covers, and keeps what was quiet.
LEMMA EvictSilences ==
  ASSUME TypeOK, NEW T, Evict(T), NEW t \in minted, t \notin live',
         minted' = minted, t \in T \/ Quiet(t)
  PROVE  Quiet(t)'
<1>1. t \in Token
  BY DEF TypeOK
<1>2. cached'[t] = Never
  BY <1>1, EvictQuiet DEF Quiet
<1>3. \A v \in Validator : ~Holds(v, t)'
  BY <1>1, EvictQuiet
<1> QED BY <1>2, <1>3 DEF Quiet

\* A step that changes neither the cache nor the validations keeps what was quiet.
LEMMA QuietKept ==
  ASSUME NEW t, Quiet(t), t \in minted', t \notin live', UNCHANGED <<cached, validation>>
  PROVE  Quiet(t)'
  BY DEF Quiet, Holds

\* The store forgets for good: a dead token is not revived, and a quiet one
\* stays quiet.
LEMMA ValidateQuiet ==
  ASSUME TypeOK, NEW v \in Validator, ValidateStep(v), NEW t, Quiet(t)
  PROVE  Quiet(t)'
<1>1. t \in Token /\ t \in minted /\ t \notin live
  BY DEF Quiet, TypeOK
<1>2. t \in minted' /\ t \notin live'
  BY <1>1 DEF ValidateStep, StartRead, Read, ReadFails, Fill, Answer
<1>3. CASE \E u \in Token : StartRead(v, u)
  <2>1. PICK u \in Token : StartRead(v, u)
    BY <1>3
  <2>2. cached'[t] = Never
    BY <1>1, <2>1 DEF StartRead, Drop, Quiet
  <2>3. \A w \in Validator : ~Holds(w, t)'
    BY <2>1 DEF StartRead, Holds, Quiet, TypeOK
  <2> QED BY <1>2, <2>2, <2>3 DEF Quiet
<1>4. CASE Read(v)
  <2>1. validation[v].tok = t => validation'[v].pc = "idle"
    BY <1>1, <1>4, WaitingType DEF Read, TypeOK
  <2>2. \A w \in Validator : ~Holds(w, t)'
    <3> SUFFICES ASSUME NEW w \in Validator PROVE ~Holds(w, t)'
      OBVIOUS
    <3>1. CASE w = v
      <4>1. CASE validation[v].tok = t
        BY <2>1, <3>1, <4>1 DEF Holds
      <4>2. CASE validation[v].tok # t
        <5>1. validation'[v].tok = validation[v].tok \/ validation'[v].pc = "idle"
          BY <1>4, WaitingType DEF Read, TypeOK, ValidationState
        <5> QED BY <3>1, <4>2, <5>1 DEF Holds
      <4> QED BY <4>1, <4>2
    <3>2. CASE w # v
      <4>1. validation'[w] = validation[w]
        BY <1>4, <3>2 DEF Read, TypeOK
      <4> QED BY <4>1 DEF Holds, Quiet
    <3> QED BY <3>1, <3>2
  <2>3. cached' = cached
    BY <1>4 DEF Read
  <2> QED BY <1>2, <2>2, <2>3 DEF Quiet
<1>5. CASE ReadFails(v) \/ Answer(v)
  <2>1. cached' = cached /\ validation' = [validation EXCEPT ![v] = Waiting]
    BY <1>5 DEF ReadFails, Answer
  <2>2. \A w \in Validator : ~Holds(w, t)'
    BY <2>1, WaitingType DEF Holds, Quiet, TypeOK
  <2> QED BY <1>2, <2>1, <2>2 DEF Quiet
<1>6. CASE Fill(v)
  <2>1. validation[v].tok # t
    BY <1>6 DEF Fill, Quiet, Holds
  <2>2. validation[v].tok \in Token
    BY DEF TypeOK, ValidationState
  <2>3. cached'[t] = Never
    BY <1>1, <1>6, <2>1, <2>2, PutType DEF Fill, Quiet
  <2>4. \A w \in Validator : ~Holds(w, t)'
    BY <1>6, WaitingType DEF Fill, Holds, Quiet, TypeOK
  <2> QED BY <1>2, <2>3, <2>4 DEF Quiet
<1> QED BY <1>3, <1>4, <1>5, <1>6 DEF ValidateStep

LEMMA StoreQuiet ==
  ASSUME TypeOK, NEW u \in Token, StoreStep(u), NEW t, Quiet(t)
  PROVE  Quiet(t)'
<1>1. t \in Token /\ t \in minted /\ t \notin live
  BY DEF Quiet, TypeOK
<1>2. CASE Mint(u)
  BY <1>1, <1>2, QuietKept DEF Mint
<1>3. CASE RevokeElsewhere(u)
  BY <1>1, <1>3, QuietKept DEF RevokeElsewhere, Remove
<1>4. CASE HitExpired(u)
  BY <1>1, <1>4, EvictSilences DEF HitExpired
<1> QED BY <1>2, <1>3, <1>4 DEF StoreStep

LEMMA TickQuiet ==
  ASSUME TypeOK, Tick, NEW t, Quiet(t)
  PROVE  Quiet(t)'
<1>1. t \in minted' /\ t \notin live' /\ UNCHANGED <<cached, validation>>
  BY DEF Tick, Quiet
<1> QED BY <1>1, QuietKept

\* What a step of a revocation does to the store and the cache.
LEMMA RevokeFrame ==
  ASSUME NEW c \in Revoker, RevokeStep(c) \/ PurgeStep(c)
  PROVE  /\ minted' = minted
         /\ live' \subseteq live
         /\ UNCHANGED <<cached, validation>> \/ \E T : Evict(T)
<1>1. CASE RevokeStep(c)
  BY <1>1 DEF RevokeStep, StartRevoke, StartRevokeSession, StartRevokeOthers, StartSweep,
              ListRows, ListEmpty, ListFails, RowStep, WriteRow, WriteFails, EvictAgain,
              RevokeReturns, OrphanEnds, SweepAgain, Remove
<1>2. CASE PurgeStep(c)
  BY <1>2 DEF PurgeStep, StartRevokeAll, Purge, PurgeList, PurgeFails, Finally, Remove
<1> QED BY <1>1, <1>2

LEMMA RevokeQuiet ==
  ASSUME TypeOK, NEW c \in Revoker, RevokeStep(c) \/ PurgeStep(c), NEW t, Quiet(t)
  PROVE  Quiet(t)'
<1>1. t \in minted /\ t \in minted' /\ t \notin live'
  BY RevokeFrame DEF Quiet
<1>2. CASE UNCHANGED <<cached, validation>>
  BY <1>1, <1>2, QuietKept
<1>3. CASE \E T : Evict(T)
  BY <1>1, <1>3, RevokeFrame, EvictSilences
<1> QED BY <1>2, <1>3, RevokeFrame

\* A quiet token stays quiet, a minted token minted, and a dead one dead.
LEMMA QuietStable ==
  ASSUME TypeOK, Next
  PROVE  /\ \A t : Quiet(t) => Quiet(t)'
         /\ minted \subseteq minted'
         /\ live' \cap minted \subseteq live
<1>1. CASE \E v \in Validator : ValidateStep(v)
  BY <1>1, ValidateQuiet DEF ValidateStep, StartRead, Read, ReadFails, Fill, Answer
<1>2. CASE \E c \in Revoker : RevokeStep(c) \/ PurgeStep(c)
  BY <1>2, RevokeQuiet, RevokeFrame
<1>3. CASE \E u \in Token : StoreStep(u)
  <2>1. PICK u \in Token : StoreStep(u)
    BY <1>3
  <2>2. minted \subseteq minted' /\ live' \cap minted \subseteq live
    BY <2>1 DEF StoreStep, Mint, RevokeElsewhere, HitExpired, Remove
  <2> QED BY <2>1, <2>2, StoreQuiet
<1>4. CASE Tick
  BY <1>4, TickQuiet DEF Tick
<1> QED BY <1>1, <1>2, <1>3, <1>4 DEF Next

\* The promise of a revocation that does not move is kept by the other steps.
LEMMA CallKept ==
  ASSUME TypeOK, Next, NEW d \in Revoker, call'[d] = call[d], CallInv(d)
  PROVE  CallInv(d)'
<1>1. call[d].targets \subseteq minted
  BY DEF CallInv
<1>2. call[d].targets \cap live' \subseteq call[d].targets \cap live
  BY <1>1, QuietStable
<1>3. \A t : Quiet(t) => Quiet(t)'
  BY QuietStable
<1>4. call[d].targets \subseteq minted'
  BY <1>1, QuietStable
<1> QED BY <1>2, <1>3, <1>4 DEF CallInv, AllSettled, TokensOf

\* An idle call promises nothing.
LEMMA EndKeeps ==
  ASSUME TypeOK, NEW c \in Revoker, End(c)
  PROVE  CallInv(c)'
<1>1. call'[c] = Idle
  BY DEF End, TypeOK
<1> QED BY <1>1, IdleType DEF CallInv

\* Each step of a revocation keeps its own promise.
LEMMA RevokeCall ==
  ASSUME TypeOK, Next, NEW c \in Revoker, RevokeStep(c), CallInv(c)
  PROVE  CallInv(c)'
<1> USE CallFields
<1>1. CASE \E t \in Token : StartRevoke(c, t)
  <2>1. PICK t \in Token : StartRevoke(c, t)
    BY <1>1
  <2>2. call'[c] = [Idle EXCEPT !.pc = "one", !.writing = {t}, !.targets = {t}]
    BY <2>1 DEF StartRevoke, TypeOK
  <2>3. call'[c].pc = "one" /\ call'[c].writing = {t} /\ call'[c].targets = {t}
    BY <2>2 DEF Idle
  <2> QED BY <2>1, <2>3 DEF StartRevoke, CallInv
<1>2. CASE StartRevokeSession(c) \/ StartRevokeOthers(c)
  <2>1. PICK S : StartSweep(c, S)
    BY <1>2 DEF StartRevokeSession, StartRevokeOthers
  <2>2. call'[c] = [Idle EXCEPT !.pc = "list", !.sessions = S]
    BY <2>1 DEF StartSweep, TypeOK
  <2>3. /\ call'[c].pc = "list" /\ call'[c].targets = {}
        /\ call'[c].writing = {} /\ call'[c].evicting = {}
    BY <2>2 DEF Idle
  <2> QED BY <2>3 DEF CallInv, AllSettled
<1>3. CASE ListRows(c)
  <2>1. /\ call'[c].pc = "sweep" /\ call'[c].writing = Matched(c)
        /\ call'[c].evicting = call[c].evicting
        /\ call'[c].targets = call[c].targets \cup Matched(c)
    BY <1>3 DEF ListRows, TypeOK, CallState
  <2>2. /\ minted' = minted /\ live' = live /\ Matched(c) \subseteq minted
        /\ call[c].pc = "list" /\ AllSettled(c)
    BY <1>3 DEF ListRows, Matched, CallInv, TypeOK
  <2>3. call[c].targets \cap live = {} /\ \A t \in call[c].targets : Quiet(t)
    BY <2>2 DEF CallInv, AllSettled
  <2>4. \A t \in call[c].targets : Quiet(t)'
    BY <2>3, QuietStable
  <2>5. call'[c].targets \subseteq minted'
    BY <2>1, <2>2 DEF CallInv
  <2> QED BY <2>1, <2>2, <2>3, <2>4, <2>5 DEF CallInv
<1>4. CASE ListEmpty(c) \/ ListFails(c) \/ RevokeReturns(c) \/ OrphanEnds(c)
  BY <1>4, EndKeeps DEF ListEmpty, ListFails, RevokeReturns, OrphanEnds
<1>5. CASE RowStep(c)
  <2>1. PICK t \in Token : WriteRow(c, t) \/ WriteFails(c, t) \/ EvictAgain(c, t)
    BY <1>5 DEF RowStep
  <2>2. CASE WriteRow(c, t)
    <3>1. /\ call'[c].pc = call[c].pc /\ call'[c].targets = call[c].targets
          /\ call'[c].writing = call[c].writing \ {t}
          /\ call'[c].evicting = call[c].evicting \cup {t}
      BY <2>2 DEF WriteRow, TypeOK, CallState
    <3>2. minted' = minted /\ live' = live \ {t} /\ call[c].pc \in {"one", "sweep", "orphaned"}
      BY <2>2 DEF WriteRow, Remove
    <3>3. call[c].pc # "orphaned" =>
            \A u \in call'[c].targets \ (call'[c].writing \cup call'[c].evicting) : Quiet(u)'
      BY <3>1, <3>2, QuietStable DEF CallInv
    <3> QED BY <3>1, <3>2, <3>3 DEF CallInv
  <2>3. CASE WriteFails(c, t)
    <3>1. call'[c].pc = "orphaned" /\ call'[c].targets = call[c].targets /\ minted' = minted
      BY <2>3 DEF WriteFails, TypeOK, CallState
    <3> QED BY <3>1 DEF CallInv
  <2>4. CASE EvictAgain(c, t)
    <3>1. /\ call'[c].pc = call[c].pc /\ call'[c].targets = call[c].targets
          /\ call'[c].writing = call[c].writing
          /\ call'[c].evicting = call[c].evicting \ {t}
      BY <2>4 DEF EvictAgain, TypeOK, CallState
    <3>2. /\ minted' = minted /\ live' = live /\ Evict({t})
          /\ call[c].pc \in {"one", "sweep", "orphaned"}
      BY <2>4 DEF EvictAgain
    <3>3. ASSUME call[c].pc # "orphaned",
                 NEW u \in call'[c].targets \ (call'[c].writing \cup call'[c].evicting)
          PROVE  Quiet(u)'
      <4>1. u \in minted /\ u \notin live
        BY <3>1, <3>2, <3>3 DEF CallInv
      <4>2. u = t \/ Quiet(u)
        BY <3>1, <3>2, <3>3 DEF CallInv
      <4> QED BY <3>2, <4>1, <4>2, EvictSilences
    <3> QED BY <3>1, <3>2, <3>3 DEF CallInv
  <2> QED BY <2>1, <2>2, <2>3, <2>4
<1>6. CASE SweepAgain(c)
  <2>1. CASE call[c].pass >= MaxRevokePasses
    BY <1>6, <2>1, EndKeeps DEF SweepAgain
  <2>2. CASE ~(call[c].pass >= MaxRevokePasses)
    <3>1. /\ call'[c].pc = "list" /\ call'[c].targets = call[c].targets
          /\ call'[c].writing = call[c].writing /\ call'[c].evicting = call[c].evicting
      BY <1>6, <2>2 DEF SweepAgain, TypeOK, CallState
    <3>2. minted' = minted /\ live' = live /\ call[c].pc = "sweep" /\ AllSettled(c)
      BY <1>6 DEF SweepAgain
    <3>3. \A u \in call[c].targets : Quiet(u)'
      BY <3>2, QuietStable DEF CallInv, AllSettled
    <3> QED BY <3>1, <3>2, <3>3 DEF CallInv, AllSettled
  <2> QED BY <2>1, <2>2
<1> QED BY <1>1, <1>2, <1>3, <1>4, <1>5, <1>6 DEF RevokeStep

LEMMA PurgeCall ==
  ASSUME TypeOK, Next, NEW c \in Revoker, PurgeStep(c), CallInv(c)
  PROVE  CallInv(c)'
<1> USE CallFields
<1>1. CASE \E u \in User : StartRevokeAll(c, u)
  <2>1. PICK u \in User : StartRevokeAll(c, u)
    BY <1>1
  <2>2. call'[c] = [Idle EXCEPT !.pc = "purge", !.user = u,
                                !.targets = minted \cap TokensOf(u)]
    BY <2>1 DEF StartRevokeAll, TypeOK
  <2>3. /\ call'[c].pc = "purge" /\ call'[c].user = u
        /\ call'[c].targets = minted \cap TokensOf(u) /\ minted' = minted
    BY <2>1, <2>2 DEF Idle, StartRevokeAll
  <2> QED BY <2>3 DEF CallInv, TokensOf
<1>2. CASE Purge(c)
  <2>1. /\ call'[c].pc \in {"purgeList", "finally"} /\ call'[c].user = call[c].user
        /\ call'[c].targets = call[c].targets
    BY <1>2 DEF Purge, TypeOK, CallState
  <2>2. minted' = minted /\ live' = live \ TokensOf(call[c].user) /\ call[c].pc = "purge"
    BY <1>2 DEF Purge, Remove
  <2> QED BY <2>1, <2>2 DEF CallInv, TokensOf
<1>3. CASE PurgeList(c)
  <2>1. /\ call'[c].pc \in {"purge", "finally"} /\ call'[c].user = call[c].user
        /\ call'[c].targets = call[c].targets /\ call'[c].failed = call[c].failed
    BY <1>3 DEF PurgeList, TypeOK, CallState
  <2>2. minted' = minted /\ live' = live /\ call[c].pc = "purgeList"
    BY <1>3 DEF PurgeList
  <2> QED BY <2>1, <2>2 DEF CallInv, TokensOf
<1>4. CASE PurgeFails(c)
  <2>1. /\ call'[c].pc = "finally" /\ call'[c].user = call[c].user
        /\ call'[c].targets = call[c].targets /\ call'[c].failed = TRUE
    BY <1>4 DEF PurgeFails, TypeOK, CallState
  <2>2. minted' = minted /\ call[c].pc \in {"purge", "purgeList"}
    BY <1>4 DEF PurgeFails
  <2> QED BY <2>1, <2>2 DEF CallInv, TokensOf
<1>5. CASE Finally(c)
  BY <1>5, EndKeeps DEF Finally
<1> QED BY <1>1, <1>2, <1>3, <1>4, <1>5 DEF PurgeStep

\* What a returning revocation answers for is quiet.
LEMMA ClosedKept ==
  ASSUME TypeOK, CacheInv, Next
  PROVE  \A t \in closed' : Quiet(t)'
<1>1. \A t \in closed : Quiet(t)'
  BY QuietStable DEF CacheInv
<1>2. CASE \E c \in Revoker : ListEmpty(c) \/ RevokeReturns(c)
  <2>1. PICK c \in Revoker : ListEmpty(c) \/ RevokeReturns(c)
    BY <1>2
  <2>2. CallInv(c) /\ AllSettled(c) /\ call[c].pc \in {"one", "list"}
    BY <2>1 DEF CacheInv, CallInv, ListEmpty, RevokeReturns
  <2>3. \A t \in call[c].targets : Quiet(t)
    BY <2>2 DEF CallInv, AllSettled
  <2>4. closed' = closed \cup call[c].targets
    BY <2>1 DEF ListEmpty, RevokeReturns
  <2> QED BY <1>1, <2>3, <2>4, QuietStable
<1>3. CASE \E c \in Revoker : Finally(c)
  <2>1. PICK c \in Revoker : Finally(c)
    BY <1>3
  <2>2. CASE call[c].failed
    BY <1>1, <2>1, <2>2 DEF Finally
  <2>3. CASE ~call[c].failed
    <3>1. SUFFICES ASSUME NEW t \in call[c].targets PROVE Quiet(t)'
      BY <1>1, <2>1, <2>3 DEF Finally
    <3>2. t \in minted /\ t \notin live /\ t \in TokensOf(call[c].user)
      BY <2>1, <2>3 DEF Finally, CacheInv, CallInv
    <3> QED BY <2>1, <3>2, EvictSilences DEF Finally
  <2> QED BY <2>2, <2>3
<1>4. CASE ~ \E c \in Revoker : ListEmpty(c) \/ RevokeReturns(c) \/ Finally(c)
  <2>1. closed' = closed
    <3>1. CASE \E v \in Validator : ValidateStep(v)
      BY <3>1 DEF ValidateStep, StartRead, Read, ReadFails, Fill, Answer
    <3>2. CASE \E c \in Revoker : RevokeStep(c)
      <4>1. PICK c \in Revoker : RevokeStep(c)
        BY <3>2
      <4>2. CASE StartRevokeSession(c) \/ StartRevokeOthers(c)
        <5>1. \E S : StartSweep(c, S)
          BY <4>2 DEF StartRevokeSession, StartRevokeOthers
        <5> QED BY <5>1 DEF StartSweep
      <4>3. CASE (\E t \in Token : StartRevoke(c, t)) \/ RowStep(c)
        BY <4>3 DEF StartRevoke, RowStep, WriteRow, WriteFails, EvictAgain
      <4>4. CASE ListRows(c) \/ ListFails(c) \/ SweepAgain(c) \/ OrphanEnds(c)
        BY <4>4 DEF ListRows, ListFails, SweepAgain, OrphanEnds
      <4> QED BY <1>4, <4>1, <4>2, <4>3, <4>4 DEF RevokeStep
    <3>3. CASE \E c \in Revoker : PurgeStep(c)
      BY <1>4, <3>3 DEF PurgeStep, StartRevokeAll, Purge, PurgeList, PurgeFails
    <3>4. CASE (\E t \in Token : StoreStep(t)) \/ Tick
      BY <3>4 DEF StoreStep, Mint, RevokeElsewhere, HitExpired, Tick
    <3> QED BY <3>1, <3>2, <3>3, <3>4 DEF Next
  <2> QED BY <1>1, <2>1
<1> QED BY <1>2, <1>3, <1>4

\* A step moves at most one revocation, by a step of its own.
LEMMA OneCallMoves ==
  ASSUME TypeOK, Next, NEW d \in Revoker, call'[d] # call[d]
  PROVE  RevokeStep(d) \/ PurgeStep(d)
<1>1. ASSUME NEW c \in Revoker, RevokeStep(c) PROVE c = d
  BY <1>1 DEF RevokeStep, StartRevoke, StartRevokeSession, StartRevokeOthers, StartSweep,
     ListRows, ListEmpty, ListFails, RowStep, WriteRow, WriteFails, EvictAgain,
     RevokeReturns, OrphanEnds, SweepAgain, End, TypeOK
<1>2. ASSUME NEW c \in Revoker, PurgeStep(c) PROVE c = d
  BY <1>2 DEF PurgeStep, StartRevokeAll, Purge, PurgeList, PurgeFails, Finally, End, TypeOK
<1>3. call' = call => FALSE
  OBVIOUS
<1>4. ~ (\E v \in Validator : ValidateStep(v))
  BY <1>3 DEF ValidateStep, StartRead, Read, ReadFails, Fill, Answer
<1>5. ~ (\E t \in Token : StoreStep(t)) /\ ~Tick
  BY <1>3 DEF StoreStep, Mint, RevokeElsewhere, HitExpired, Tick
<1> QED BY <1>1, <1>2, <1>4, <1>5 DEF Next

THEOREM CacheInit == Init => CacheInv
  BY IdleType DEF Init, CacheInv, CallInv

THEOREM CacheStep == TypeOK /\ CacheInv /\ [Next]_vars => CacheInv'
<1> SUFFICES ASSUME TypeOK, CacheInv, [Next]_vars PROVE CacheInv'
  OBVIOUS
<1>1. CASE UNCHANGED vars
  BY <1>1 DEF vars, CacheInv, CallInv, Quiet, Holds, AllSettled
<1>2. CASE Next
  <2>1. ASSUME NEW d \in Revoker PROVE CallInv(d)'
    <3>1. CallInv(d)
      BY DEF CacheInv
    <3>2. CASE call'[d] = call[d]
      BY <1>2, <3>1, <3>2, CallKept
    <3>3. CASE call'[d] # call[d]
      BY <1>2, <3>1, <3>3, OneCallMoves, RevokeCall, PurgeCall
    <3> QED BY <3>2, <3>3
  <2> QED BY <1>2, <2>1, ClosedKept DEF CacheInv
<1> QED BY <1>1, <1>2

THEOREM CacheCorrect == Spec => [](TypeOK /\ CacheInv)
  BY TypeInit, TypeStep, CacheInit, CacheStep, PTL DEF Spec

\* A token this process has finished revoking is not in its cache, and no
\* validation in flight puts it back.
THEOREM RevokedStaysOut == Spec => []RevokedNotCached
<1>1. TypeOK /\ CacheInv => RevokedNotCached
  BY DEF CacheInv, Quiet, RevokedNotCached, Cached
<1> QED BY <1>1, CacheCorrect, PTL
-----------------------------------------------------------------------------
(* A stale entry is served for a bounded time.                             *)

\* An eviction changes no date of a validation and only shortens entries.
LEMMA EvictDates ==
  ASSUME TypeOK, NEW T, Evict(T)
  PROVE  /\ \A t \in Token : cached'[t] = cached[t] \/ cached'[t] = Never
         /\ \A v \in Validator : /\ validation'[v].pc = validation[v].pc
                                 /\ validation'[v].tok = validation[v].tok
                                 /\ validation'[v].since = validation[v].since
  BY DEF Evict, Drop, TypeOK, ValidationState

\* The dates stay in order when entries are dropped, rows removed now, and
\* validations forgotten.
LEMMA DatesKept ==
  ASSUME TypeOK, StaleInv, now' = now, live' \subseteq live, minted' = minted,
         \A t \in Token : cached'[t] = cached[t] \/ cached'[t] = Never,
         \A t \in Token : \/ removedAt'[t] = removedAt[t]
                          \/ removedAt'[t] = now /\ t \in live \ live',
         \A v \in Validator :
            \/ validation'[v].pc = "idle"
            \/ /\ validation'[v].pc = validation[v].pc
               /\ validation'[v].tok = validation[v].tok
               /\ validation'[v].since = validation[v].since
  PROVE  StaleInv'
<1>1. /\ now \in Nat /\ TtlMs \in Nat /\ MaxReadTime \in Nat
      /\ \A t \in Token : removedAt[t] \in Int /\ cached[t] \in Int
      /\ \A v \in Validator : validation[v].since \in Nat /\ validation[v].tok \in Token
      /\ live \subseteq minted
  BY CacheAssumption DEF TypeOK, ValidationState
<1>2. \A t \in Token : cached'[t] <= now' + TtlMs
  BY <1>1 DEF StaleInv
<1>3. \A t \in Token : removedAt'[t] <= now'
  BY <1>1 DEF StaleInv
<1>4. \A t \in Token : t \in live' \/ t \notin minted' => removedAt'[t] = Never
  BY <1>1 DEF StaleInv
<1>5. \A t \in Token : removedAt'[t] # Never =>
         cached'[t] <= removedAt'[t] + TtlMs + MaxReadTime
  <2> SUFFICES ASSUME NEW t \in Token, removedAt'[t] # Never
               PROVE  cached'[t] <= removedAt'[t] + TtlMs + MaxReadTime
    OBVIOUS
  <2>1. CASE removedAt'[t] = removedAt[t]
    <3>1. cached[t] <= removedAt[t] + TtlMs + MaxReadTime
      BY <2>1 DEF StaleInv
    <3>2. removedAt[t] \in Nat
      BY <2>1 DEF TypeOK
    <3> QED BY <1>1, <2>1, <3>1, <3>2
  <2>2. CASE removedAt'[t] = now
    <3>1. cached'[t] <= now + TtlMs
      BY <1>2
    <3> QED BY <1>1, <2>2, <3>1
  <2> QED BY <2>1, <2>2
<1>6. \A v \in Validator : validation'[v].pc # "idle" =>
         validation'[v].since <= now' /\ now' <= validation'[v].since + MaxReadTime
  BY DEF StaleInv
<1>7. \A v \in Validator : validation'[v].pc = "reply" =>
         LET gone == removedAt'[validation'[v].tok]
         IN  gone # Never => validation'[v].since <= gone
  <2> SUFFICES ASSUME NEW v \in Validator, validation'[v].pc = "reply",
                      removedAt'[validation'[v].tok] # Never
               PROVE  validation'[v].since <= removedAt'[validation'[v].tok]
    OBVIOUS
  <2>1. /\ validation[v].pc = "reply" /\ validation'[v].tok = validation[v].tok
        /\ validation'[v].since = validation[v].since
    OBVIOUS
  <2> DEFINE t == validation[v].tok
  <2>2. CASE removedAt'[t] = removedAt[t]
    BY <2>1, <2>2 DEF StaleInv
  <2>3. CASE removedAt'[t] = now
    BY <2>1, <2>3 DEF StaleInv
  <2> QED BY <1>1, <2>1, <2>2, <2>3
<1> QED BY <1>2, <1>3, <1>4, <1>5, <1>6, <1>7 DEF StaleInv

LEMMA RemoveDates ==
  ASSUME TypeOK, NEW T, Remove(T)
  PROVE  /\ live' \subseteq live
         /\ \A t \in Token : \/ removedAt'[t] = removedAt[t]
                             \/ removedAt'[t] = now /\ t \in live \ live'
  BY DEF Remove

LEMMA RevokeStale ==
  ASSUME TypeOK, StaleInv, NEW c \in Revoker, RevokeStep(c) \/ PurgeStep(c)
  PROVE  StaleInv'
<1>1. now' = now /\ minted' = minted /\ live' \subseteq live
  BY RevokeFrame DEF RevokeStep, PurgeStep, StartRevoke, StartRevokeSession,
     StartRevokeOthers, StartSweep, ListRows, ListEmpty, ListFails, RowStep, WriteRow,
     WriteFails, EvictAgain, RevokeReturns, OrphanEnds, SweepAgain, StartRevokeAll, Purge,
     PurgeList, PurgeFails, Finally
<1>2. UNCHANGED <<live, removedAt>> \/ \E T : Remove(T)
  BY DEF RevokeStep, PurgeStep, StartRevoke, StartRevokeSession,
     StartRevokeOthers, StartSweep, ListRows, ListEmpty, ListFails, RowStep, WriteRow,
     WriteFails, EvictAgain, RevokeReturns, OrphanEnds, SweepAgain, StartRevokeAll, Purge,
     PurgeList, PurgeFails, Finally
<1>3. \A t \in Token : \/ removedAt'[t] = removedAt[t]
                       \/ removedAt'[t] = now /\ t \in live \ live'
  BY <1>2, RemoveDates
<1>4. /\ \A t \in Token : cached'[t] = cached[t] \/ cached'[t] = Never
      /\ \A v \in Validator : /\ validation'[v].pc = validation[v].pc
                              /\ validation'[v].tok = validation[v].tok
                              /\ validation'[v].since = validation[v].since
  BY RevokeFrame, EvictDates
<1> QED BY <1>1, <1>3, <1>4, DatesKept

LEMMA ValidateStale ==
  ASSUME TypeOK, StaleInv, NEW v \in Validator, ValidateStep(v)
  PROVE  StaleInv'
<1>1. /\ now' = now /\ now \in Nat /\ TtlMs \in Nat /\ MaxReadTime \in Nat
      /\ live' = live /\ minted' = minted /\ removedAt' = removedAt
      /\ validation[v].tok \in Token /\ validation[v].since \in Nat
  BY CacheAssumption DEF ValidateStep, StartRead, Read, ReadFails, Fill, Answer,
     TypeOK, ValidationState
<1>2. CASE \E t \in Token : StartRead(v, t)
  <2>1. PICK t \in Token : StartRead(v, t)
    BY <1>2
  <2>2. \A u \in Token : cached'[u] = cached[u] \/ cached'[u] = Never
    BY <2>1 DEF StartRead, Drop, TypeOK
  <2>3. \A u \in Token : cached'[u] <= now' + TtlMs /\ (removedAt'[u] # Never =>
            cached'[u] <= removedAt'[u] + TtlMs + MaxReadTime)
    BY <1>1, <2>2 DEF StaleInv, TypeOK
  <2>4. validation' = [validation EXCEPT ![v] =
                        [pc |-> "read", tok |-> t, clean |-> TRUE, since |-> now]]
    BY <2>1 DEF StartRead
  <2>5. \A w \in Validator : validation'[w].pc # "idle" =>
           validation'[w].since <= now' /\ now' <= validation'[w].since + MaxReadTime
    BY <1>1, <2>4 DEF StaleInv, TypeOK
  <2>6. \A w \in Validator : validation'[w].pc = "reply" =>
           LET gone == removedAt'[validation'[w].tok]
           IN  gone # Never => validation'[w].since <= gone
    BY <1>1, <2>4 DEF StaleInv, TypeOK
  <2> QED BY <1>1, <2>3, <2>5, <2>6 DEF StaleInv
<1>3. CASE Read(v)
  <2>1. cached' = cached
    BY <1>3 DEF Read
  <2>2. CASE validation[v].tok \in live
    <3>1. validation' = [validation EXCEPT ![v].pc = "reply"] /\ validation[v].pc = "read"
      BY <1>3, <2>2 DEF Read
    <3>2. /\ validation'[v].tok = validation[v].tok /\ validation'[v].since = validation[v].since
          /\ \A w \in Validator \ {v} : validation'[w] = validation[w]
      BY <3>1 DEF TypeOK, ValidationState
    <3>3. removedAt[validation[v].tok] = Never
      BY <1>1, <2>2 DEF StaleInv
    <3> QED BY <1>1, <2>1, <3>1, <3>2, <3>3 DEF StaleInv
  <2>3. CASE validation[v].tok \notin live
    <3>1. validation' = [validation EXCEPT ![v] = Waiting]
      BY <1>3, <2>3 DEF Read
    <3>2. \A w \in Validator : validation'[w] = validation[w] \/ validation'[w].pc = "idle"
      BY <3>1, WaitingType DEF TypeOK
    <3> QED BY <1>1, <2>1, <3>2, DatesKept
  <2> QED BY <2>2, <2>3
<1>4. CASE ReadFails(v) \/ Answer(v)
  <2>1. cached' = cached /\ validation' = [validation EXCEPT ![v] = Waiting]
    BY <1>4 DEF ReadFails, Answer
  <2>2. \A w \in Validator : validation'[w] = validation[w] \/ validation'[w].pc = "idle"
    BY <2>1, WaitingType DEF TypeOK
  <2> QED BY <1>1, <2>1, <2>2, DatesKept
<1>5. CASE Fill(v)
  <2> DEFINE t == validation[v].tok
  <2>1. /\ cached'[t] = now + TtlMs /\ \A u \in Token \ {t} : cached'[u] \in {cached[u], Never}
        /\ validation' = [validation EXCEPT ![v] = Waiting] /\ validation[v].pc = "reply"
    BY <1>1, <1>5, PutType DEF Fill
  <2>2. \A w \in Validator : validation'[w] = validation[w] \/ validation'[w].pc = "idle"
    BY <2>1, WaitingType DEF TypeOK
  <2>3. \A u \in Token : cached'[u] <= now' + TtlMs
    BY <1>1, <2>1 DEF StaleInv, TypeOK
  <2>4. ASSUME NEW u \in Token, removedAt'[u] # Never
        PROVE  cached'[u] <= removedAt'[u] + TtlMs + MaxReadTime
    <3>1. removedAt[u] \in Nat
      BY <1>1, <2>4 DEF TypeOK
    <3>2. CASE u = t
      <4>1. validation[v].since <= removedAt[t] /\ now <= validation[v].since + MaxReadTime
        BY <1>1, <2>1, <2>4, <3>2 DEF StaleInv
      <4> QED BY <1>1, <2>1, <3>1, <3>2, <4>1
    <3>3. CASE u # t
      <4>1. cached[u] <= removedAt[u] + TtlMs + MaxReadTime
        BY <1>1, <2>4 DEF StaleInv
      <4> QED BY <1>1, <2>1, <3>1, <3>3, <4>1
    <3> QED BY <3>2, <3>3
  <2> QED BY <1>1, <2>2, <2>3, <2>4 DEF StaleInv
<1> QED BY <1>2, <1>3, <1>4, <1>5 DEF ValidateStep

LEMMA StoreStale ==
  ASSUME TypeOK, StaleInv, NEW t \in Token, StoreStep(t)
  PROVE  StaleInv'
<1>1. CASE Mint(t)
  <2>1. removedAt[t] = Never
    BY <1>1 DEF Mint, StaleInv
  <2>2. \A u \in Token : u \in live' \/ u \notin minted' => removedAt'[u] = Never
    BY <1>1, <2>1 DEF Mint, StaleInv
  <2> QED BY <1>1, <2>2 DEF Mint, StaleInv
<1>2. CASE RevokeElsewhere(t)
  <2>1. now' = now /\ minted' = minted /\ cached' = cached /\ validation' = validation
    BY <1>2 DEF RevokeElsewhere
  <2> QED BY <1>2, <2>1, RemoveDates, DatesKept DEF RevokeElsewhere
<1>3. CASE HitExpired(t)
  <2>1. now' = now /\ minted' = minted /\ live' = live /\ removedAt' = removedAt
    BY <1>3 DEF HitExpired
  <2> QED BY <1>3, <2>1, EvictDates, DatesKept DEF HitExpired
<1> QED BY <1>1, <1>2, <1>3 DEF StoreStep

LEMMA TickStale ==
  ASSUME TypeOK, StaleInv, Tick
  PROVE  StaleInv'
<1>1. /\ now' = now + 1 /\ now \in Nat /\ TtlMs \in Nat /\ MaxReadTime \in Nat
      /\ live' \subseteq live /\ UNCHANGED <<minted, cached, removedAt, validation>>
      /\ \A v \in Validator :
            validation[v].pc # "idle" => now < validation[v].since + MaxReadTime
      /\ \A t \in Token : removedAt[t] \in Int /\ cached[t] \in Int
      /\ \A v \in Validator : validation[v].since \in Nat
  BY CacheAssumption DEF Tick, TypeOK, ValidationState
<1>2. \A t \in Token : cached'[t] <= now' + TtlMs /\ removedAt'[t] <= now'
  BY <1>1 DEF StaleInv
<1>3. \A v \in Validator : validation'[v].pc # "idle" =>
         validation'[v].since <= now' /\ now' <= validation'[v].since + MaxReadTime
  BY <1>1 DEF StaleInv
<1> QED BY <1>1, <1>2, <1>3 DEF StaleInv

THEOREM StaleInit == Init => StaleInv
  BY WaitingType, CacheAssumption DEF Init, StaleInv

THEOREM StaleStep == TypeOK /\ StaleInv /\ [Next]_vars => StaleInv'
<1> SUFFICES ASSUME TypeOK, StaleInv, [Next]_vars PROVE StaleInv'
  OBVIOUS
<1>1. CASE UNCHANGED vars
  BY <1>1 DEF vars, StaleInv
<1>2. CASE Next
  BY <1>2, ValidateStale, RevokeStale, StoreStale, TickStale DEF Next
<1> QED BY <1>1, <1>2

\* The cache serves a token whose row is gone for less than ttlMs and the time
\* of one store read.
THEOREM StaleEnds == Spec => []StaleBounded
<1>1. TypeOK /\ StaleInv => StaleBounded
  <2> SUFFICES ASSUME TypeOK, StaleInv, NEW t \in Token, Served(t), removedAt[t] # Never
               PROVE  now < removedAt[t] + TtlMs + MaxReadTime
    BY DEF StaleBounded
  <2>1. cached[t] > now /\ cached[t] <= removedAt[t] + TtlMs + MaxReadTime
    BY DEF Served, Hit, StaleInv
  <2>2. now \in Nat /\ cached[t] \in Int /\ removedAt[t] \in Int
        /\ TtlMs \in Nat /\ MaxReadTime \in Nat
    BY CacheAssumption DEF TypeOK
  <2> QED BY <2>1, <2>2
<1> QED BY <1>1, TypeInit, TypeStep, StaleInit, StaleStep, PTL DEF Spec
-----------------------------------------------------------------------------
(* The cache is bounded.                                                   *)

\* Entries that are only dropped leave the cache within its bound.
LEMMA SizeDrops ==
  ASSUME SizeInv, TypeOK, TypeOK', \A t \in Token : cached'[t] \in {cached[t], Never}
  PROVE  SizeInv'
<1>1. Cached' \subseteq Cached
  BY DEF Cached
<1>2. IsFiniteSet(Cached) /\ Cardinality(Cached) <= MaxEntries
  BY DEF SizeInv, SizeBounded
<1>3. IsFiniteSet(Cached') /\ Cardinality(Cached') <= Cardinality(Cached)
  BY <1>1, <1>2, FS_Subset
<1>4. Cardinality(Cached') \in Nat /\ Cardinality(Cached) \in Nat
  BY <1>2, <1>3, FS_CardinalityType
<1>5. Cardinality(Cached') <= MaxEntries
  BY <1>2, <1>3, <1>4, CacheAssumption
<1> QED BY <1>3, <1>5 DEF SizeInv, SizeBounded

\* set(): an entry leaves when the map is full, so that one fits.
LEMMA PutSize ==
  ASSUME TypeOK, SizeInv, NEW t \in Token, Put(t)
  PROVE  SizeInv'
<1>1. IsFiniteSet(Cached) /\ Cardinality(Cached) <= MaxEntries
  BY DEF SizeInv, SizeBounded
<1> DEFINE others == Cached \ {t}
<1>2. /\ IsFiniteSet(others) /\ Cardinality(others) \in Nat /\ Cardinality(Cached) \in Nat
      /\ t \notin others
  BY <1>1, FS_RemoveElement, FS_CardinalityType
<1>3. now + TtlMs # Never
  BY CacheAssumption DEF TypeOK
<1>4. CASE Cardinality(others) < MaxEntries
  <2>1. cached' = [cached EXCEPT ![t] = now + TtlMs]
        \/ \E old \in Oldest \ {t} : cached' = [Drop({old}) EXCEPT ![t] = now + TtlMs]
    BY DEF Put
  <2>2. Cached' \subseteq others \cup {t}
    BY <1>3, <2>1 DEF Cached, Drop, TypeOK
  <2>3. IsFiniteSet(others \cup {t}) /\ Cardinality(others \cup {t}) = Cardinality(others) + 1
    BY <1>2, FS_AddElement
  <2>4. IsFiniteSet(Cached') /\ Cardinality(Cached') <= Cardinality(others) + 1
    BY <2>2, <2>3, FS_Subset
  <2>5. Cardinality(Cached') \in Nat
    BY <2>4, FS_CardinalityType
  <2>6. Cardinality(Cached') <= MaxEntries
    BY <1>2, <1>4, <2>4, <2>5, CacheAssumption
  <2> QED BY <2>4, <2>6 DEF SizeInv, SizeBounded
<1>5. CASE ~(Cardinality(others) < MaxEntries)
  <2>1. PICK old \in Oldest \ {t} : cached' = [Drop({old}) EXCEPT ![t] = now + TtlMs]
    BY <1>5 DEF Put
  <2>2. old \in others
    BY <2>1 DEF Oldest
  <2> DEFINE kept == others \ {old}
  <2>3. IsFiniteSet(kept) /\ Cardinality(kept) = Cardinality(others) - 1 /\ t \notin kept
    BY <1>2, <2>2, FS_RemoveElement
  <2>4. Cached' \subseteq kept \cup {t}
    BY <1>3, <2>1 DEF Cached, Drop, TypeOK
  <2>10. IsFiniteSet(kept \cup {t}) /\ Cardinality(kept \cup {t}) = Cardinality(kept) + 1
    BY <2>3, FS_AddElement
  <2>5. IsFiniteSet(kept \cup {t}) /\ Cardinality(kept \cup {t}) = Cardinality(others)
    BY <1>2, <2>3, <2>10
  <2>6. IsFiniteSet(Cached') /\ Cardinality(Cached') <= Cardinality(others)
    BY <2>4, <2>5, FS_Subset
  <2>7. Cardinality(others) <= Cardinality(Cached)
    BY <1>1, FS_Subset
  <2>8. Cardinality(Cached') \in Nat
    BY <2>6, FS_CardinalityType
  <2>9. Cardinality(Cached') <= MaxEntries
    BY <1>1, <1>2, <2>6, <2>7, <2>8, CacheAssumption
  <2> QED BY <2>6, <2>9 DEF SizeInv, SizeBounded
<1> QED BY <1>4, <1>5

THEOREM SizeStep == TypeOK /\ SizeInv /\ [Next]_vars => SizeInv'
<1> SUFFICES ASSUME TypeOK, SizeInv, [Next]_vars PROVE SizeInv'
  OBVIOUS
<1>1. TypeOK'
  BY TypeStep
<1>2. CASE \A t \in Token : cached'[t] \in {cached[t], Never}
  BY <1>1, <1>2, SizeDrops
<1>3. CASE \E v \in Validator : Fill(v)
  <2>1. \A v \in Validator : validation[v].tok \in Token
    BY DEF TypeOK, ValidationState
  <2> QED BY <1>3, <2>1, PutSize DEF Fill
<1>4. CASE ~(\E v \in Validator : Fill(v))
  <2>1. \A t \in Token : cached'[t] \in {cached[t], Never}
    <3>1. CASE UNCHANGED vars
      BY <3>1 DEF vars
    <3>2. CASE \E v \in Validator : ValidateStep(v)
      BY <1>4, <3>2 DEF ValidateStep, StartRead, Read, ReadFails, Answer, Drop, TypeOK
    <3>3. CASE \E c \in Revoker : RevokeStep(c) \/ PurgeStep(c)
      BY <3>3, RevokeFrame, EvictDates
    <3>4. CASE \E t \in Token : StoreStep(t)
      BY <3>4, EvictDates DEF StoreStep, Mint, RevokeElsewhere, HitExpired
    <3>5. CASE Tick
      BY <3>5 DEF Tick
    <3> QED BY <3>1, <3>2, <3>3, <3>4, <3>5 DEF Next
  <2> QED BY <1>2, <2>1
<1> QED BY <1>3, <1>4

\* The cache never outgrows validateCache.max.
THEOREM SizeStaysBounded == Spec => []SizeBounded
<1>1. Init => SizeInv
  <2> SUFFICES ASSUME Init PROVE SizeInv
    OBVIOUS
  <2>1. Cached = {}
    BY DEF Init, Cached
  <2> QED BY <2>1, FS_EmptySet, CacheAssumption DEF SizeInv, SizeBounded
<1>2. SizeInv => SizeBounded
  BY DEF SizeInv
<1> QED BY <1>1, <1>2, TypeInit, TypeStep, SizeStep, PTL DEF Spec
=============================================================================
