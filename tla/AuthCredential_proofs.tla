------------------------ MODULE AuthCredential_proofs ------------------------
(***************************************************************************)
(* Proofs about AuthCredential, for every value of its constants: its      *)
(* types, revocation, the authority it implements; and about rotation,     *)
(* whose rows a step may delete, the ceiling of a fixed-ceiling family,    *)
(* and the one successor line of a session.                                *)
(***************************************************************************)
EXTENDS AuthCredential, FiniteSetTheorems, TLAPS

USE DEF Token, None, Never, Call, Plan, Scope, IssuePc, RotatePc, RefreshPc, SweepPc, PurgePc

LEMMA AnySessionType == AnySession \in Session
  BY SessionAssumption DEF AnySession

LEMMA IdleType == Idle \in CallState
  BY AnySessionType, BoundsAssumption DEF Idle, CallState

LEMMA BlankRowType == BlankRow \in Row
  BY AnySessionType DEF BlankRow, Row

\* Ending a call leaves every call with its type.
LEMMA EndType ==
  ASSUME NEW c \in Call, call \in [Call -> CallState], End(c)
  PROVE  /\ call' \in [Call -> CallState]
         /\ call' = [call EXCEPT ![c] = Idle]
         /\ Idle.pc = "idle"
  BY IdleType DEF End, Idle

LEMMA NewRowType ==
  ASSUME NEW s \in Session, NEW k \in {"access", "refresh"}, NEW p \in BOOLEAN,
         NEW i \in Nat, NEW e \in Nat
  PROVE  /\ NewRow(s, k, p, i, e) \in Row
         /\ NewRow(s, k, p, i, e).sess = s
         /\ NewRow(s, k, p, i, e).succA = None
         /\ NewRow(s, k, p, i, e).succR = None
         /\ NewRow(s, k, p, i, e).rotatedAt = Never
  BY AnySessionType DEF NewRow, BlankRow, Row

\* persistAs() of a well-typed row keeps the store well typed.
LEMMA PersistType ==
  ASSUME NEW t \in Token, NEW r \in Row, NEW ttl \in Nat, TypeOK, Persist(t, r, ttl)
  PROVE  /\ row' \in [Token -> Row]
         /\ live' \subseteq Token
         /\ minted' \in 0 .. MaxToken
<1>1. now \in Nat /\ now + ttl \in Nat
  BY DEF TypeOK
<1>2. [r EXCEPT !.exp = now + ttl] \in Row
  BY <1>1 DEF Row
<1>3. row' \in [Token -> Row]
  BY <1>2 DEF Persist, TypeOK
<1>4. live' \subseteq Token
  BY DEF Persist, TypeOK
<1>5. minted' \in 0 .. MaxToken
  BY BoundsAssumption DEF Persist, TypeOK
<1> QED
  BY <1>3, <1>4, <1>5

LEMMA RotatedTtlType ==
  ASSUME NEW t \in Token, NEW at \in Nat, TypeOK
  PROVE  RotatedTtl(t, at) \in Nat
  BY ConfigAssumption DEF RotatedTtl, RotationOf, TypeOK, Row
-----------------------------------------------------------------------------
(* Type correctness.                                                       *)

THEOREM TypeInit == Init => TypeOK
<1>1. Idle.pc = "idle"
  BY DEF Idle
<1> QED
  BY <1>1, IdleType, BlankRowType, BoundsAssumption DEF Init, TypeOK

LEMMA TheftResponseType ==
  ASSUME NEW c \in Call, TypeOK, call[c].tok \in Token, TheftResponse(c)
  PROVE  /\ call' \in [Call -> CallState]
         /\ \A d \in Call : call'[d].pc \in RefreshPc => call'[d].tok \in Token
<1> DEFINE s == row[call[c].tok].sess
           pc == IF ReuseResponse = "session" THEN "list" ELSE "purge"
           sc == IF ReuseResponse = "session" THEN "one" ELSE "all"
           T == IF ReuseResponse = "session" THEN {s} \cap issued
                ELSE {x \in issued : UserOf[x] = UserOf[s]}
           new == [Idle EXCEPT !.sess = s, !.pc = pc, !.scope = sc, !.target = T]
<1>1. s \in Session /\ T \in SUBSET Session
  BY DEF TypeOK, Row
<1>2. pc \in {"list", "purge"} /\ sc \in Scope
  OBVIOUS
<1>3. call' = [call EXCEPT ![c] = new]
  BY DEF TheftResponse
<1> HIDE DEF s, pc, sc, T
<1>4. new \in CallState
  BY <1>1, <1>2, IdleType, ZenonT(40) DEF CallState
<1>5. new.pc = pc
  BY DEF Idle
<1> QED
  BY <1>2, <1>3, <1>4, <1>5 DEF TypeOK

LEMMA RevocationType ==
  ASSUME NEW s \in Session, NEW sc \in Scope, NEW pc \in {"list", "purge"},
         NEW T \in SUBSET Session
  PROVE  /\ Revocation(s, sc, pc, T) \in CallState
         /\ Revocation(s, sc, pc, T).pc \notin RefreshPc
<1>1. Revocation(s, sc, pc, T) \in CallState
  <2>1. pc \in {"idle"} \cup IssuePc \cup RefreshPc \cup SweepPc \cup PurgePc
    OBVIOUS
  <2> QED BY <2>1, IdleType, ZenonT(40) DEF Revocation, CallState
<1>2. Revocation(s, sc, pc, T).pc = pc
  BY DEF Revocation, Idle
<1> QED BY <1>1, <1>2

\* Replacing the state of one call by a well-typed one.
LEMMA CallStep ==
  ASSUME TypeOK, NEW c \in Call, NEW d \in CallState,
         d.pc \in RefreshPc => d.tok \in Token,
         call' = [call EXCEPT ![c] = d]
  PROVE  /\ call' \in [Call -> CallState]
         /\ \A x \in Call : call'[x].pc \in RefreshPc => call'[x].tok \in Token
  BY DEF TypeOK

LEMMA EndStep ==
  ASSUME TypeOK, NEW c \in Call, End(c)
  PROVE  /\ call' \in [Call -> CallState]
         /\ \A x \in Call : call'[x].pc \in RefreshPc => call'[x].tok \in Token
<1>1. Idle.pc \notin RefreshPc
  BY DEF Idle
<1> QED BY <1>1, IdleType, CallStep DEF End

LEMMA StartType ==
  ASSUME TypeOK, StartClients \/ StartRevokers
  PROVE  TypeOK'
<1> USE DEF TypeOK
<1>1. ASSUME NEW c \in Client, NEW s \in Session, NEW p \in Plans, StartIssue(c, s, p)
      PROVE  TypeOK'
  <2> DEFINE pc == IF MaxConcurrent > 0 THEN "limit" ELSE "issueAccess"
             new == [Idle EXCEPT !.pc = pc, !.sess = s, !.plan = p, !.at = now]
  <2>1. pc \in {"limit", "issueAccess"} /\ p \in Plan
    BY ConfigAssumption
  <2>2. call' = [call EXCEPT ![c] = new]
    BY <1>1 DEF StartIssue
  <2> HIDE DEF pc
  <2>3. new \in CallState
    BY <2>1, IdleType, ZenonT(40) DEF CallState
  <2>4. new.pc = pc
    BY DEF Idle
  <2> HIDE DEF new
  <2>5. call' \in [Call -> CallState] /\
        \A x \in Call : call'[x].pc \in RefreshPc => call'[x].tok \in Token
    BY <2>1, <2>2, <2>3, <2>4, CallStep
  <2> QED BY <1>1, <2>5 DEF StartIssue
<1>2. ASSUME NEW c \in Client, NEW t \in Token, StartRefresh(c, t)
      PROVE  TypeOK'
  <2> DEFINE new == [Idle EXCEPT !.pc = "find", !.tok = t, !.at = now, !.stale = Superseded(t)]
  <2>1. Superseded(t) \in BOOLEAN
    BY DEF Superseded
  <2>2. new \in CallState /\ new.tok = t
    BY <2>1, IdleType DEF CallState
  <2>3. call' = [call EXCEPT ![c] = new]
    BY <1>2 DEF StartRefresh
  <2> HIDE DEF new
  <2>4. call' \in [Call -> CallState] /\
        \A x \in Call : call'[x].pc \in RefreshPc => call'[x].tok \in Token
    BY <2>2, <2>3, CallStep
  <2> QED BY <1>2, <2>4 DEF StartRefresh
<1>3. ASSUME NEW c \in Revoker, NEW s \in Session, NEW sc \in Scope, NEW pc \in {"list", "purge"},
             NEW T \in SUBSET Session, call' = [call EXCEPT ![c] = Revocation(s, sc, pc, T)],
             UNCHANGED <<live, row, minted, sessions, now, failures, held, issued, revoked>>
      PROVE  TypeOK'
  <2>1. call' \in [Call -> CallState] /\
        \A x \in Call : call'[x].pc \in RefreshPc => call'[x].tok \in Token
    BY <1>3, RevocationType, CallStep
  <2> QED BY <1>3, <2>1
<1>4. ASSUME NEW c \in Revoker, NEW s \in Session, StartRevokeSession(c, s)
      PROVE  TypeOK'
  <2>1. {s} \cap issued \in SUBSET Session
    OBVIOUS
  <2> QED BY <1>3, <1>4, <2>1 DEF StartRevokeSession
<1>5. ASSUME NEW c \in Revoker, NEW s \in Session, StartRevokeOthers(c, s)
      PROVE  TypeOK'
  <2>1. {x \in issued : UserOf[x] = UserOf[s] /\ x # s} \in SUBSET Session
    OBVIOUS
  <2> QED BY <1>3, <1>5, <2>1 DEF StartRevokeOthers
<1>6. ASSUME NEW c \in Revoker, NEW u \in User, StartRevokeAll(c, u)
      PROVE  TypeOK'
  <2>1. (CHOOSE s \in Session : UserOf[s] = u) \in Session
    BY <1>6 DEF StartRevokeAll
  <2>2. {x \in issued : UserOf[x] = u} \in SUBSET Session
    OBVIOUS
  <2> QED BY <1>3, <1>6, <2>1, <2>2 DEF StartRevokeAll
<1> QED
  BY <1>1, <1>2, <1>4, <1>5, <1>6 DEF StartClients, StartRevokers, StartClient, StartRevoker
\* The fields of a call that the steps below change keep their types.
Label == {"issueAccess", "issueRefresh", "evict", "mintAccess", "mintRefresh", "recheck",
          "stamp", "undo", "list", "revokes", "orphaned", "purge", "purgeList"}

LEMMA SetPc ==
  ASSUME NEW d \in CallState, NEW l \in Label
  PROVE  [d EXCEPT !.pc = l] \in CallState
  BY ZenonT(40) DEF CallState, Label

LEMMA SetPcAt ==
  ASSUME NEW d \in CallState, NEW l \in Label, NEW at \in Nat
  PROVE  [d EXCEPT !.pc = l, !.at = at] \in CallState
  BY ZenonT(40) DEF CallState, Label

LEMMA SetTodo ==
  ASSUME NEW d \in CallState, NEW T \in SUBSET Token
  PROVE  [d EXCEPT !.todo = T] \in CallState
  BY ZenonT(40) DEF CallState

LEMMA SetPcTodo ==
  ASSUME NEW d \in CallState, NEW l \in Label, NEW T \in SUBSET Token
  PROVE  [d EXCEPT !.pc = l, !.todo = T] \in CallState
  BY ZenonT(40) DEF CallState, Label

LEMMA SetAccess ==
  ASSUME NEW d \in CallState, NEW l \in Label, NEW t \in Token
  PROVE  /\ [d EXCEPT !.pc = l, !.a = t] \in CallState
         /\ [d EXCEPT !.a = t, !.pc = l] \in CallState
<1>1. [d EXCEPT !.pc = l, !.a = t] \in CallState
  BY DEF CallState, Label
<1>2. [d EXCEPT !.a = t, !.pc = l] \in CallState
  BY DEF CallState, Label
<1> QED BY <1>1, <1>2

LEMMA SetRefresh ==
  ASSUME NEW d \in CallState, NEW l \in Label, NEW t \in Token
  PROVE  [d EXCEPT !.r = t, !.pc = l] \in CallState
  BY DEF CallState, Label

LEMMA MintType ==
  ASSUME TypeOK, NEW t \in Token, NEW s \in Session, NEW k \in {"access", "refresh"},
         NEW p \in BOOLEAN, NEW i \in Nat, NEW e \in Nat, NEW ttl \in Nat,
         Persist(t, NewRow(s, k, p, i, e), ttl)
  PROVE  row' \in [Token -> Row] /\ live' \subseteq Token /\ minted' \in 0 .. MaxToken
  BY NewRowType, PersistType

LEMMA IssueType ==
  ASSUME TypeOK, NEW c \in Call, IssueStep(c)
  PROVE  TypeOK'
<1> USE DEF TypeOK
<1>1. CASE CheckLimit(c)
  <2>1. CASE End(c)
    BY <1>1, <2>1, EndStep DEF CheckLimit
  <2>2. CASE call' = [call EXCEPT ![c].pc = "issueAccess", ![c].at = now]
    <3> DEFINE d == [call[c] EXCEPT !.pc = "issueAccess", !.at = now]
    <3>1. call[c] \in CallState
      OBVIOUS
    <3>2. d \in CallState /\ d.pc = "issueAccess"
      <4>1. d \in CallState
        BY <3>1, SetPcAt DEF Label
      <4> QED BY <3>1, <4>1 DEF CallState
    <3>3. call' = [call EXCEPT ![c] = d]
      BY <2>2
    <3> HIDE DEF d
    <3> QED BY <1>1, <3>2, <3>3, CallStep DEF CheckLimit
  <2>3. ASSUME NEW oldest \in SUBSET AccessRows(UserOf[call[c].sess]),
               call' = [call EXCEPT ![c].pc = "evict", ![c].todo = oldest]
        PROVE  TypeOK'
    <3>1. oldest \in SUBSET Token
      BY DEF AccessRows, Rows
    <3> DEFINE d == [call[c] EXCEPT !.pc = "evict", !.todo = oldest]
    <3>2. call[c] \in CallState
      OBVIOUS
    <3>3. d \in CallState /\ d.pc = "evict"
      <4>1. d \in CallState
        BY <3>1, <3>2, SetPcTodo DEF Label
      <4> QED BY <3>2, <4>1 DEF CallState
    <3>4. call' = [call EXCEPT ![c] = d]
      BY <2>3
    <3> HIDE DEF d
    <3> QED BY <1>1, <3>3, <3>4, CallStep DEF CheckLimit
  <2> QED BY <1>1, <2>1, <2>2, <2>3 DEF CheckLimit
<1>2. CASE Evict(c)
  BY <1>2 DEF Evict, CallState
<1>3. CASE IssueAccess(c)
  <2> DEFINE s == call[c].sess
             p == call[c].plan = "perMint"
             at == call[c].at
  <2>1. s \in Session /\ p \in BOOLEAN /\ at \in Nat /\ at + RefreshTtl \in Nat /\ AccessTtl \in Nat
    BY ConfigAssumption DEF CallState
  <2>2. PICK t \in Token :
           /\ Persist(t, NewRow(s, "access", p, at, at + RefreshTtl), AccessTtl)
           /\ IF call[c].plan = "noRefresh"
              THEN /\ End(c)
                   /\ held' = held \cup {t}
                   /\ issued' = issued \cup {s}
              ELSE /\ call' = [call EXCEPT ![c].pc = "issueRefresh", ![c].a = t]
                   /\ UNCHANGED <<held, issued>>
    BY <1>3 DEF IssueAccess
  <2>3. row' \in [Token -> Row] /\ live' \subseteq Token /\ minted' \in 0 .. MaxToken
    BY <2>1, <2>2, MintType
  <2>4. call' \in [Call -> CallState] /\
        \A x \in Call : call'[x].pc \in RefreshPc => call'[x].tok \in Token
    <3> DEFINE d == [call[c] EXCEPT !.pc = "issueRefresh", !.a = t]
    <3>1. call[c] \in CallState
      OBVIOUS
    <3>2. d \in CallState /\ d.pc = "issueRefresh"
      <4>1. d \in CallState
        BY <3>1, SetAccess DEF Label
      <4> QED BY <3>1, <4>1 DEF CallState
    <3>3. CASE call' = [call EXCEPT ![c].pc = "issueRefresh", ![c].a = t]
      <4>1. call' = [call EXCEPT ![c] = d]
        BY <3>3
      <4> HIDE DEF d
      <4> QED BY <3>2, <4>1, CallStep
    <3> QED BY <2>2, <3>3, EndStep
  <2>5. held' \subseteq Token /\ issued' \subseteq Session
    BY <2>1, <2>2
  <2> QED BY <1>3, <2>3, <2>4, <2>5 DEF IssueAccess
<1>4. CASE IssueRefresh(c)
  <2> DEFINE s == call[c].sess
             p == call[c].plan = "perMint"
             at == call[c].at
  <2>1. /\ s \in Session /\ p \in BOOLEAN /\ at \in Nat /\ now + RefreshTtl \in Nat
        /\ RefreshTtl \in Nat
    BY ConfigAssumption DEF CallState
  <2>2. PICK t \in Token :
           /\ Persist(t, NewRow(s, "refresh", p, at, now + RefreshTtl), RefreshTtl)
           /\ held' = held \cup TokensOf(c) \cup {t}
    BY <1>4 DEF IssueRefresh
  <2>3. row' \in [Token -> Row] /\ live' \subseteq Token /\ minted' \in 0 .. MaxToken
    BY <2>1, <2>2, MintType
  <2>4. TokensOf(c) \subseteq Token
    BY DEF TokensOf, CallState
  <2> QED BY <1>4, <2>1, <2>2, <2>3, <2>4, EndStep DEF IssueRefresh
<1> QED
  BY <1>1, <1>2, <1>3, <1>4 DEF IssueStep

LEMMA RefreshType ==
  ASSUME TypeOK, NEW c \in Call, RefreshStep(c) \/ FindRefuses(c)
  PROVE  TypeOK'
<1> USE DEF TypeOK
<1>0. TokensOf(c) \subseteq Token
  BY DEF TokensOf, CallState
<1>1. CASE FindFresh(c)
  <2>1. call[c] \in CallState
    OBVIOUS
  <2>2. [call[c] EXCEPT !.pc = "mintAccess"] \in CallState
    BY <2>1 DEF CallState
  <2>3. call' = [call EXCEPT ![c] = [call[c] EXCEPT !.pc = "mintAccess"]]
    BY <1>1 DEF FindFresh, Goto
  <2>4. call' \in [Call -> CallState]
    BY <2>2, <2>3
  <2>5. UNCHANGED <<live, row, minted, sessions, now, failures, held, issued, revoked>>
    BY <1>1 DEF FindFresh
  <2>6. call[c].tok \in Token /\ call'[c].tok = call[c].tok
    <3>1. call[c].pc \in RefreshPc
      BY <1>1 DEF FindFresh, FoundRefresh
    <3>2. [call[c] EXCEPT !.pc = "mintAccess"].tok = call[c].tok
      BY <2>1 DEF CallState
    <3> QED BY <2>3, <3>1, <3>2
  <2>7. \A d \in Call : call'[d].pc \in RefreshPc => call'[d].tok \in Token
    BY <2>3, <2>6
  <2> QED BY <2>4, <2>5, <2>7
<1>2. CASE FindReplay(c)
  BY <1>2, TheftResponseType DEF FindReplay, FoundRefresh
<1>3. CASE FindInGrace(c)
  <2> DEFINE old == row[call[c].tok]
             new == [call[c] EXCEPT !.pc = "successor", !.a = old.succA, !.r = old.succR]
  <2>1. /\ call[c].tok \in Token
        /\ old.succA \in Token \cup {None} /\ old.succR \in Token \cup {None}
    BY <1>3 DEF FindInGrace, FoundRefresh, Row
  <2>2. call' = [call EXCEPT ![c] = new]
    BY <1>3 DEF FindInGrace
  <2> HIDE DEF old
  <2>3. call[c] \in CallState
    OBVIOUS
  <2>4. new \in CallState /\ new.tok = call[c].tok
    <3> HIDE DEF TypeOK
    <3> QED BY <2>1, <2>3 DEF CallState
  <2> HIDE DEF new
  <2> QED BY <1>3, <2>1, <2>2, <2>4, CallStep DEF FindInGrace
<1>4. CASE GraceHit(c)
  BY <1>0, <1>4, EndStep DEF GraceHit
<1>5. CASE GraceReplay(c)
  BY <1>5, TheftResponseType DEF GraceReplay
<1>6. ASSUME NEW t \in Token, NEW k \in {"access", "refresh"}, NEW ttl \in Nat,
             NEW l \in {"recheck", "mintRefresh", "stamp"}, call[c].pc \in RotatePc,
             Persist(t, NewRow(row[call[c].tok].sess, k, row[call[c].tok].perMint, call[c].at,
                               row[call[c].tok].ceiling), ttl),
             \/ call' = [call EXCEPT ![c].a = t, ![c].pc = l]
             \/ call' = [call EXCEPT ![c].r = t, ![c].pc = l],
             UNCHANGED <<sessions, now, failures, held, issued, revoked>>
      PROVE  TypeOK'
  <2>1. call[c].tok \in Token /\ call[c].at \in Nat
    BY <1>6 DEF CallState
  <2>2. row[call[c].tok] \in Row
    BY <2>1
  <2>3. /\ row[call[c].tok].sess \in Session
        /\ row[call[c].tok].perMint \in BOOLEAN
        /\ row[call[c].tok].ceiling \in Nat
    BY <2>2 DEF Row
  <2>4. row' \in [Token -> Row] /\ live' \subseteq Token /\ minted' \in 0 .. MaxToken
    BY <1>6, <2>1, <2>3, MintType
  <2>5. call[c] \in CallState
    OBVIOUS
  <2>6. ASSUME NEW d \in CallState, d.tok = call[c].tok, call' = [call EXCEPT ![c] = d]
        PROVE  TypeOK'
    BY <1>6, <2>1, <2>4, <2>6, CallStep
  <2>7. CASE call' = [call EXCEPT ![c].a = t, ![c].pc = l]
    <3> DEFINE d == [call[c] EXCEPT !.a = t, !.pc = l]
    <3>1. d \in CallState /\ d.tok = call[c].tok
      <4>1. d \in CallState
        BY <2>5, SetAccess DEF Label
      <4> QED BY <2>5, <4>1 DEF CallState
    <3>2. call' = [call EXCEPT ![c] = d]
      BY <2>7
    <3> HIDE DEF d
    <3> QED BY <2>6, <3>1, <3>2
  <2>8. CASE call' = [call EXCEPT ![c].r = t, ![c].pc = l]
    <3> DEFINE d == [call[c] EXCEPT !.r = t, !.pc = l]
    <3>1. d \in CallState /\ d.tok = call[c].tok
      <4>1. d \in CallState
        BY <2>5, SetRefresh DEF Label
      <4> QED BY <2>5, <4>1 DEF CallState
    <3>2. call' = [call EXCEPT ![c] = d]
      BY <2>8
    <3> HIDE DEF d
    <3> QED BY <2>6, <3>1, <3>2
  <2> QED BY <1>6, <2>7, <2>8
<1>7. CASE MintAccess(c)
  <2>1. AccessTtl \in Nat
    BY ConfigAssumption
  <2> QED BY <1>6, <1>7, <2>1 DEF MintAccess
<1>8. CASE MintRefresh(c)
  <2>1. RotatedTtl(call[c].tok, call[c].at) \in Nat
    BY <1>8, RotatedTtlType DEF MintRefresh, CallState
  <2> QED BY <1>6, <1>8, <2>1 DEF MintRefresh
<1>9. CASE Stamp(c)
  <2> DEFINE x == call[c].tok
             new == [row[x] EXCEPT !.rotatedAt = call[c].at, !.succA = call[c].a,
                                   !.succR = call[c].r]
  <2>1. x \in Token /\ call[c].at \in Nat /\ call[c].a \in Token \cup {None}
          /\ call[c].r \in Token \cup {None}
    BY <1>9 DEF Stamp, CallState
  <2>2. row[x] \in Row
    BY <2>1
  <2>3. new \in Row
    BY <2>1, <2>2 DEF Row
  <2>4. row' = row \/ row' = [row EXCEPT ![x] = new]
    BY <1>9, <2>1 DEF Stamp
  <2>5. row' \in [Token -> Row]
    BY <2>3, <2>4
  <2>6. [call[c] EXCEPT !.pc = "recheck"] \in CallState
    BY DEF CallState
  <2>7. call' \in [Call -> CallState] /\
        \A d \in Call : call'[d].pc \in RefreshPc => call'[d].tok \in Token
    BY <1>9, <2>1, <2>6, CallStep DEF Stamp, Goto, CallState
  <2> QED BY <1>9, <2>5, <2>7 DEF Stamp
<1>10. CASE RecheckReplies(c)
  BY <1>0, <1>10, EndStep DEF RecheckReplies
<1>11. CASE RecheckRefuses(c)
  <2> DEFINE d == [call[c] EXCEPT !.pc = "undo", !.todo = TokensOf(c)]
  <2>1. call[c] \in CallState /\ call[c].tok \in Token
    BY <1>11 DEF RecheckRefuses
  <2>2. d \in CallState /\ d.tok = call[c].tok
    <3>1. d \in CallState
      BY <1>0, <2>1, SetPcTodo DEF Label
    <3> QED BY <2>1, <3>1 DEF CallState
  <2>3. call' = [call EXCEPT ![c] = d]
    BY <1>11 DEF RecheckRefuses
  <2> HIDE DEF d
  <2> QED BY <1>11, <2>1, <2>2, <2>3, CallStep DEF RecheckRefuses
<1>12. CASE Undo(c)
  <2>1. PICK t \in call[c].todo :
           /\ \/ live' = live \ {t} /\ UNCHANGED failures
              \/ failures < MaxFailures /\ failures' = failures + 1 /\ UNCHANGED live
           /\ IF call[c].todo = {t} THEN End(c)
              ELSE call' = [call EXCEPT ![c].todo = @ \ {t}]
    BY <1>12 DEF Undo
  <2> DEFINE d == [call[c] EXCEPT !.todo = @ \ {t}]
  <2>2. call[c] \in CallState /\ call[c].tok \in Token /\ call[c].todo \ {t} \in SUBSET Token
    BY <1>12 DEF Undo, CallState
  <2>3. call' \in [Call -> CallState] /\
        \A x \in Call : call'[x].pc \in RefreshPc => call'[x].tok \in Token
    <3>1. d \in CallState /\ d.tok = call[c].tok
      <4>1. d \in CallState
        BY <2>2, SetTodo
      <4> QED BY <2>2, <4>1 DEF CallState
    <3>2. CASE call' = [call EXCEPT ![c].todo = @ \ {t}]
      <4>1. call' = [call EXCEPT ![c] = d]
        BY <3>2
      <4> HIDE DEF d
      <4> QED BY <2>2, <3>1, <4>1, CallStep
    <3> QED BY <2>1, <3>2, EndStep
  <2>4. live' \subseteq Token /\ failures' \in 0 .. MaxFailures
    BY <2>1, BoundsAssumption
  <2> QED BY <1>12, <2>3, <2>4 DEF Undo
<1>13. CASE FindRefuses(c)
  BY <1>13, EndStep DEF FindRefuses
<1> QED
  BY <1>1, <1>2, <1>3, <1>4, <1>5, <1>7, <1>8, <1>9, <1>10, <1>11, <1>12, <1>13
  DEF RefreshStep

LEMMA NextPassType ==
  ASSUME TypeOK, NEW c \in Call, NEW l \in {"list", "purgeList"}, NextPass(c, l)
  PROVE  /\ call' \in [Call -> CallState]
         /\ \A x \in Call : call'[x].pc \in RefreshPc => call'[x].tok \in Token
<1>1. CASE End(c)
  BY <1>1, EndStep
<1>2. CASE ~(call[c].pass >= MaxRevokePasses)
  <2> DEFINE d == [call[c] EXCEPT !.todo = {}, !.pc = l, !.pass = @ + 1]
  <2>1. call[c] \in CallState /\ call[c].pass + 1 \in 0 .. MaxRevokePasses
    BY <1>2, BoundsAssumption DEF TypeOK, CallState
  <2>2. call' = [call EXCEPT ![c] = d]
    BY <1>2, <2>1 DEF NextPass
  <2>3. d \in CallState /\ d.pc = l
    <3> HIDE DEF TypeOK
    <3>1. d \in CallState
      BY <2>1 DEF CallState
    <3> QED BY <2>1, <3>1 DEF CallState
  <2> HIDE DEF d
  <2> QED BY <2>2, <2>3, CallStep
<1> QED BY <1>1, <1>2 DEF NextPass

LEMMA RevokeType ==
  ASSUME TypeOK, NEW c \in Call, RevokeStep(c) \/ RevokeRowFails(c)
  PROVE  TypeOK'
<1> DEFINE Typed == /\ call' \in [Call -> CallState]
                    /\ \A x \in Call : call'[x].pc \in RefreshPc => call'[x].tok \in Token
<1>0. /\ live \subseteq Token /\ failures \in 0 .. MaxFailures /\ revoked \subseteq Session
      /\ call[c] \in CallState /\ call[c].target \subseteq Session /\ call[c].todo \subseteq Token
      /\ MatchedRows(c) \subseteq Token
  BY DEF TypeOK, CallState, MatchedRows
<1>1. ASSUME NEW T \in SUBSET Token, NEW l \in {"list", "revokes", "orphaned", "purge"},
             \/ call' = [call EXCEPT ![c].pc = l]
             \/ call' = [call EXCEPT ![c].pc = l, ![c].todo = T]
             \/ call' = [call EXCEPT ![c].todo = T] /\ call[c].pc \notin RefreshPc
      PROVE  Typed
  <2> DEFINE d1 == [call[c] EXCEPT !.pc = l]
             d2 == [call[c] EXCEPT !.pc = l, !.todo = T]
             d3 == [call[c] EXCEPT !.todo = T]
  <2>1. d1 \in CallState /\ d1.pc = l
    <3>1. d1 \in CallState
      BY <1>0, SetPc DEF Label
    <3> QED BY <1>0, <3>1 DEF CallState
  <2>2. d2 \in CallState /\ d2.pc = l
    <3>1. d2 \in CallState
      BY <1>0, SetPcTodo DEF Label
    <3> QED BY <1>0, <3>1 DEF CallState
  <2>3. d3 \in CallState /\ d3.pc = call[c].pc
    <3>1. d3 \in CallState
      BY <1>0, SetTodo
    <3> QED BY <1>0, <3>1 DEF CallState
  <2>4. \/ call' = [call EXCEPT ![c] = d1]
        \/ call' = [call EXCEPT ![c] = d2]
        \/ call' = [call EXCEPT ![c] = d3] /\ call[c].pc \notin RefreshPc
    BY <1>1
  <2> HIDE DEF d1, d2, d3
  <2> QED BY <2>1, <2>2, <2>3, <2>4, CallStep
<1>2. CASE SweepDone(c)
  BY <1>0, <1>2, EndStep DEF SweepDone, TypeOK
<1>3. CASE SweepPass(c)
  <2>1. Typed
    BY <1>0, <1>1, <1>3 DEF SweepPass
  <2> QED BY <1>3, <2>1 DEF SweepPass, TypeOK
<1>4. CASE RevokeRow(c)
  <2>1. PICK t \in call[c].todo :
          /\ live' = live \ {t}
          /\ IF call[c].todo = {t} THEN NextPass(c, "list")
             ELSE call' = [call EXCEPT ![c].todo = call[c].todo \ {t}]
    BY <1>4 DEF RevokeRow
  <2>2. call[c].todo \ {t} \in SUBSET Token /\ call[c].pc \notin RefreshPc
    BY <1>0, <1>4 DEF RevokeRow
  <2>3. Typed
    BY <1>1, <2>1, <2>2, NextPassType
  <2> QED BY <1>0, <1>4, <2>1, <2>3 DEF RevokeRow, TypeOK
<1>5. CASE OrphanedRow(c)
  <2>1. PICK t \in call[c].todo :
          /\ \/ live' = live \ {t} /\ UNCHANGED failures
             \/ failures < MaxFailures /\ failures' = failures + 1 /\ UNCHANGED live
          /\ IF call[c].todo = {t} THEN End(c)
             ELSE call' = [call EXCEPT ![c].todo = call[c].todo \ {t}]
    BY <1>5 DEF OrphanedRow
  <2>2. call[c].todo \ {t} \in SUBSET Token /\ call[c].pc \notin RefreshPc
    BY <1>0, <1>5 DEF OrphanedRow
  <2>3. Typed
    BY <1>1, <2>1, <2>2, EndStep
  <2>4. failures' \in 0 .. MaxFailures /\ live' \subseteq Token
    BY <1>0, <2>1, BoundsAssumption
  <2> QED BY <1>0, <1>5, <2>3, <2>4 DEF OrphanedRow, TypeOK
<1>6. CASE Purge(c)
  <2>1. Typed
    BY <1>6, NextPassType DEF Purge
  <2> QED BY <1>0, <1>6, <2>1 DEF Purge, TypeOK
<1>7. CASE PurgeDone(c)
  BY <1>0, <1>7, EndStep DEF PurgeDone, TypeOK
<1>8. CASE PurgeAgain(c)
  <2>1. Typed
    BY <1>1, <1>8 DEF PurgeAgain, Goto
  <2> QED BY <1>8, <2>1 DEF PurgeAgain, TypeOK
<1>9. CASE RevokeRowFails(c)
  <2>1. PICK t \in call[c].todo :
          IF call[c].todo = {t} THEN End(c)
          ELSE call' = [call EXCEPT ![c].pc = "orphaned", ![c].todo = call[c].todo \ {t}]
    BY <1>9 DEF RevokeRowFails
  <2>2. call[c].todo \ {t} \in SUBSET Token
    BY <1>0
  <2>3. Typed
    BY <1>1, <2>1, <2>2, EndStep
  <2>4. failures' \in 0 .. MaxFailures
    BY <1>0, <1>9, BoundsAssumption DEF RevokeRowFails
  <2> QED BY <1>9, <2>3, <2>4 DEF RevokeRowFails, TypeOK
<1> QED
  BY <1>2, <1>3, <1>4, <1>5, <1>6, <1>7, <1>8, <1>9 DEF RevokeStep

THEOREM TypeStep == TypeOK /\ [Next]_vars => TypeOK'
<1> SUFFICES ASSUME TypeOK, [Next]_vars PROVE TypeOK'
  OBVIOUS
<1>1. CASE StartClients \/ StartRevokers
  BY <1>1, StartType
<1>2. ASSUME NEW c \in Call, IssueStep(c) PROVE TypeOK'
  BY <1>2, IssueType
<1>3. ASSUME NEW c \in Call, RefreshStep(c) \/ FindRefuses(c) PROVE TypeOK'
  BY <1>3, RefreshType
<1>4. ASSUME NEW c \in Call, RevokeStep(c) \/ RevokeRowFails(c) PROVE TypeOK'
  BY <1>4, RevokeType
<1>5. ASSUME NEW c \in Call, Fail(c) PROVE TypeOK'
  BY <1>5, EndStep, BoundsAssumption DEF Fail, TypeOK
<1>6. ASSUME NEW t \in Token, RevokeToken(t) PROVE TypeOK'
  BY <1>6 DEF RevokeToken, TypeOK
<1>7. CASE Tick
  <2>1. now \in Nat /\ now' = now + 1
    BY <1>7 DEF Tick, TypeOK
  <2>2. live \subseteq Token /\ live' \subseteq live
    BY <1>7 DEF Tick, TypeOK
  <2>3. UNCHANGED <<row, minted, sessions, call, failures, held, issued, revoked>>
    BY <1>7 DEF Tick
  <2> QED BY <2>1, <2>2, <2>3 DEF TypeOK
<1>8. CASE UNCHANGED vars
  BY <1>8 DEF vars, TypeOK
<1> QED
  BY <1>1, <1>2, <1>3, <1>4, <1>5, <1>6, <1>7, <1>8 DEF Next

\* Every variable keeps its type, for every value of the constants.
THEOREM TypeCorrect == Spec => []TypeOK
  BY TypeInit, TypeStep, PTL DEF Spec

-----------------------------------------------------------------------------
(* The revocation invariant.                                               *)

THEOREM RevocationInit == Init => RevocationInv
<1> SUFFICES ASSUME Init PROVE RevocationInv
  OBVIOUS
<1>1. StoreInv
  BY BoundsAssumption DEF Init, StoreInv, BlankRow
<1>2. ASSUME NEW c \in Call PROVE CallInv(call[c])
  BY DEF Init, CallInv, Idle
<1>3. DistinctIssues
  BY DEF Init, DistinctIssues, Idle
<1> QED BY <1>1, <1>2, <1>3 DEF RevocationInv

\* A call that is over, or that has just begun a revocation or the theft
\* response, satisfies the invariant.
LEMMA IdleInv == StoreInv /\ minted \in Nat => CallInv(Idle)
  BY DEF StoreInv, CallInv, Idle

LEMMA RevocationCallInv ==
  ASSUME NEW s \in Session, NEW sc \in Scope, NEW pc \in {"list", "purge"},
         NEW T \in SUBSET issued, minted \in Nat,
         \A x \in T : InScope(x, Revocation(s, sc, pc, T))
  PROVE  CallInv(Revocation(s, sc, pc, T))
<1> DEFINE d == Revocation(s, sc, pc, T)
<1>1. d.pc = pc /\ d.target = T /\ d.a = None /\ d.r = None
  BY DEF Revocation, Idle
<1>2. \A x \in T : InScope(x, d)
  OBVIOUS
<1>3. pc \notin IssuePc \cup RefreshPc \cup {"successor", "issueRefresh"}
  BY DEF IssuePc, RefreshPc, RotatePc
<1>4. None <= minted
  BY DEF None
<1>5. CallInv(d)
  <2> HIDE DEF d
  <2> QED BY <1>1, <1>2, <1>3, <1>4 DEF CallInv
<1> QED BY <1>5

\* A step that writes no row, hands nothing out and closes nothing keeps the
\* invariant if the state it leaves its own call in satisfies it.
LEMMA QuietStep ==
  ASSUME TypeOK, RevocationInv, live' \subseteq live,
         UNCHANGED <<row, minted, sessions, held, issued, revoked>>,
         NEW c \in Call, NEW d, CallInv(d),
         d.pc \in IssuePc => call[c].pc \in IssuePc /\ d.sess = call[c].sess,
         call' = [call EXCEPT ![c] = d]
  PROVE  RevocationInv'
<1>1. StoreInv'
  BY DEF StoreInv, RevocationInv
<1>2. ASSUME NEW x \in Call PROVE CallInv(call[x])'
  <2>1. CASE x = c
    <3>1. call'[x] = d
      BY <2>1 DEF TypeOK
    <3> QED BY <3>1 DEF CallInv, InScope
  <2>2. CASE x # c
    <3>1. call'[x] = call[x] /\ CallInv(call[x])
      BY <2>2 DEF TypeOK, RevocationInv
    <3> QED BY <3>1 DEF CallInv, InScope
  <2> QED BY <2>1, <2>2
<1>3. DistinctIssues'
  <2>1. \A x \in Call : call'[x].pc \in IssuePc =>
            call[x].pc \in IssuePc /\ call'[x].sess = call[x].sess
    BY DEF TypeOK
  <2> QED BY <2>1 DEF DistinctIssues, RevocationInv
<1> QED BY <1>1, <1>2, <1>3 DEF RevocationInv

LEMMA QuietEnd ==
  ASSUME TypeOK, RevocationInv, live' \subseteq live,
         UNCHANGED <<row, minted, sessions, held, issued, revoked>>,
         NEW c \in Call, End(c)
  PROVE  RevocationInv'
<1>1. CallInv(Idle)
  BY IdleInv DEF RevocationInv, TypeOK
<1>2. Idle.pc \notin IssuePc
  BY DEF Idle, IssuePc
<1> QED BY <1>1, <1>2, QuietStep DEF End

\* Moving on without touching the fields the invariant speaks of.
LEMMA QuietMove ==
  ASSUME TypeOK, RevocationInv, live' \subseteq live,
         UNCHANGED <<row, minted, sessions, held, issued, revoked>>,
         NEW c \in Call, NEW d, call' = [call EXCEPT ![c] = d],
         d.a = call[c].a, d.r = call[c].r, d.target = call[c].target, d.sess = call[c].sess,
         d.scope = call[c].scope, d.tok = call[c].tok,
         d.pc \in IssuePc => call[c].pc \in IssuePc /\ d.pc # "issueRefresh",
         d.pc \in RefreshPc => call[c].pc \in RefreshPc,
         d.pc = "successor" => call[c].pc = "successor"
  PROVE  RevocationInv'
<1>1. CallInv(call[c])
  BY DEF RevocationInv
<1>2. CallInv(d)
  <2>1. d.pc = "issueRefresh" => d.pc \in IssuePc
    BY DEF IssuePc
  <2> QED BY <1>1, <2>1 DEF CallInv, InScope
<1> QED BY <1>2, QuietStep

LEMMA QuietTheft ==
  ASSUME TypeOK, RevocationInv, live' \subseteq live,
         UNCHANGED <<row, minted, sessions, held, issued, revoked>>,
         NEW c \in Call, call[c].tok \in Token, TheftResponse(c)
  PROVE  RevocationInv'
<1> DEFINE s == row[call[c].tok].sess
           one == ReuseResponse = "session"
           sc == IF one THEN "one" ELSE "all"
           pc == IF one THEN "list" ELSE "purge"
           T == IF one THEN {s} \cap issued ELSE {x \in issued : UserOf[x] = UserOf[s]}
           d == Revocation(s, sc, pc, T)
<1>1. s \in Session
  BY DEF TypeOK, Row
<1>2. sc \in Scope /\ pc \in {"list", "purge"} /\ T \in SUBSET issued /\ minted \in Nat
  BY DEF Scope, TypeOK
<1>3. d.sess = s /\ d.scope = sc
  BY DEF Revocation, Idle
<1>4. \A x \in T : InScope(x, d)
  BY <1>3 DEF InScope
<1>5. CallInv(d)
  <2> HIDE DEF s, sc, pc, T
  <2> QED BY <1>1, <1>2, <1>4, RevocationCallInv
<1>6. d.pc \notin IssuePc
  BY DEF Revocation, Idle, IssuePc
<1>7. call' = [call EXCEPT ![c] = d]
  BY ZenonT(40) DEF TheftResponse, Revocation, Idle
<1> HIDE DEF d
<1> QED BY <1>5, <1>6, <1>7, QuietStep

LEMMA QuietIssue ==
  ASSUME TypeOK, RevocationInv, NEW c \in Call, CheckLimit(c) \/ Evict(c)
  PROVE  RevocationInv'
<1>0. call[c] \in CallState
  BY DEF TypeOK
<1>1. CASE CheckLimit(c)
  <2> DEFINE d == [call[c] EXCEPT !.pc = "issueAccess", !.at = now]
  <2>1. live' \subseteq live /\ UNCHANGED <<row, minted, sessions, held, issued, revoked>>
        /\ call[c].pc = "limit"
    BY <1>1 DEF CheckLimit
  <2>2. CASE call' = [call EXCEPT ![c].pc = "issueAccess", ![c].at = now]
    <3>1. call' = [call EXCEPT ![c] = d]
      BY <2>2
    <3>2. d.a = call[c].a /\ d.r = call[c].r /\ d.target = call[c].target
          /\ d.sess = call[c].sess /\ d.scope = call[c].scope /\ d.tok = call[c].tok
          /\ d.pc = "issueAccess"
      BY <1>0 DEF CallState
    <3>3. call[c].pc \in IssuePc /\ "issueAccess" \notin RefreshPc
      BY <2>1 DEF IssuePc, RefreshPc, RotatePc
    <3> HIDE DEF d
    <3> QED BY <2>1, <3>1, <3>2, <3>3, QuietMove
  <2>3. ASSUME NEW T, call' = [call EXCEPT ![c].pc = "evict", ![c].todo = T]
        PROVE  RevocationInv'
    <3> DEFINE e == [call[c] EXCEPT !.pc = "evict", !.todo = T]
    <3>1. call' = [call EXCEPT ![c] = e]
      BY <2>3
    <3>2. e.a = call[c].a /\ e.r = call[c].r /\ e.target = call[c].target
          /\ e.sess = call[c].sess /\ e.scope = call[c].scope /\ e.tok = call[c].tok
          /\ e.pc = "evict"
      BY <1>0 DEF CallState
    <3>3. call[c].pc \in IssuePc /\ "evict" \notin RefreshPc
      BY <2>1 DEF IssuePc, RefreshPc, RotatePc
    <3> HIDE DEF e
    <3> QED BY <2>1, <3>1, <3>2, <3>3, QuietMove
  <2>4. \/ call' = [call EXCEPT ![c].pc = "issueAccess", ![c].at = now]
        \/ End(c)
        \/ \E T : call' = [call EXCEPT ![c].pc = "evict", ![c].todo = T]
    BY <1>1 DEF CheckLimit
  <2> QED BY <2>1, <2>2, <2>3, <2>4, QuietEnd
<1>2. CASE Evict(c)
  <2>1. live' \subseteq live /\ UNCHANGED <<row, minted, sessions, held, issued, revoked>>
        /\ call[c].pc = "evict"
    BY <1>2 DEF Evict
  <2>2. PICK t \in call[c].todo :
          call' = IF call[c].todo = {t}
                  THEN [call EXCEPT ![c].todo = {}, ![c].pc = "issueAccess", ![c].at = now]
                  ELSE [call EXCEPT ![c].todo = call[c].todo \ {t}]
    BY <1>2 DEF Evict
  <2> DEFINE d == [call[c] EXCEPT !.todo = {}, !.pc = "issueAccess", !.at = now]
             e == [call[c] EXCEPT !.todo = call[c].todo \ {t}]
  <2>3. PICK f \in {d, e} : call' = [call EXCEPT ![c] = f]
    BY <2>2
  <2>4. f.a = call[c].a /\ f.r = call[c].r /\ f.target = call[c].target
        /\ f.sess = call[c].sess /\ f.scope = call[c].scope /\ f.tok = call[c].tok
        /\ f.pc \in {"issueAccess", "evict"}
    BY <1>0, <2>1 DEF CallState
  <2>5. call[c].pc \in IssuePc /\ f.pc \notin RefreshPc /\ f.pc # "issueRefresh"
        /\ f.pc # "successor"
    BY <2>1, <2>4 DEF IssuePc, RefreshPc, RotatePc
  <2> HIDE DEF d, e
  <2> QED BY <2>1, <2>3, <2>4, <2>5, QuietMove
<1> QED BY <1>1, <1>2

LEMMA QuietRefresh ==
  ASSUME TypeOK, RevocationInv, NEW c \in Call,
         \/ FindRefuses(c) \/ FindFresh(c) \/ FindReplay(c) \/ FindInGrace(c)
         \/ GraceReplay(c) \/ RecheckRefuses(c) \/ Undo(c)
  PROVE  RevocationInv'
<1> DEFINE Quiet == live' \subseteq live /\ UNCHANGED <<row, minted, sessions, held, issued, revoked>>
           Same(d) == d.a = call[c].a /\ d.r = call[c].r /\ d.target = call[c].target
                      /\ d.sess = call[c].sess /\ d.scope = call[c].scope /\ d.tok = call[c].tok
<1>0. call[c] \in CallState /\ (call[c].pc \in RefreshPc => call[c].tok \in Token)
  BY DEF TypeOK
<1>1. {"find", "successor", "recheck", "undo", "mintAccess"} \subseteq RefreshPc \ IssuePc
  BY DEF RefreshPc, RotatePc, IssuePc
<1>2. CASE FindRefuses(c)
  BY <1>2, QuietEnd DEF FindRefuses
<1>3. CASE FindFresh(c)
  <2> DEFINE d == [call[c] EXCEPT !.pc = "mintAccess"]
  <2>1. Quiet /\ call[c].pc = "find" /\ call' = [call EXCEPT ![c] = d]
    BY <1>3 DEF FindFresh, FoundRefresh, Goto
  <2>2. Same(d) /\ d.pc = "mintAccess"
    BY <1>0 DEF CallState
  <2> HIDE DEF d
  <2> QED BY <1>1, <2>1, <2>2, QuietMove
<1>4. CASE FindReplay(c) \/ GraceReplay(c)
  <2>1. Quiet /\ call[c].pc \in {"find", "successor"} /\ TheftResponse(c)
    BY <1>4 DEF FindReplay, GraceReplay, FoundRefresh
  <2> QED BY <1>0, <1>1, <2>1, QuietTheft
<1>5. CASE FindInGrace(c)
  <2> DEFINE t == call[c].tok
             d == [call[c] EXCEPT !.pc = "successor", !.a = row[t].succA, !.r = row[t].succR]
  <2>1. Quiet /\ call[c].pc = "find" /\ t \in live /\ call' = [call EXCEPT ![c] = d]
    BY <1>5 DEF FindInGrace, FoundRefresh
  <2>2. t \in Token /\ row[t] \in Row
    BY <1>0, <1>1, <2>1 DEF TypeOK
  <2>3. d.pc = "successor" /\ d.a = row[t].succA /\ d.r = row[t].succR /\ d.tok = t
        /\ d.target = call[c].target /\ d.sess = call[c].sess /\ d.scope = call[c].scope
    BY <1>0 DEF CallState
  <2>4. CallInv(call[c]) /\ StoreInv
    BY DEF RevocationInv
  <2>5. t \in held /\ t \in 1 .. minted /\ row[t].sess \notin revoked
    BY <1>1, <2>1, <2>4 DEF StoreInv, CallInv
  <2>6. \A x \in {d.a, d.r} \ {None} : row[x].sess = row[t].sess
    BY <2>3, <2>4, <2>5 DEF StoreInv
  <2>7. None \notin live
    BY <2>4 DEF StoreInv, None, TypeOK
  <2>8. \A x \in {d.a, d.r} : x \in live => row[x].sess \notin revoked
    BY <2>5, <2>6, <2>7
  <2>9. d.a <= minted /\ d.r <= minted
    BY <2>2, <2>3, <2>4 DEF StoreInv
  <2>10. d.target \subseteq issued /\ \A s \in d.target : InScope(s, d)
    BY <2>3, <2>4 DEF CallInv, InScope
  <2>11. d.pc \notin IssuePc /\ d.pc # "issueRefresh"
    BY <1>1, <2>3
  <2> HIDE DEF d
  <2>12. CallInv(d)
    BY <2>3, <2>5, <2>6, <2>8, <2>9, <2>10, <2>11 DEF CallInv
  <2> QED BY <2>1, <2>11, <2>12, QuietStep
<1>6. CASE RecheckRefuses(c)
  <2> DEFINE d == [call[c] EXCEPT !.pc = "undo", !.todo = TokensOf(c)]
  <2>1. Quiet /\ call[c].pc = "recheck" /\ call' = [call EXCEPT ![c] = d]
    BY <1>6 DEF RecheckRefuses
  <2>2. Same(d) /\ d.pc = "undo"
    BY <1>0 DEF CallState
  <2> HIDE DEF d
  <2> QED BY <1>1, <2>1, <2>2, QuietMove
<1>7. CASE Undo(c)
  <2>1. Quiet /\ call[c].pc = "undo"
    BY <1>7 DEF Undo
  <2>2. PICK t \in call[c].todo :
          \/ End(c)
          \/ call' = [call EXCEPT ![c].todo = call[c].todo \ {t}]
    BY <1>7 DEF Undo
  <2> DEFINE d == [call[c] EXCEPT !.todo = call[c].todo \ {t}]
  <2>3. CASE call' = [call EXCEPT ![c].todo = call[c].todo \ {t}]
    <3>1. call' = [call EXCEPT ![c] = d]
      BY <2>3
    <3>2. Same(d) /\ d.pc = "undo"
      BY <1>0, <2>1 DEF CallState
    <3> HIDE DEF d
    <3> QED BY <1>1, <2>1, <3>1, <3>2, QuietMove
  <2> QED BY <2>1, <2>2, <2>3, QuietEnd
<1> QED BY <1>2, <1>3, <1>4, <1>5, <1>6, <1>7

LEMMA QuietNextPass ==
  ASSUME TypeOK, RevocationInv, live' \subseteq live,
         UNCHANGED <<row, minted, sessions, held, issued, revoked>>,
         NEW c \in Call, NEW l \in {"list", "purgeList"}, NextPass(c, l)
  PROVE  RevocationInv'
<1>1. CASE End(c)
  BY <1>1, QuietEnd
<1>2. CASE ~End(c)
  <2> DEFINE d == [call[c] EXCEPT !.todo = {}, !.pc = l, !.pass = @ + 1]
  <2>1. call' = [call EXCEPT ![c] = d]
    BY <1>2 DEF NextPass
  <2>2. d.a = call[c].a /\ d.r = call[c].r /\ d.target = call[c].target
        /\ d.sess = call[c].sess /\ d.scope = call[c].scope /\ d.tok = call[c].tok /\ d.pc = l
    BY DEF TypeOK, CallState
  <2>3. l \notin IssuePc \cup RefreshPc /\ l # "successor"
    BY DEF RefreshPc, RotatePc, IssuePc
  <2> HIDE DEF d
  <2> QED BY <2>1, <2>2, <2>3, QuietMove
<1> QED BY <1>1, <1>2

LEMMA QuietRevoke ==
  ASSUME TypeOK, RevocationInv, NEW c \in Call,
         \/ SweepPass(c) \/ RevokeRow(c) \/ RevokeRowFails(c) \/ OrphanedRow(c)
         \/ Purge(c) \/ PurgeAgain(c) \/ Fail(c)
  PROVE  RevocationInv'
<1>0. call[c] \in CallState
  BY DEF TypeOK
<1>1. live' \subseteq live /\ UNCHANGED <<row, minted, sessions, held, issued, revoked>>
  BY DEF SweepPass, RevokeRow, RevokeRowFails, OrphanedRow, Purge, PurgeAgain, Fail
<1>2. ASSUME NEW T, NEW l \in {"revokes", "orphaned", "purge"},
             \/ call' = [call EXCEPT ![c].pc = l]
             \/ call' = [call EXCEPT ![c].pc = l, ![c].todo = T]
      PROVE  RevocationInv'
  <2> DEFINE e == [call[c] EXCEPT !.pc = l]
             f == [call[c] EXCEPT !.pc = l, !.todo = T]
  <2>1. PICK d \in {e, f} : call' = [call EXCEPT ![c] = d]
    BY <1>2
  <2>2. d.a = call[c].a /\ d.r = call[c].r /\ d.target = call[c].target
        /\ d.sess = call[c].sess /\ d.scope = call[c].scope /\ d.tok = call[c].tok /\ d.pc = l
    BY <1>0 DEF CallState
  <2>3. l \notin IssuePc \cup RefreshPc /\ l # "successor"
    BY DEF RefreshPc, RotatePc, IssuePc
  <2> HIDE DEF e, f
  <2> QED BY <1>1, <2>1, <2>2, <2>3, QuietMove
<1>3. ASSUME NEW T, call[c].pc \in {"revokes", "orphaned"},
             call' = [call EXCEPT ![c].todo = T]
      PROVE  RevocationInv'
  <2> DEFINE d == [call[c] EXCEPT !.todo = T]
  <2>1. call' = [call EXCEPT ![c] = d]
    BY <1>3
  <2>2. d.a = call[c].a /\ d.r = call[c].r /\ d.target = call[c].target
        /\ d.sess = call[c].sess /\ d.scope = call[c].scope /\ d.tok = call[c].tok
        /\ d.pc = call[c].pc
    BY <1>0 DEF CallState
  <2>3. call[c].pc \notin IssuePc \cup RefreshPc
    BY <1>3 DEF RefreshPc, RotatePc, IssuePc
  <2> HIDE DEF d
  <2> QED BY <1>1, <2>1, <2>2, <2>3, QuietMove
<1>4. CASE SweepPass(c)
  BY <1>2, <1>4 DEF SweepPass
<1>5. CASE RevokeRow(c)
  <2>1. \/ NextPass(c, "list")
        \/ \E T : call' = [call EXCEPT ![c].todo = T]
    BY <1>5 DEF RevokeRow
  <2> QED BY <1>1, <1>3, <1>5, <2>1, QuietNextPass DEF RevokeRow
<1>6. CASE RevokeRowFails(c)
  <2>1. \/ End(c)
        \/ \E T : call' = [call EXCEPT ![c].pc = "orphaned", ![c].todo = T]
    BY <1>6 DEF RevokeRowFails
  <2> QED BY <1>1, <1>2, <2>1, QuietEnd
<1>7. CASE OrphanedRow(c)
  <2>1. \/ End(c)
        \/ \E T : call' = [call EXCEPT ![c].todo = T]
    BY <1>7 DEF OrphanedRow
  <2> QED BY <1>1, <1>3, <1>7, <2>1, QuietEnd DEF OrphanedRow
<1>8. CASE Purge(c)
  BY <1>1, <1>8, QuietNextPass DEF Purge
<1>9. CASE PurgeAgain(c)
  BY <1>2, <1>9 DEF PurgeAgain, Goto
<1>10. CASE Fail(c)
  BY <1>1, <1>10, QuietEnd DEF Fail
<1> QED BY <1>4, <1>5, <1>6, <1>7, <1>8, <1>9, <1>10

\* A step that does write rows, hand tokens out or close sessions: what it
\* must respect for the calls of the others to keep the invariant.
LEMMA ActorStep ==
  ASSUME TypeOK, RevocationInv, StoreInv', NEW c \in Call, CallInv(call[c])',
         \A x \in Call \ {c} : call'[x] = call[x],
         call'[c].pc \in IssuePc => \/ call[c].pc \in IssuePc /\ call'[c].sess = call[c].sess
                                    \/ call'[c].sess \notin sessions,
         minted' \in Nat, minted <= minted',
         sessions \subseteq sessions', held \subseteq held', issued \subseteq issued',
         \A t \in Token : t <= minted => row'[t].sess = row[t].sess,
         \A x \in Call \ {c} : call[x].pc \in IssuePc => call[x].sess \notin issued',
         \A t \in live' : t \in live \/ t > minted,
         \A t \in live : row[t].sess \in revoked' => row[t].sess \in revoked
  PROVE  RevocationInv'
<1>1. ASSUME NEW x \in Call \ {c} PROVE CallInv(call[x])'
  <2>1. /\ call'[x] = call[x] /\ CallInv(call[x]) /\ StoreInv
    BY <1>1 DEF RevocationInv
  <2>2. /\ call[x].a \in Token \cup {None} /\ call[x].r \in Token \cup {None}
        /\ call[x].tok \in Token \cup {None} /\ minted \in Nat
    BY DEF TypeOK, CallState
  <2>3. call'[x].a <= minted' /\ call'[x].r <= minted'
    BY <2>1, <2>2 DEF CallInv, None, Token
  <2>4. call'[x].target \subseteq issued' /\ \A s \in call'[x].target : InScope(s, call'[x])
    BY <2>1 DEF CallInv
  <2>5. ASSUME call'[x].pc \in IssuePc
        PROVE  call'[x].sess \in sessions' \ issued' /\ call'[x].r = None
    BY <2>1, <2>5 DEF CallInv
  <2>6. ASSUME call'[x].pc = "issueRefresh"
        PROVE  call'[x].a # None /\ row'[call'[x].a].sess = call'[x].sess
    BY <2>1, <2>2, <2>6 DEF CallInv
  <2>7. ASSUME call'[x].pc \in RefreshPc
        PROVE  /\ call'[x].tok \in held'
               /\ \A t \in {call'[x].a, call'[x].r} \ {None} :
                      row'[t].sess = row'[call'[x].tok].sess
    <3>1. call[x].tok \in held /\ call[x].tok \in Token /\ call[x].tok <= minted
      BY <2>1, <2>7 DEF CallInv, StoreInv, TypeOK
    <3>2. \A t \in {call[x].a, call[x].r} \ {None} :
              t \in Token /\ t <= minted /\ row[t].sess = row[call[x].tok].sess
      BY <2>1, <2>2, <2>7 DEF CallInv
    <3> QED BY <2>1, <3>1, <3>2
  <2>8. ASSUME call'[x].pc = "successor", NEW t \in {call'[x].a, call'[x].r}, t \in live'
        PROVE  row'[t].sess \notin revoked'
    <3>1. t \in {call[x].a, call[x].r} /\ call[x].pc = "successor" /\ t <= minted
      BY <2>1, <2>8 DEF CallInv
    <3>2. t \in live
      BY <2>2, <2>8, <3>1 DEF Token, None
    <3>3. row[t].sess \notin revoked /\ t \in Token
      BY <2>1, <3>1, <3>2 DEF CallInv, TypeOK
    <3> QED BY <3>1, <3>2, <3>3
  <2> QED BY <2>3, <2>4, <2>5, <2>6, <2>7, <2>8 DEF CallInv, InScope
<1>2. DistinctIssues'
  <2>1. \A x \in Call \ {c} : call[x].pc \in IssuePc => call[x].sess \in sessions
    BY DEF RevocationInv, CallInv
  <2> QED BY <2>1 DEF DistinctIssues, RevocationInv
<1> QED BY <1>1, <1>2 DEF RevocationInv

LEMMA StartInv ==
  ASSUME TypeOK, RevocationInv, StartClients \/ StartRevokers
  PROVE  RevocationInv'
<1>0. StoreInv /\ minted \in Nat
  BY DEF RevocationInv, TypeOK
<1>1. ASSUME NEW c \in Call, NEW s \in Session, NEW p \in Plans, StartIssue(c, s, p)
      PROVE  RevocationInv'
  <2> DEFINE d == [Idle EXCEPT !.pc = IF MaxConcurrent > 0 THEN "limit" ELSE "issueAccess",
                               !.sess = s, !.plan = p, !.at = now]
  <2>1. /\ call' = [call EXCEPT ![c] = d] /\ s \notin sessions /\ sessions' = sessions \cup {s}
        /\ UNCHANGED <<live, row, minted, now, failures, held, issued, revoked>>
    BY <1>1 DEF StartIssue
  <2>2. StoreInv'
    BY <1>0, <2>1 DEF StoreInv
  <2>3. d.pc \in {"limit", "issueAccess"} /\ d.sess = s /\ d.a = None /\ d.r = None
        /\ d.target = {}
    BY DEF Idle
  <2>4. d.pc \notin RefreshPc \cup {"successor", "issueRefresh"}
    BY <2>3 DEF RefreshPc, RotatePc
  <2>5. s \notin issued
    BY <1>0, <2>1 DEF StoreInv
  <2> HIDE DEF d
  <2>6. call'[c] = d /\ \A x \in Call \ {c} : call'[x] = call[x]
    BY <2>1 DEF TypeOK
  <2>7. CallInv(call[c])'
    BY <1>0, <2>1, <2>3, <2>4, <2>5, <2>6 DEF CallInv, None
  <2>8. \A x \in Call : call[x].pc \in IssuePc => call[x].sess \notin issued
    BY DEF RevocationInv, CallInv
  <2> QED BY <1>0, <2>1, <2>2, <2>3, <2>6, <2>7, <2>8, ActorStep
<1>2. ASSUME NEW c \in Call, NEW t \in Token, StartRefresh(c, t)
      PROVE  RevocationInv'
  <2> DEFINE d == [Idle EXCEPT !.pc = "find", !.tok = t, !.at = now, !.stale = Superseded(t)]
  <2>1. /\ call' = [call EXCEPT ![c] = d] /\ t \in held
        /\ UNCHANGED <<live, row, minted, sessions, now, failures, held, issued, revoked>>
    BY <1>2 DEF StartRefresh
  <2>2. d.pc = "find" /\ d.tok = t /\ d.a = None /\ d.r = None /\ d.target = {}
    BY DEF Idle
  <2>3. "find" \notin IssuePc
    BY DEF IssuePc
  <2> HIDE DEF d
  <2>4. CallInv(d)
    BY <1>0, <2>1, <2>2, <2>3 DEF CallInv, None
  <2> QED BY <2>1, <2>2, <2>3, <2>4, QuietStep
<1>3. ASSUME NEW c \in Call, NEW s \in Session, NEW sc \in Scope, NEW pc \in {"list", "purge"},
             NEW T \in SUBSET issued, \A x \in T : InScope(x, Revocation(s, sc, pc, T)),
             call' = [call EXCEPT ![c] = Revocation(s, sc, pc, T)],
             UNCHANGED <<live, row, minted, sessions, now, failures, held, issued, revoked>>
      PROVE  RevocationInv'
  <2> DEFINE d == Revocation(s, sc, pc, T)
  <2>1. CallInv(d)
    BY <1>0, <1>3, RevocationCallInv
  <2>2. d.pc \notin IssuePc
    BY DEF Revocation, Idle, IssuePc
  <2>3. call' = [call EXCEPT ![c] = d]
    BY <1>3
  <2> HIDE DEF d
  <2> QED BY <1>3, <2>1, <2>2, <2>3, QuietStep
<1>4. ASSUME NEW c \in Call, NEW s \in Session, StartRevokeSession(c, s)
      PROVE  RevocationInv'
  <2> DEFINE T == {s} \cap issued
  <2>1. /\ call' = [call EXCEPT ![c] = Revocation(s, "one", "list", T)]
        /\ UNCHANGED <<live, row, minted, sessions, now, failures, held, issued, revoked>>
    BY <1>4 DEF StartRevokeSession
  <2>2. \A x \in T : InScope(x, Revocation(s, "one", "list", T))
    BY DEF InScope, Revocation, Idle
  <2>3. T \in SUBSET issued /\ "one" \in Scope
    BY DEF Scope
  <2> HIDE DEF T
  <2> QED BY <1>3, <2>1, <2>2, <2>3
<1>5. ASSUME NEW c \in Call, NEW s \in Session, StartRevokeOthers(c, s)
      PROVE  RevocationInv'
  <2> DEFINE T == {x \in issued : UserOf[x] = UserOf[s] /\ x # s}
  <2>1. /\ call' = [call EXCEPT ![c] = Revocation(s, "others", "list", T)]
        /\ UNCHANGED <<live, row, minted, sessions, now, failures, held, issued, revoked>>
    BY <1>5 DEF StartRevokeOthers
  <2>2. \A x \in T : InScope(x, Revocation(s, "others", "list", T))
    BY DEF InScope, Revocation, Idle
  <2>3. T \in SUBSET issued /\ "others" \in Scope
    BY DEF Scope
  <2> HIDE DEF T
  <2> QED BY <1>3, <2>1, <2>2, <2>3
<1>6. ASSUME NEW c \in Call, NEW u \in User, StartRevokeAll(c, u)
      PROVE  RevocationInv'
  <2> DEFINE s == CHOOSE s \in Session : UserOf[s] = u
             T == {x \in issued : UserOf[x] = u}
  <2>1. /\ call' = [call EXCEPT ![c] = Revocation(s, "all", "purge", T)]
        /\ UNCHANGED <<live, row, minted, sessions, now, failures, held, issued, revoked>>
    BY <1>6 DEF StartRevokeAll
  <2>2. s \in Session /\ UserOf[s] = u
    BY <1>6 DEF StartRevokeAll
  <2>3. \A x \in T : InScope(x, Revocation(s, "all", "purge", T))
    BY <2>2 DEF InScope, Revocation, Idle
  <2>4. T \in SUBSET issued /\ "all" \in Scope
    BY DEF Scope
  <2> HIDE DEF s, T
  <2> QED BY <1>3, <2>1, <2>2, <2>3, <2>4
<1> QED
  BY <1>1, <1>2, <1>4, <1>5, <1>6
  DEF StartClients, StartRevokers, StartClient, StartRevoker, Call

LEMMA RowsGo ==
  ASSUME TypeOK, RevocationInv, live' \subseteq live,
         UNCHANGED <<row, minted, sessions, call, held, issued, revoked>>
  PROVE  RevocationInv'
<1>1. StoreInv'
  BY DEF StoreInv, RevocationInv
<1>2. ASSUME NEW x \in Call PROVE CallInv(call[x])'
  <2>1. call'[x] = call[x] /\ CallInv(call[x])
    BY DEF RevocationInv
  <2> QED BY <2>1 DEF CallInv, InScope
<1>3. DistinctIssues'
  BY DEF DistinctIssues, RevocationInv
<1> QED BY <1>1, <1>2, <1>3 DEF RevocationInv

\* Persisting a row under a fresh token, and handing out tokens of sessions
\* that are not revoked, keeps the store's part of the invariant.
LEMMA PersistStep ==
  ASSUME TypeOK, StoreInv, NEW t \in Token, NEW r \in Row, NEW ttl, Persist(t, r, ttl),
         r.succA = None, r.succR = None,
         sessions' = sessions, revoked' = revoked,
         issued \subseteq issued', issued' \subseteq sessions,
         held \subseteq held', held' \subseteq 1 .. t,
         \A x \in held' \ held : x = t \/ row[x].sess \notin revoked,
         t \in held' => r.sess \notin revoked
  PROVE  /\ StoreInv'
         /\ minted \in Nat /\ minted' = t /\ t = minted + 1
         /\ \A x \in Token : x <= minted => row'[x] = row[x]
         /\ row'[t].sess = r.sess
         /\ live' \subseteq live \cup {t}
<1> DEFINE new == [r EXCEPT !.exp = now + ttl]
<1>1. minted \in Nat /\ minted' = t /\ t = minted + 1 /\ live' \subseteq live \cup {t}
  BY DEF Persist, TypeOK
<1>2. row' = [row EXCEPT ![t] = new]
  BY DEF Persist
<1>3. new.sess = r.sess /\ new.succA = None /\ new.succR = None
  BY DEF Row
<1> HIDE DEF new
<1>4. row'[t] = new /\ \A x \in Token : x # t => row'[x] = row[x]
  BY <1>2 DEF TypeOK
<1>5. \A x \in Token : x <= minted => row'[x] = row[x]
  BY <1>1, <1>4
<1>6. live' \subseteq 1 .. minted' /\ held' \subseteq 1 .. minted' /\ revoked' \subseteq issued'
      /\ issued' \subseteq sessions'
  BY <1>1 DEF StoreInv
<1>7. \A x \in Token : row'[x].succA \in {None, row[x].succA} /\ row'[x].succR \in {None, row[x].succR}
  BY <1>3, <1>4
<1>8. \A x \in Token : row[x].succA \in Token \cup {None} /\ row[x].succR \in Token \cup {None}
        /\ row[x].succA <= minted /\ row[x].succR <= minted
  BY DEF TypeOK, Row, StoreInv
<1>9. \A x \in Token : row'[x].succA <= minted /\ row'[x].succR <= minted
  BY <1>1, <1>7, <1>8 DEF None
<1>10. \A x \in Token : row'[x].succA <= minted' /\ row'[x].succR <= minted'
  BY <1>1, <1>7, <1>8 DEF None, Token
<1>11. ASSUME NEW x \in 1 .. minted', NEW y \in {row'[x].succA, row'[x].succR} \ {None}
       PROVE  row'[y].sess = row'[x].sess
  <2>0. x # t
    BY <1>3, <1>4, <1>11
  <2>1. x # t /\ x \in 1 .. minted /\ x \in Token
    BY <1>1, <1>11, <2>0, BoundsAssumption DEF Token
  <2>2. y \in {row[x].succA, row[x].succR} \ {None} /\ y \in Token /\ y <= minted
    BY <1>7, <1>8, <1>11, <2>1
  <2>3. row[y].sess = row[x].sess
    BY <2>1, <2>2 DEF StoreInv
  <2> QED BY <1>4, <1>5, <2>1, <2>2, <2>3
<1>12. ASSUME NEW x \in live', row'[x].sess \in revoked'
       PROVE  x \notin held' /\ \A y \in Token : row'[y].succA # x /\ row'[y].succR # x
  <2>1. CASE x = t
    <3>1. \A y \in Token : row'[y].succA # t /\ row'[y].succR # t
      BY <1>1, <1>7, <1>8, <1>9 DEF None
    <3> QED BY <1>3, <1>4, <1>12, <2>1, <3>1
  <2>2. CASE x # t
    <3>1. x \in live /\ x \in Token /\ row'[x] = row[x] /\ x # None
      BY <1>1, <1>4, <2>2 DEF TypeOK, StoreInv, None
    <3>2. x \notin held /\ \A y \in Token : row[y].succA # x /\ row[y].succR # x
      BY <1>12, <3>1 DEF StoreInv
    <3>3. x \notin held'
      BY <1>12, <2>2, <3>1, <3>2
    <3> QED BY <1>7, <3>1, <3>2, <3>3
  <2> QED BY <2>1, <2>2
<1>13. StoreInv'
  BY <1>6, <1>10, <1>11, <1>12 DEF StoreInv
<1> QED BY <1>1, <1>3, <1>4, <1>5, <1>13

LEMMA IssueInv ==
  ASSUME TypeOK, RevocationInv, NEW c \in Call, IssueAccess(c) \/ IssueRefresh(c)
  PROVE  RevocationInv'
<1> DEFINE s == call[c].sess
           p == call[c].plan = "perMint"
<1>0. /\ StoreInv /\ CallInv(call[c]) /\ call[c] \in CallState /\ s \in Session
      /\ call[c].at \in Nat /\ call[c].at + RefreshTtl \in Nat /\ now + RefreshTtl \in Nat
      /\ call[c].a \in Token \cup {None}
      /\ p \in BOOLEAN
  BY ConfigAssumption DEF RevocationInv, TypeOK, CallState
<1>1. call[c].pc \in {"issueAccess", "issueRefresh"} /\ call[c].pc \in IssuePc
  BY DEF IssueAccess, IssueRefresh, IssuePc
<1>2. s \in sessions \ issued /\ s \notin revoked /\ call[c].r = None
  BY <1>0, <1>1 DEF CallInv, StoreInv
<1>3. \A x \in Call \ {c} : call[x].pc \in IssuePc =>
          call[x].sess \notin issued \cup {s}
  BY <1>1 DEF RevocationInv, CallInv, DistinctIssues
<1>4. CASE IssueAccess(c)
  <2>1. PICK t \in Token :
          /\ Persist(t, NewRow(s, "access", call[c].plan = "perMint", call[c].at,
                               call[c].at + RefreshTtl), AccessTtl)
          /\ IF call[c].plan = "noRefresh"
             THEN End(c) /\ held' = held \cup {t} /\ issued' = issued \cup {s}
             ELSE /\ call' = [call EXCEPT ![c].pc = "issueRefresh", ![c].a = t]
                  /\ UNCHANGED <<held, issued>>
    BY <1>4 DEF IssueAccess
  <2> DEFINE r == NewRow(s, "access", p, call[c].at, call[c].at + RefreshTtl)
  <2>2. r \in Row /\ r.sess = s /\ r.succA = None /\ r.succR = None
    <3> HIDE DEF p
    <3> QED BY <1>0, NewRowType
  <2> HIDE DEF r
  <2>3. Persist(t, r, AccessTtl) /\ sessions' = sessions /\ revoked' = revoked
    BY <1>4, <2>1 DEF IssueAccess, r
  <2>4. t = minted + 1 /\ minted \in Nat
    BY <2>3 DEF Persist, TypeOK
  <2>5. held \subseteq held' /\ held' \subseteq held \cup {t} /\ issued \subseteq issued'
        /\ issued' \subseteq issued \cup {s}
    BY <2>1
  <2>6. held' \subseteq 1 .. t /\ issued' \subseteq sessions
    BY <1>0, <1>2, <2>4, <2>5 DEF StoreInv
  <2>7. /\ StoreInv'
        /\ minted \in Nat /\ minted' = t /\ t = minted + 1
        /\ \A x \in Token : x <= minted => row'[x] = row[x]
        /\ row'[t].sess = r.sess
        /\ live' \subseteq live \cup {t}
    BY <1>0, <1>2, <2>2, <2>3, <2>5, <2>6, PersistStep
  <2>8. CASE call[c].plan = "noRefresh"
    <3>1. call'[c] = Idle /\ \A x \in Call \ {c} : call'[x] = call[x]
      BY <2>1, <2>8 DEF End, TypeOK
    <3>2. CallInv(call[c])'
      BY <2>7, <3>1 DEF CallInv, Idle, None, IssuePc, RefreshPc, RotatePc
    <3>3. call'[c].pc \notin IssuePc
      BY <3>1 DEF Idle, IssuePc
    <3> QED BY <1>3, <2>3, <2>5, <2>7, <3>1, <3>2, <3>3, ActorStep
  <2>9. CASE call[c].plan # "noRefresh"
    <3> DEFINE d == [call[c] EXCEPT !.pc = "issueRefresh", !.a = t]
    <3>1. call' = [call EXCEPT ![c] = d] /\ UNCHANGED <<held, issued>>
      BY <2>1, <2>9
    <3>2. d.pc = "issueRefresh" /\ d.a = t /\ d.r = None /\ d.sess = s
          /\ d.target = call[c].target /\ d.scope = call[c].scope
      BY <1>0, <1>2 DEF CallState
    <3> HIDE DEF d
    <3>3. call'[c] = d /\ \A x \in Call \ {c} : call'[x] = call[x]
      BY <3>1 DEF TypeOK
    <3>4. "issueRefresh" \notin RefreshPc
      BY DEF RefreshPc, RotatePc
    <3>5. d.target \subseteq issued /\ \A x \in d.target : InScope(x, d)
      BY <1>0, <3>2 DEF CallInv, InScope
    <3>6. t # None /\ t <= minted' /\ None <= minted'
      BY <2>7 DEF None
    <3>7. CallInv(call[c])'
      BY <1>2, <2>2, <2>3, <2>7, <3>1, <3>2, <3>3, <3>4, <3>5, <3>6 DEF CallInv, InScope
    <3> QED BY <1>1, <1>3, <2>3, <2>5, <2>7, <3>1, <3>2, <3>3, <3>7, ActorStep
  <2> QED BY <2>8, <2>9
<1>5. CASE IssueRefresh(c)
  <2>1. PICK t \in Token :
          /\ Persist(t, NewRow(s, "refresh", call[c].plan = "perMint", call[c].at,
                               now + RefreshTtl), RefreshTtl)
          /\ held' = held \cup TokensOf(c) \cup {t}
    BY <1>5 DEF IssueRefresh
  <2> DEFINE r == NewRow(s, "refresh", p, call[c].at, now + RefreshTtl)
  <2>2. r \in Row /\ r.sess = s /\ r.succA = None /\ r.succR = None
    <3> HIDE DEF p
    <3> QED BY <1>0, NewRowType
  <2> HIDE DEF r
  <2>3. /\ Persist(t, r, RefreshTtl) /\ sessions' = sessions /\ revoked' = revoked
        /\ issued' = issued \cup {s} /\ End(c)
    BY <1>5, <2>1 DEF IssueRefresh, r
  <2>4. t = minted + 1 /\ minted \in Nat
    BY <2>3 DEF Persist, TypeOK
  <2>5. held' = held \cup {call[c].a, t} /\ call[c].a \in 1 .. minted
        /\ row[call[c].a].sess = s
    BY <1>0, <1>2, <1>5, <2>1, <2>4 DEF IssueRefresh, CallInv, TokensOf, Token, None
  <2>6. held' \subseteq 1 .. t /\ issued' \subseteq sessions
    <3>1. 1 .. minted \subseteq 1 .. t /\ t \in 1 .. t /\ held \subseteq 1 .. minted
      BY <1>0, <2>4 DEF StoreInv
    <3>2. issued \subseteq sessions
      BY <1>0 DEF StoreInv
    <3> QED BY <1>2, <2>3, <2>5, <3>1, <3>2
  <2>7. /\ StoreInv'
        /\ minted \in Nat /\ minted' = t /\ t = minted + 1
        /\ \A x \in Token : x <= minted => row'[x] = row[x]
        /\ live' \subseteq live \cup {t}
    BY <1>0, <1>2, <2>2, <2>3, <2>5, <2>6, PersistStep
  <2>8. call'[c] = Idle /\ \A x \in Call \ {c} : call'[x] = call[x]
    BY <2>3 DEF End, TypeOK
  <2>9. CallInv(call[c])'
    BY <2>7, <2>8 DEF CallInv, Idle, None, IssuePc, RefreshPc, RotatePc
  <2>10. call'[c].pc \notin IssuePc
    BY <2>8 DEF Idle, IssuePc
  <2> QED BY <1>3, <2>3, <2>5, <2>7, <2>8, <2>9, <2>10, ActorStep
<1> QED BY <1>4, <1>5

LEMMA MintInv ==
  ASSUME TypeOK, RevocationInv, NEW c \in Call, MintAccess(c) \/ MintRefresh(c)
  PROVE  RevocationInv'
<1> DEFINE old == row[call[c].tok]
<1>1. call[c].pc \in RefreshPc /\ call[c].pc \notin IssuePc
  BY DEF MintAccess, MintRefresh, RefreshPc, RotatePc, IssuePc
<1>2. /\ StoreInv /\ CallInv(call[c]) /\ call[c] \in CallState /\ call[c].tok \in Token
      /\ old.sess \in Session /\ old.perMint \in BOOLEAN /\ old.ceiling \in Nat
      /\ call[c].at \in Nat
      /\ call[c].a \in Token \cup {None} /\ call[c].r \in Token \cup {None}
  BY <1>1 DEF RevocationInv, TypeOK, CallState, Row
<1>3. PICK t \in Token, k \in {"access", "refresh"},
           ttl \in {AccessTtl, RotatedTtl(call[c].tok, call[c].at)} :
        /\ Persist(t, NewRow(old.sess, k, old.perMint, call[c].at, old.ceiling), ttl)
        /\ \/ \E l \in {"recheck", "mintRefresh"} : call' = [call EXCEPT ![c].a = t, ![c].pc = l]
           \/ call' = [call EXCEPT ![c].r = t, ![c].pc = "stamp"]
  <2>1. CASE MintAccess(c)
    BY <2>1 DEF MintAccess
  <2>2. CASE MintRefresh(c)
    BY <2>2 DEF MintRefresh
  <2> QED BY <2>1, <2>2
<1>4. UNCHANGED <<sessions, held, issued, revoked>>
  BY DEF MintAccess, MintRefresh
<1> DEFINE r == NewRow(old.sess, k, old.perMint, call[c].at, old.ceiling)
<1>5. r \in Row /\ r.sess = old.sess /\ r.succA = None /\ r.succR = None
  <2> HIDE DEF old
  <2>1. /\ old.sess \in Session /\ old.perMint \in BOOLEAN /\ old.ceiling \in Nat
        /\ call[c].at \in Nat
    BY <1>2
  <2> QED BY <2>1, NewRowType
<1>6. Persist(t, r, ttl)
  BY <1>3
<1> HIDE DEF r
<1>7. t = minted + 1 /\ minted \in Nat
  BY <1>6 DEF Persist, TypeOK
<1>8. held' \subseteq 1 .. t /\ issued' \subseteq sessions /\ t \notin held'
  BY <1>2, <1>4, <1>7 DEF StoreInv
<1>9. /\ StoreInv'
      /\ minted \in Nat /\ minted' = t /\ t = minted + 1
      /\ \A x \in Token : x <= minted => row'[x] = row[x]
      /\ row'[t].sess = r.sess
      /\ live' \subseteq live \cup {t}
  <2> HIDE DEF old
  <2> QED BY <1>2, <1>4, <1>5, <1>6, <1>8, PersistStep
<1>10. PICK l \in {"recheck", "mintRefresh", "stamp"} :
         \/ call' = [call EXCEPT ![c].a = t, ![c].pc = l]
         \/ call' = [call EXCEPT ![c].r = t, ![c].pc = l]
  BY <1>3
<1> DEFINE e == [call[c] EXCEPT !.a = t, !.pc = l]
           f == [call[c] EXCEPT !.r = t, !.pc = l]
<1>11. PICK d \in {e, f} : call' = [call EXCEPT ![c] = d]
  BY <1>10
<1>12. /\ d.a \in {call[c].a, t} /\ d.r \in {call[c].r, t} /\ d.pc = l /\ d.tok = call[c].tok
       /\ d.target = call[c].target /\ d.sess = call[c].sess /\ d.scope = call[c].scope
  BY <1>2 DEF CallState
<1> HIDE DEF e, f
<1>13. call'[c] = d /\ \A x \in Call \ {c} : call'[x] = call[x]
  BY <1>11 DEF TypeOK
<1>14. l \notin IssuePc /\ l # "successor" /\ l # "issueRefresh"
  BY DEF IssuePc
<1>15. d.a <= minted' /\ d.r <= minted'
  BY <1>2, <1>9, <1>12 DEF CallInv, None, Token
<1>16. call[c].tok \in held /\ call[c].tok \in 1 .. minted /\ row'[call[c].tok].sess = old.sess
  BY <1>1, <1>2, <1>9 DEF CallInv, StoreInv
<1>17. ASSUME NEW x \in {d.a, d.r} \ {None} PROVE row'[x].sess = row'[d.tok].sess
  <2>1. CASE x = t
    BY <1>5, <1>9, <1>12, <1>16, <2>1
  <2>2. CASE x # t
    <3>1. x \in {call[c].a, call[c].r} \ {None} /\ x \in Token /\ x <= minted
      BY <1>2, <1>12, <2>2 DEF CallInv
    <3>2. row[x].sess = old.sess
      BY <1>1, <1>2, <3>1 DEF CallInv
    <3> QED BY <1>9, <1>12, <1>16, <3>1, <3>2
  <2> QED BY <2>1, <2>2
<1>18. d.target \subseteq issued' /\ \A x \in d.target : InScope(x, d)
  BY <1>2, <1>4, <1>12 DEF CallInv, InScope
<1>19. CallInv(call[c])'
  BY <1>4, <1>12, <1>13, <1>14, <1>15, <1>16, <1>17, <1>18 DEF CallInv, InScope
<1>20. \A x \in Call \ {c} : call[x].pc \in IssuePc => call[x].sess \notin issued'
  BY <1>4 DEF RevocationInv, CallInv
<1>21. call'[c].pc \notin IssuePc
  BY <1>12, <1>13, <1>14
<1> QED BY <1>4, <1>9, <1>13, <1>19, <1>20, <1>21, ActorStep

\* Replying with tokens of a session that is not revoked.
LEMMA ReplyInv ==
  ASSUME TypeOK, RevocationInv, NEW c \in Call, GraceHit(c) \/ RecheckReplies(c)
  PROVE  RevocationInv'
<1>1. /\ UNCHANGED <<live, row, minted, sessions, issued, revoked>>
      /\ held' = held \cup TokensOf(c) /\ End(c)
      /\ call[c].pc \in {"successor", "recheck"}
  BY DEF GraceHit, RecheckReplies
<1>2. StoreInv /\ CallInv(call[c]) /\ minted \in Nat /\ call[c].pc \in RefreshPc
      /\ call[c].a \in Token \cup {None} /\ call[c].r \in Token \cup {None}
  BY <1>1 DEF RevocationInv, TypeOK, CallState, RefreshPc, RotatePc
<1>3. TokensOf(c) = {call[c].a, call[c].r} \ {None} /\ TokensOf(c) \subseteq 1 .. minted
  BY <1>2 DEF TokensOf, CallInv, Token, None
<1>4. \A t \in TokensOf(c) : t \in live => row[t].sess \notin revoked
  <2>1. CASE call[c].pc = "successor"
    BY <1>2, <1>3, <2>1 DEF CallInv
  <2>2. CASE RecheckReplies(c)
    <3>1. call[c].tok \in live /\ call[c].tok \in held
      BY <1>2, <2>2 DEF RecheckReplies, CallInv
    <3>2. row[call[c].tok].sess \notin revoked
      BY <1>2, <3>1 DEF StoreInv
    <3> QED BY <1>2, <1>3, <3>2 DEF CallInv
  <2> QED BY <2>1, <2>2 DEF GraceHit
<1>5. StoreInv'
  BY <1>1, <1>2, <1>3, <1>4 DEF StoreInv
<1>6. call'[c] = Idle /\ \A x \in Call \ {c} : call'[x] = call[x]
  BY <1>1 DEF End, TypeOK
<1>7. CallInv(call[c])'
  BY <1>1, <1>2, <1>6 DEF CallInv, Idle, None, IssuePc, RefreshPc, RotatePc
<1>8. \A x \in Call \ {c} : call[x].pc \in IssuePc => call[x].sess \notin issued'
  BY <1>1 DEF RevocationInv, CallInv
<1>9. call'[c].pc \notin IssuePc
  BY <1>6 DEF Idle, IssuePc
<1> QED BY <1>1, <1>2, <1>5, <1>6, <1>7, <1>8, <1>9, ActorStep

\* The stamp is written only while the presented row is there, and then, as a
\* client holds that token, its session is not revoked.
LEMMA StampInv ==
  ASSUME TypeOK, RevocationInv, NEW c \in Call, Stamp(c)
  PROVE  RevocationInv'
<1> DEFINE t == call[c].tok
           new == [row[t] EXCEPT !.rotatedAt = call[c].at, !.succA = call[c].a,
                                 !.succR = call[c].r]
           d == [call[c] EXCEPT !.pc = "recheck"]
<1>1. /\ call[c].pc = "stamp" /\ call' = [call EXCEPT ![c] = d]
      /\ row' = IF t \in live THEN [row EXCEPT ![t] = new] ELSE row
      /\ UNCHANGED <<live, minted, sessions, now, failures, held, issued, revoked>>
  BY DEF Stamp, Goto
<1>2. call[c].pc \in RefreshPc
  BY <1>1 DEF RefreshPc, RotatePc
<1>3. /\ StoreInv /\ CallInv(call[c]) /\ call[c] \in CallState /\ t \in Token /\ minted \in Nat
      /\ row[t] \in Row
      /\ call[c].a \in Token \cup {None} /\ call[c].r \in Token \cup {None}
  BY <1>2 DEF RevocationInv, TypeOK, CallState
<1>4. new.succA = call[c].a /\ new.succR = call[c].r /\ new.sess = row[t].sess
  BY <1>3 DEF Row
<1>5. /\ d.a = call[c].a /\ d.r = call[c].r /\ d.target = call[c].target
      /\ d.sess = call[c].sess /\ d.scope = call[c].scope /\ d.tok = t /\ d.pc = "recheck"
  BY <1>3 DEF CallState
<1> HIDE DEF new, d
<1>6. \A x \in Token : row'[x].sess = row[x].sess
  BY <1>1, <1>3, <1>4 DEF TypeOK
<1>7. \A x \in Token : \/ row'[x].succA = row[x].succA /\ row'[x].succR = row[x].succR
                       \/ /\ x = t /\ t \in live
                          /\ row'[x].succA = call[c].a /\ row'[x].succR = call[c].r
  BY <1>1, <1>3, <1>4 DEF TypeOK
<1>8. t \in held /\ t \in 1 .. minted
      /\ \A x \in {call[c].a, call[c].r} \ {None} : row[x].sess = row[t].sess
  BY <1>2, <1>3 DEF CallInv, StoreInv
<1>9. t \in live => row[t].sess \notin revoked
  BY <1>3, <1>8 DEF StoreInv
<1>10. \A x \in Token : row'[x].succA <= minted' /\ row'[x].succR <= minted'
  BY <1>1, <1>3, <1>7 DEF StoreInv, CallInv
<1>11. ASSUME NEW x \in 1 .. minted', NEW y \in {row'[x].succA, row'[x].succR} \ {None}
       PROVE  row'[y].sess = row'[x].sess
  <2>1. x \in Token /\ x \in 1 .. minted
    BY <1>1, <1>3, <1>11, BoundsAssumption DEF TypeOK, Token
  <2>2. row[x] \in Row
    BY <2>1 DEF TypeOK
  <2>3. y \in Token
    BY <1>3, <1>7, <1>11, <2>1, <2>2 DEF Row
  <2>4. row[y].sess = row[x].sess
    BY <1>3, <1>7, <1>8, <1>11, <2>1 DEF StoreInv
  <2> QED BY <1>6, <2>1, <2>3, <2>4
<1>12. ASSUME NEW x \in live', row'[x].sess \in revoked'
       PROVE  x \notin held' /\ \A y \in Token : row'[y].succA # x /\ row'[y].succR # x
  <2>1. x \in live /\ x \in Token /\ x # None /\ row[x].sess \in revoked
    BY <1>1, <1>3, <1>6, <1>12 DEF TypeOK, StoreInv, None
  <2>2. x \notin held /\ \A y \in Token : row[y].succA # x /\ row[y].succR # x
    BY <1>3, <2>1 DEF StoreInv
  <2>3. t \in live => x \notin {call[c].a, call[c].r}
    BY <1>8, <1>9, <2>1
  <2> QED BY <1>1, <1>7, <2>2, <2>3
<1>13. StoreInv'
  <2>1. live' \subseteq 1 .. minted' /\ held' \subseteq 1 .. minted' /\ revoked' \subseteq issued'
        /\ issued' \subseteq sessions'
    BY <1>1, <1>3 DEF StoreInv
  <2> QED BY <1>10, <1>11, <1>12, <2>1 DEF StoreInv
<1>14. call'[c] = d /\ \A x \in Call \ {c} : call'[x] = call[x]
  BY <1>1 DEF TypeOK
<1>15. \A x \in {d.a, d.r} \ {None} : row'[x].sess = row'[d.tok].sess
  BY <1>3, <1>5, <1>6, <1>8
<1>16. d.target \subseteq issued' /\ \A s \in d.target : InScope(s, d)
  BY <1>1, <1>3, <1>5 DEF CallInv, InScope
<1>17. "recheck" \notin IssuePc
  BY DEF IssuePc
<1>18. CallInv(call[c])'
  BY <1>1, <1>3, <1>5, <1>8, <1>14, <1>15, <1>16, <1>17 DEF CallInv, InScope
<1>19. \A x \in Call \ {c} : call[x].pc \in IssuePc => call[x].sess \notin issued'
  BY <1>1 DEF RevocationInv, CallInv
<1> QED BY <1>1, <1>3, <1>5, <1>6, <1>13, <1>14, <1>17, <1>18, <1>19, ActorStep

\* A revocation returns after a listing that found no row in its scope: no
\* token of the sessions it closes is left, held or not.
LEMMA DoneInv ==
  ASSUME TypeOK, RevocationInv, NEW c \in Call, SweepDone(c) \/ PurgeDone(c)
  PROVE  RevocationInv'
<1>1. /\ UNCHANGED <<live, row, minted, sessions, held, issued>>
      /\ revoked' = revoked \cup call[c].target /\ End(c)
  BY DEF SweepDone, PurgeDone
<1>2. StoreInv /\ CallInv(call[c]) /\ minted \in Nat /\ call[c].target \subseteq issued
  BY DEF RevocationInv, TypeOK, CallInv
<1>3. \A s \in call[c].target : InScope(s, call[c])
  BY <1>2 DEF CallInv
<1>4. \A t \in live : row[t].sess \notin call[c].target
  BY <1>3 DEF SweepDone, PurgeDone, MatchedRows, Rows, InScope
<1>5. StoreInv'
  BY <1>1, <1>2, <1>4 DEF StoreInv
<1>6. call'[c] = Idle /\ \A x \in Call \ {c} : call'[x] = call[x]
  BY <1>1 DEF End, TypeOK
<1>7. CallInv(call[c])'
  BY <1>1, <1>2, <1>6 DEF CallInv, Idle, None, IssuePc, RefreshPc, RotatePc
<1>8. \A x \in Call \ {c} : call[x].pc \in IssuePc => call[x].sess \notin issued'
  BY <1>1 DEF RevocationInv, CallInv
<1>9. call'[c].pc \notin IssuePc
  BY <1>6 DEF Idle, IssuePc
<1> QED BY <1>1, <1>2, <1>4, <1>5, <1>6, <1>7, <1>8, <1>9, ActorStep

THEOREM RevocationStep == TypeOK /\ RevocationInv /\ [Next]_vars => RevocationInv'
<1> SUFFICES ASSUME TypeOK, RevocationInv, [Next]_vars PROVE RevocationInv'
  OBVIOUS
<1>1. CASE StartClients \/ StartRevokers
  BY <1>1, StartInv
<1>2. ASSUME NEW c \in Call, IssueStep(c) PROVE RevocationInv'
  BY <1>2, QuietIssue, IssueInv DEF IssueStep
<1>3. ASSUME NEW c \in Call, RefreshStep(c) \/ FindRefuses(c) PROVE RevocationInv'
  BY <1>3, QuietRefresh, MintInv, ReplyInv, StampInv DEF RefreshStep
<1>4. ASSUME NEW c \in Call, RevokeStep(c) \/ RevokeRowFails(c) \/ Fail(c)
      PROVE  RevocationInv'
  BY <1>4, QuietRevoke, DoneInv DEF RevokeStep
<1>5. ASSUME NEW t \in Token, RevokeToken(t) PROVE RevocationInv'
  BY <1>5, RowsGo DEF RevokeToken
<1>6. CASE Tick
  BY <1>6, RowsGo DEF Tick
<1>7. CASE UNCHANGED vars
  BY <1>7, RowsGo DEF vars
<1> QED
  BY <1>1, <1>2, <1>3, <1>4, <1>5, <1>6, <1>7 DEF Next

\* The whole invariant: types, and the revocation invariant.
THEOREM InvCorrect == Spec => [](TypeOK /\ RevocationInv)
<1>1. Init => TypeOK /\ RevocationInv
  BY TypeInit, RevocationInit
<1>2. TypeOK /\ RevocationInv /\ [Next]_vars => (TypeOK /\ RevocationInv)'
  BY TypeStep, RevocationStep
<1> QED BY <1>1, <1>2, PTL DEF Spec

\* No token a client was ever given works after a revocation of its session
\* has returned, for any number of calls, sessions and users, any rotation
\* mode, grace window and concurrency limit, and whatever fails on the way.
THEOREM RevokedStaysDead == Spec => []RevokedTokensDead
<1>1. TypeOK /\ RevocationInv => RevokedTokensDead
  BY DEF RevocationInv, StoreInv, RevokedTokensDead
<1> QED BY <1>1, InvCorrect, PTL

-----------------------------------------------------------------------------
(* AuthCredential implements SessionAuthority.                             *)

Usable == {<<t, row[t].sess>> : t \in held \cap live}

\* Tokens stop working, none starts to: the abstract Lapse.
LEMMA Lapses ==
  ASSUME live' \cap held \subseteq live, held' = held, revoked' = revoked,
         \A t \in held : row'[t].sess = row[t].sess
  PROVE  Authority!Next
<1>1. Usable' \subseteq Usable
  BY DEF Usable
<1> QED BY <1>1 DEF Authority!Next, Authority!Lapse, Usable

\* Tokens of one session are handed out: the abstract Grant, or nothing when
\* none of them is still there.
LEMMA Grants ==
  ASSUME TypeOK', StoreInv', live \cap held \subseteq live', live' \cap held \subseteq live,
         held \subseteq held', revoked' = revoked,
         \A t \in held : row'[t].sess = row[t].sess,
         NEW s \in Session, \A t \in held' \ held : row'[t].sess = s
  PROVE  Authority!Next
<1>1. CASE (held' \ held) \cap live' = {}
  <2>1. Usable' \subseteq Usable
    BY <1>1 DEF Usable
  <2> QED BY <2>1 DEF Authority!Next, Authority!Lapse, Usable
<1>2. CASE (held' \ held) \cap live' # {}
  <2>1. s \notin revoked
    <3>1. PICK t \in held' \ held : t \in live'
      BY <1>2
    <3>2. row'[t].sess = s
      BY <3>1
    <3>3. row'[t].sess \in revoked' => t \notin held'
      BY <3>1 DEF StoreInv
    <3> QED BY <3>1, <3>2, <3>3
  <2>2. Usable \subseteq Usable'
    BY DEF Usable
  <2>3. Usable' \ Usable \subseteq Token \X {s}
    <3>1. ASSUME NEW t \in held' \cap live', <<t, row'[t].sess>> \notin Usable
          PROVE  t \in Token /\ row'[t].sess = s
      <4>1. t \in held => t \in live /\ row'[t].sess = row[t].sess
        BY <3>1
      <4>2. t \notin held
        BY <3>1, <4>1 DEF Usable
      <4> QED BY <3>1, <4>2 DEF TypeOK
    <3>2. \A u \in Usable' : \E t \in held' \cap live' : u = <<t, row'[t].sess>>
      BY DEF Usable
    <3> QED BY <3>1, <3>2
  <2> QED BY <2>1, <2>2, <2>3 DEF Authority!Next, Authority!Grant, Usable
<1> QED BY <1>1, <1>2

\* A revocation closes its sessions: the abstract Close.
LEMMA Closes ==
  ASSUME TypeOK', StoreInv', UNCHANGED <<live, row, held>>, revoked \subseteq revoked'
  PROVE  Authority!Next
<1>1. revoked' \subseteq Session
  BY DEF TypeOK
<1>2. \A u \in Usable : u[2] \notin revoked'
  BY DEF Usable, StoreInv
<1> QED BY <1>1, <1>2 DEF Authority!Next, Authority!Close, Usable

\* Every step of the orchestrator is a step of the abstract specification or
\* leaves what it speaks of alone.
LEMMA AuthorityStep ==
  ASSUME TypeOK, RevocationInv, TypeOK', RevocationInv', [Next]_vars
  PROVE  [Authority!Next]_<<Usable, revoked>>
<1>0. StoreInv /\ StoreInv' /\ held \subseteq 1 .. minted /\ held \subseteq Token
      /\ minted \in Nat
  BY DEF RevocationInv, StoreInv, TypeOK
<1>1. ASSUME UNCHANGED <<row, held, revoked>>, live' \subseteq live PROVE Authority!Next
  BY <1>1, Lapses
<1>2. CASE StartClients \/ StartRevokers
  <2>1. UNCHANGED <<live, row, held, revoked>>
    BY <1>2 DEF StartClients, StartRevokers, StartClient, StartRevoker, StartIssue, StartRefresh,
                StartRevokeSession, StartRevokeOthers, StartRevokeAll
  <2> QED BY <1>1, <2>1
<1>3. ASSUME NEW c \in Call,
             \/ CheckLimit(c) \/ Evict(c) \/ FindRefuses(c) \/ FindFresh(c) \/ FindReplay(c)
             \/ FindInGrace(c) \/ GraceReplay(c) \/ RecheckRefuses(c) \/ Undo(c)
             \/ SweepPass(c) \/ RevokeRow(c) \/ RevokeRowFails(c) \/ OrphanedRow(c)
             \/ Purge(c) \/ PurgeAgain(c) \/ Fail(c)
      PROVE  Authority!Next
  <2>1. UNCHANGED <<row, held, revoked>> /\ live' \subseteq live
    BY <1>3 DEF CheckLimit, Evict, FindRefuses, FindFresh, FindReplay, FindInGrace, GraceReplay,
                RecheckRefuses, Undo, SweepPass, RevokeRow, RevokeRowFails, OrphanedRow, Purge,
                PurgeAgain, Fail
  <2> QED BY <1>1, <2>1
<1>4. ASSUME NEW c \in Call, MintAccess(c) \/ MintRefresh(c) PROVE Authority!Next
  <2>1. PICK t \in Token : \E r, ttl : Persist(t, r, ttl)
    BY <1>4 DEF MintAccess, MintRefresh
  <2>2. UNCHANGED <<held, revoked>>
    BY <1>4 DEF MintAccess, MintRefresh
  <2>3. t \notin held /\ live' \subseteq live \cup {t}
    BY <1>0, <2>1 DEF Persist
  <2>4. \A x \in held : row'[x] = row[x]
    BY <1>0, <2>1, <2>3 DEF Persist, TypeOK
  <2> QED BY <2>2, <2>3, <2>4, Lapses
<1>5. ASSUME NEW c \in Call, Stamp(c) PROVE Authority!Next
  <2>1. UNCHANGED <<live, held, revoked>>
    BY <1>5 DEF Stamp
  <2>2. \A t \in Token : row'[t].sess = row[t].sess
    BY <1>5 DEF Stamp, TypeOK, Row
  <2> QED BY <1>0, <2>1, <2>2, Lapses
<1>6. ASSUME NEW c \in Call, IssueAccess(c) \/ IssueRefresh(c) PROVE Authority!Next
  <2> DEFINE s == call[c].sess
  <2>1. /\ call[c].pc \in IssuePc /\ CallInv(call[c]) /\ call[c].a \in Token \cup {None}
        /\ s \in Session /\ call[c].r = None
    BY <1>6 DEF IssueAccess, IssueRefresh, IssuePc, RevocationInv, CallInv, TypeOK, CallState
  <2>2. PICK t \in Token, k \in {"access", "refresh"} :
          \E i, e, ttl : Persist(t, NewRow(s, k, call[c].plan = "perMint", i, e), ttl)
    BY <1>6 DEF IssueAccess, IssueRefresh
  <2>3. held \subseteq held' /\ revoked' = revoked
        /\ held' \ held \subseteq {t} \cup (IF call[c].pc = "issueRefresh" THEN {call[c].a} ELSE {})
    <3>1. t = minted + 1 /\ \A x \in Token : x = minted + 1 => x = t
      BY <2>2 DEF Persist
    <3> QED BY <1>6, <2>1, <3>1 DEF IssueAccess, IssueRefresh, TokensOf, Persist
  <2>4. t \notin held /\ t = minted + 1 /\ live' \subseteq live \cup {t} /\ live \subseteq live'
    BY <1>0, <2>2 DEF Persist
  <2>5. \A x \in Token : x # t => row'[x] = row[x]
    BY <2>2 DEF Persist, TypeOK
  <2>6. row'[t].sess = s
    BY <2>2 DEF Persist, NewRow, BlankRow, TypeOK
  <2>7. call[c].pc = "issueRefresh" =>
          call[c].a \in Token /\ call[c].a # t /\ row[call[c].a].sess = s
    BY <1>0, <2>1, <2>4 DEF CallInv
  <2> HIDE DEF s
  <2>8. \A x \in held' \ held : row'[x].sess = s
    BY <2>3, <2>5, <2>6, <2>7
  <2>9. \A x \in held : row'[x].sess = row[x].sess
    BY <1>0, <2>4, <2>5
  <2> QED BY <1>0, <2>1, <2>3, <2>4, <2>8, <2>9, Grants
<1>7. ASSUME NEW c \in Call, GraceHit(c) \/ RecheckReplies(c) PROVE Authority!Next
  <2>1. UNCHANGED <<live, row, revoked>> /\ held' = held \cup TokensOf(c)
        /\ call[c].pc \in RefreshPc
    BY <1>7 DEF GraceHit, RecheckReplies, RefreshPc, RotatePc
  <2>2. call[c].tok \in Token /\ row[call[c].tok].sess \in Session /\ CallInv(call[c])
    BY <2>1 DEF TypeOK, Row, RevocationInv
  <2>3. \A x \in TokensOf(c) : row[x].sess = row[call[c].tok].sess
    BY <2>1, <2>2 DEF CallInv, TokensOf
  <2> QED BY <1>0, <2>1, <2>2, <2>3, Grants
<1>8. ASSUME NEW c \in Call, SweepDone(c) \/ PurgeDone(c) PROVE Authority!Next
  BY <1>0, <1>8, Closes DEF SweepDone, PurgeDone
<1>9. ASSUME NEW t \in Token, RevokeToken(t) PROVE Authority!Next
  BY <1>1, <1>9 DEF RevokeToken
<1>10. CASE Tick
  <2>1. UNCHANGED <<row, held, revoked>> /\ live' \subseteq live
    BY <1>10 DEF Tick
  <2> QED BY <1>1, <2>1
<1>11. CASE UNCHANGED vars
  BY <1>11 DEF vars, Usable
<1> QED
  BY <1>2, <1>3, <1>4, <1>5, <1>6, <1>7, <1>8, <1>9, <1>10, <1>11
  DEF Next, IssueStep, RefreshStep, RevokeStep

\* The orchestrator implements SessionAuthority: what clients can use only
\* grows by tokens of one open session at a time, and closing is final.
THEOREM Implementation == Spec => ImplementsAuthority
<1>1. Init => Authority!Init
  BY DEF Init, Authority!Init
<1>2. TypeOK /\ RevocationInv /\ (TypeOK /\ RevocationInv)' /\ [Next]_vars =>
        [Authority!Next]_<<Usable, revoked>>
  BY AuthorityStep
<1> QED BY <1>1, <1>2, InvCorrect, PTL DEF Spec, ImplementsAuthority, Authority!Spec, Usable

-----------------------------------------------------------------------------
(* What every step keeps.                                                  *)

\* The fields of a row no update() changes.
SameOrigin(t) ==
    /\ row'[t].sess = row[t].sess
    /\ row'[t].kind = row[t].kind
    /\ row'[t].perMint = row[t].perMint
    /\ row'[t].exp = row[t].exp
    /\ row'[t].ceiling = row[t].ceiling

\* Rows are added under fresh tokens only, what a row was minted with stays,
\* and what was handed out or issued stays so.
Keeps ==
    /\ minted \in Nat /\ minted' \in Nat /\ minted <= minted'
    /\ \A t \in Token : t <= minted => SameOrigin(t)
    /\ \A t \in live' : t \in live \/ t > minted
    /\ held \subseteq held'
    /\ issued \subseteq issued'

\* A step of one call leaves the others as they are.
OthersWait(c) == \A x \in Call \ {c} : call'[x] = call[x]

\* What a row persisted under token t looks like.
Minted(t, s, k, p, e, ttl) ==
    /\ minted \in Nat /\ t = minted + 1 /\ minted' = t
    /\ \A x \in Token : x # t => row'[x] = row[x]
    /\ row'[t].sess = s
    /\ row'[t].kind = k
    /\ row'[t].perMint = p
    /\ row'[t].exp = now + ttl
    /\ row'[t].ceiling = e
    /\ row'[t].rotatedAt = Never
    /\ row'[t].succA = None
    /\ row'[t].succR = None
    /\ live' = IF ttl > 0 THEN live \cup {t} ELSE live

LEMMA PersistMints ==
  ASSUME TypeOK, NEW t \in Token, NEW s \in Session, NEW k \in {"access", "refresh"},
         NEW p \in BOOLEAN, NEW i \in Nat, NEW e \in Nat, NEW ttl,
         Persist(t, NewRow(s, k, p, i, e), ttl)
  PROVE  Minted(t, s, k, p, e, ttl)
<1> PICK r : r = NewRow(s, k, p, i, e)
  OBVIOUS
<1>1. /\ r.sess = s /\ r.kind = k /\ r.perMint = p /\ r.ceiling = e
      /\ r.rotatedAt = Never /\ r.succA = None /\ r.succR = None
  BY DEF NewRow, BlankRow
<1>2. r \in Row
  BY NewRowType
<1> PICK q : q = [r EXCEPT !.exp = now + ttl]
  OBVIOUS
<1>3. /\ q.sess = s /\ q.kind = k /\ q.perMint = p /\ q.ceiling = e /\ q.exp = now + ttl
      /\ q.rotatedAt = Never /\ q.succA = None /\ q.succR = None
  BY <1>1, <1>2 DEF Row
<1>4. Persist(t, r, ttl)
  OBVIOUS
<1>5. /\ minted \in Nat /\ t = minted + 1 /\ minted' = t /\ row' = [row EXCEPT ![t] = q]
      /\ live' = IF ttl > 0 THEN live \cup {t} ELSE live
  BY <1>4 DEF Persist, TypeOK
<1>6. row'[t] = q /\ \A x \in Token : x # t => row'[x] = row[x]
  BY <1>5 DEF TypeOK
<1> QED BY <1>3, <1>5, <1>6 DEF Minted

LEMMA MintKeeps ==
  ASSUME NEW t \in Token, NEW s, NEW k, NEW p, NEW e, NEW ttl, Minted(t, s, k, p, e, ttl),
         held \subseteq held', issued \subseteq issued'
  PROVE  Keeps
<1>1. minted \in Nat /\ t = minted + 1 /\ minted' = t
      /\ (\A x \in Token : x # t => row'[x] = row[x]) /\ live' \subseteq live \cup {t}
  BY DEF Minted
<1> QED BY <1>1 DEF Keeps, SameOrigin

\* The rows the four persisting actions write.
LEMMA IssueAccessRow ==
  ASSUME TypeOK, NEW c \in Call, IssueAccess(c)
  PROVE  \E t \in Token :
           /\ Minted(t, call[c].sess, "access", call[c].plan = "perMint",
                     call[c].at + RefreshTtl, AccessTtl)
           /\ \/ End(c) /\ held' = held \cup {t} /\ issued' = issued \cup {call[c].sess}
              \/ /\ call' = [call EXCEPT ![c].pc = "issueRefresh", ![c].a = t]
                 /\ UNCHANGED <<held, issued>>
<1>1. PICK t \in Token :
        /\ Persist(t, NewRow(call[c].sess, "access", call[c].plan = "perMint", call[c].at,
                             call[c].at + RefreshTtl), AccessTtl)
        /\ \/ End(c) /\ held' = held \cup {t} /\ issued' = issued \cup {call[c].sess}
           \/ /\ call' = [call EXCEPT ![c].pc = "issueRefresh", ![c].a = t]
              /\ UNCHANGED <<held, issued>>
  BY DEF IssueAccess
<1>2. /\ call[c].sess \in Session /\ (call[c].plan = "perMint") \in BOOLEAN
      /\ call[c].at \in Nat /\ call[c].at + RefreshTtl \in Nat
  BY ConfigAssumption DEF TypeOK, CallState
<1>3. Minted(t, call[c].sess, "access", call[c].plan = "perMint",
             call[c].at + RefreshTtl, AccessTtl)
  BY <1>1, <1>2, PersistMints
<1> QED BY <1>1, <1>3

LEMMA IssueRefreshRow ==
  ASSUME TypeOK, NEW c \in Call, IssueRefresh(c)
  PROVE  \E t \in Token :
           /\ Minted(t, call[c].sess, "refresh", call[c].plan = "perMint",
                     now + RefreshTtl, RefreshTtl)
           /\ held' = held \cup TokensOf(c) \cup {t}
           /\ issued' = issued \cup {call[c].sess}
           /\ End(c)
<1>1. PICK t \in Token :
        /\ Persist(t, NewRow(call[c].sess, "refresh", call[c].plan = "perMint", call[c].at,
                             now + RefreshTtl), RefreshTtl)
        /\ held' = held \cup TokensOf(c) \cup {t}
  BY DEF IssueRefresh
<1>2. /\ call[c].sess \in Session /\ (call[c].plan = "perMint") \in BOOLEAN
      /\ call[c].at \in Nat /\ now + RefreshTtl \in Nat
  BY ConfigAssumption DEF TypeOK, CallState
<1>3. Minted(t, call[c].sess, "refresh", call[c].plan = "perMint", now + RefreshTtl, RefreshTtl)
  BY <1>1, <1>2, PersistMints
<1> QED BY <1>1, <1>3 DEF IssueRefresh

LEMMA MintAccessRow ==
  ASSUME TypeOK, NEW c \in Call, MintAccess(c)
  PROVE  \E t \in Token :
           /\ Minted(t, row[call[c].tok].sess, "access", row[call[c].tok].perMint,
                     row[call[c].tok].ceiling, AccessTtl)
           /\ call' = [call EXCEPT ![c].a = t,
                                   ![c].pc = IF RotationOf(call[c].tok) = "none"
                                             THEN "recheck" ELSE "mintRefresh"]
<1>1. PICK t \in Token :
        /\ Persist(t, NewRow(row[call[c].tok].sess, "access", row[call[c].tok].perMint,
                             call[c].at, row[call[c].tok].ceiling), AccessTtl)
        /\ call' = [call EXCEPT ![c].a = t,
                                ![c].pc = IF RotationOf(call[c].tok) = "none"
                                          THEN "recheck" ELSE "mintRefresh"]
  BY DEF MintAccess
<1>2. call[c].tok \in Token /\ call[c].at \in Nat
  BY DEF MintAccess, TypeOK, CallState
<1>3. row[call[c].tok] \in Row
  BY <1>2 DEF TypeOK
<1>4. /\ row[call[c].tok].sess \in Session /\ row[call[c].tok].perMint \in BOOLEAN
      /\ row[call[c].tok].ceiling \in Nat
  BY <1>3 DEF Row
<1>5. Minted(t, row[call[c].tok].sess, "access", row[call[c].tok].perMint,
             row[call[c].tok].ceiling, AccessTtl)
  BY <1>1, <1>2, <1>4, PersistMints
<1> QED BY <1>1, <1>5

LEMMA MintRefreshRow ==
  ASSUME TypeOK, NEW c \in Call, MintRefresh(c)
  PROVE  \E t \in Token :
           /\ Minted(t, row[call[c].tok].sess, "refresh", row[call[c].tok].perMint,
                     row[call[c].tok].ceiling, RotatedTtl(call[c].tok, call[c].at))
           /\ call' = [call EXCEPT ![c].r = t, ![c].pc = "stamp"]
<1>1. PICK t \in Token :
        /\ Persist(t, NewRow(row[call[c].tok].sess, "refresh", row[call[c].tok].perMint,
                             call[c].at, row[call[c].tok].ceiling),
                   RotatedTtl(call[c].tok, call[c].at))
        /\ call' = [call EXCEPT ![c].r = t, ![c].pc = "stamp"]
  BY DEF MintRefresh
<1>2. call[c].tok \in Token /\ call[c].at \in Nat
  BY DEF MintRefresh, TypeOK, CallState
<1>3. row[call[c].tok] \in Row
  BY <1>2 DEF TypeOK
<1>4. /\ row[call[c].tok].sess \in Session /\ row[call[c].tok].perMint \in BOOLEAN
      /\ row[call[c].tok].ceiling \in Nat
  BY <1>3 DEF Row
<1>5. Minted(t, row[call[c].tok].sess, "refresh", row[call[c].tok].perMint,
             row[call[c].tok].ceiling, RotatedTtl(call[c].tok, call[c].at))
  BY <1>1, <1>2, <1>4, PersistMints
<1> QED BY <1>1, <1>5

\* update() of the presented row: rotated, with the pair that replaces it.
Stamped(t, at, a, r) ==
    /\ \A x \in Token : SameOrigin(x)
    /\ \A x \in Token : x # t => row'[x] = row[x]
    /\ \/ t \notin live /\ row' = row
       \/ /\ t \in live
          /\ row'[t].rotatedAt = at /\ row'[t].succA = a /\ row'[t].succR = r

LEMMA StampRow ==
  ASSUME TypeOK, NEW c \in Call, Stamp(c)
  PROVE  Stamped(call[c].tok, call[c].at, call[c].a, call[c].r)
<1> PICK t : t = call[c].tok
  OBVIOUS
<1>1. t \in Token /\ row[t] \in Row
  BY DEF Stamp, TypeOK
<1> PICK q : q = [row[t] EXCEPT !.rotatedAt = call[c].at, !.succA = call[c].a, !.succR = call[c].r]
  OBVIOUS
<1>2. /\ q.sess = row[t].sess /\ q.kind = row[t].kind /\ q.perMint = row[t].perMint
      /\ q.exp = row[t].exp /\ q.ceiling = row[t].ceiling
      /\ q.rotatedAt = call[c].at /\ q.succA = call[c].a /\ q.succR = call[c].r
  BY <1>1 DEF Row
<1>3. row' = IF t \in live THEN [row EXCEPT ![t] = q] ELSE row
  BY <1>1 DEF Stamp, TypeOK
<1>4. \A x \in Token : x # t => row'[x] = row[x]
  BY <1>3 DEF TypeOK
<1>5. t \in live => row'[t] = q
  BY <1>1, <1>3 DEF TypeOK
<1>6. \A x \in Token : SameOrigin(x)
  BY <1>2, <1>3, <1>4, <1>5 DEF SameOrigin
<1> QED BY <1>2, <1>3, <1>4, <1>5, <1>6 DEF Stamped

\* What a client, a revocation or the code of a call can do next.
Acts(c) ==
    \/ StartClient(c) \/ StartRevoker(c)
    \/ IssueStep(c) \/ RefreshStep(c) \/ FindRefuses(c)
    \/ RevokeStep(c) \/ RevokeRowFails(c) \/ Fail(c)

LEMMA Actors ==
  ASSUME [Next]_vars
  PROVE  \/ \E c \in Call : Acts(c)
         \/ \E t \in Token : RevokeToken(t)
         \/ Tick
         \/ UNCHANGED vars
  BY DEF Next, StartClients, StartRevokers, Acts

\* The steps that write no row and hand nothing out.
LEMMA QuietKeeps ==
  ASSUME TypeOK, row' = row, minted' = minted, live' \subseteq live,
         held \subseteq held', issued \subseteq issued'
  PROVE  Keeps
  BY DEF Keeps, SameOrigin, TypeOK

LEMMA StartKeeps ==
  ASSUME TypeOK, NEW c \in Call, StartClient(c) \/ StartRevoker(c)
  PROVE  /\ UNCHANGED <<live, row, minted, now, failures, held, issued, revoked>>
         /\ OthersWait(c)
<1>1. UNCHANGED <<live, row, minted, now, failures, held, issued, revoked>>
  BY DEF StartClient, StartRevoker, StartIssue, StartRefresh, StartRevokeSession,
         StartRevokeOthers, StartRevokeAll
<1>2. \E d : call' = [call EXCEPT ![c] = d]
  BY DEF StartClient, StartRevoker, StartIssue, StartRefresh, StartRevokeSession,
         StartRevokeOthers, StartRevokeAll
<1> QED BY <1>1, <1>2 DEF OthersWait, TypeOK

LEMMA EndWaits ==
  ASSUME TypeOK, NEW c \in Call, End(c)
  PROVE  OthersWait(c) /\ call'[c] = Idle
  BY DEF End, OthersWait, TypeOK

LEMMA PassWaits ==
  ASSUME TypeOK, NEW c \in Call, NEW l, NextPass(c, l)
  PROVE  OthersWait(c)
  BY DEF NextPass, End, OthersWait, TypeOK

LEMMA QuietActs ==
  ASSUME TypeOK, NEW c \in Call,
         \/ CheckLimit(c) \/ Evict(c) \/ FindRefuses(c) \/ FindFresh(c) \/ FindReplay(c)
         \/ FindInGrace(c) \/ GraceReplay(c) \/ RecheckRefuses(c) \/ Undo(c)
         \/ SweepPass(c) \/ RevokeRow(c) \/ RevokeRowFails(c) \/ OrphanedRow(c)
         \/ SweepDone(c) \/ PurgeDone(c) \/ Purge(c) \/ PurgeAgain(c) \/ Fail(c)
         \/ GraceHit(c) \/ RecheckReplies(c)
  PROVE  /\ row' = row /\ minted' = minted /\ live' \subseteq live
         /\ held \subseteq held' /\ issued' = issued /\ now' = now
         /\ OthersWait(c)
<1>1. /\ row' = row /\ minted' = minted /\ live' \subseteq live
      /\ held \subseteq held' /\ issued' = issued /\ now' = now
  BY DEF CheckLimit, Evict, FindRefuses, FindFresh, FindReplay, FindInGrace, GraceReplay,
         RecheckRefuses, Undo, SweepPass, RevokeRow, RevokeRowFails, OrphanedRow, SweepDone,
         PurgeDone, Purge, PurgeAgain, Fail, GraceHit, RecheckReplies
<1>2. \/ \E l : NextPass(c, l)
      \/ \E d : call' = [call EXCEPT ![c] = d]
  <2>1. CASE CheckLimit(c) \/ Evict(c)
    BY <2>1 DEF CheckLimit, Evict, End
  <2>2. CASE FindRefuses(c) \/ FindFresh(c) \/ FindReplay(c) \/ FindInGrace(c)
    BY <2>2 DEF FindRefuses, FindFresh, FindReplay, FindInGrace, End, Goto, TheftResponse
  <2>3. CASE GraceReplay(c) \/ RecheckRefuses(c) \/ Undo(c) \/ GraceHit(c) \/ RecheckReplies(c)
    BY <2>3 DEF GraceReplay, RecheckRefuses, Undo, GraceHit, RecheckReplies, End, TheftResponse
  <2>4. CASE SweepPass(c) \/ RevokeRow(c) \/ RevokeRowFails(c) \/ OrphanedRow(c) \/ SweepDone(c)
    BY <2>4 DEF SweepPass, RevokeRow, RevokeRowFails, OrphanedRow, SweepDone, End
  <2>5. CASE PurgeDone(c) \/ Purge(c) \/ PurgeAgain(c) \/ Fail(c)
    BY <2>5 DEF PurgeDone, Purge, PurgeAgain, Fail, End, Goto
  <2> QED BY <2>1, <2>2, <2>3, <2>4, <2>5
<1> QED BY <1>1, <1>2, PassWaits DEF OthersWait, TypeOK

\* The steps that do write a row.
LEMMA WritingActs ==
  ASSUME TypeOK, NEW c \in Call,
         IssueAccess(c) \/ IssueRefresh(c) \/ MintAccess(c) \/ MintRefresh(c) \/ Stamp(c)
  PROVE  Keeps /\ now' = now /\ OthersWait(c)
<1>1. CASE IssueAccess(c)
  <2>1. PICK t \in Token :
          /\ Minted(t, call[c].sess, "access", call[c].plan = "perMint",
                    call[c].at + RefreshTtl, AccessTtl)
          /\ \/ End(c) /\ held' = held \cup {t} /\ issued' = issued \cup {call[c].sess}
             \/ /\ call' = [call EXCEPT ![c].pc = "issueRefresh", ![c].a = t]
                /\ UNCHANGED <<held, issued>>
    BY <1>1, IssueAccessRow
  <2>2. held \subseteq held' /\ issued \subseteq issued'
    BY <2>1
  <2>3. Keeps
    BY <2>1, <2>2, MintKeeps
  <2> QED BY <1>1, <2>1, <2>3 DEF IssueAccess, OthersWait, End, TypeOK
<1>2. CASE IssueRefresh(c)
  <2>1. PICK t \in Token :
          /\ Minted(t, call[c].sess, "refresh", call[c].plan = "perMint",
                    now + RefreshTtl, RefreshTtl)
          /\ held \subseteq held' /\ issued \subseteq issued'
    BY <1>2, IssueRefreshRow
  <2>2. Keeps
    BY <2>1, MintKeeps
  <2> QED BY <1>2, <2>2, EndWaits DEF IssueRefresh
<1>3. CASE MintAccess(c)
  <2>1. PICK t \in Token :
          /\ Minted(t, row[call[c].tok].sess, "access", row[call[c].tok].perMint,
                    row[call[c].tok].ceiling, AccessTtl)
          /\ call' = [call EXCEPT ![c].a = t,
                                  ![c].pc = IF RotationOf(call[c].tok) = "none"
                                            THEN "recheck" ELSE "mintRefresh"]
    BY <1>3, MintAccessRow
  <2>2. UNCHANGED <<held, issued, now>>
    BY <1>3 DEF MintAccess
  <2>3. Keeps
    BY <2>1, <2>2, MintKeeps
  <2> QED BY <2>1, <2>2, <2>3 DEF OthersWait, TypeOK
<1>4. CASE MintRefresh(c)
  <2>1. PICK t \in Token :
          /\ Minted(t, row[call[c].tok].sess, "refresh", row[call[c].tok].perMint,
                    row[call[c].tok].ceiling, RotatedTtl(call[c].tok, call[c].at))
          /\ call' = [call EXCEPT ![c].r = t, ![c].pc = "stamp"]
    BY <1>4, MintRefreshRow
  <2>2. UNCHANGED <<held, issued, now>>
    BY <1>4 DEF MintRefresh
  <2>3. Keeps
    BY <2>1, <2>2, MintKeeps
  <2> QED BY <2>1, <2>2, <2>3 DEF OthersWait, TypeOK
<1>5. CASE Stamp(c)
  <2>1. \A x \in Token : SameOrigin(x)
    BY <1>5, StampRow DEF Stamped
  <2>2. UNCHANGED <<live, minted, now, held, issued>>
    BY <1>5 DEF Stamp
  <2>3. Keeps
    BY <2>1, <2>2 DEF Keeps, TypeOK
  <2> QED BY <1>5, <2>2, <2>3 DEF Stamp, Goto, OthersWait, TypeOK
<1> QED BY <1>1, <1>2, <1>3, <1>4, <1>5

LEMMA ActsKeep ==
  ASSUME TypeOK, NEW c \in Call, Acts(c)
  PROVE  Keeps /\ now' = now /\ OthersWait(c)
<1>1. CASE StartClient(c) \/ StartRevoker(c)
  <2>1. UNCHANGED <<live, row, minted, now, held, issued>> /\ OthersWait(c)
    BY <1>1, StartKeeps
  <2> QED BY <2>1, QuietKeeps
<1>2. CASE IssueAccess(c) \/ IssueRefresh(c) \/ MintAccess(c) \/ MintRefresh(c) \/ Stamp(c)
  BY <1>2, WritingActs
<1>3. CASE \/ CheckLimit(c) \/ Evict(c) \/ FindRefuses(c) \/ FindFresh(c) \/ FindReplay(c)
           \/ FindInGrace(c) \/ GraceReplay(c) \/ RecheckRefuses(c) \/ Undo(c)
           \/ SweepPass(c) \/ RevokeRow(c) \/ RevokeRowFails(c) \/ OrphanedRow(c)
           \/ SweepDone(c) \/ PurgeDone(c) \/ Purge(c) \/ PurgeAgain(c) \/ Fail(c)
           \/ GraceHit(c) \/ RecheckReplies(c)
  <2>1. /\ row' = row /\ minted' = minted /\ live' \subseteq live
        /\ held \subseteq held' /\ issued' = issued /\ now' = now /\ OthersWait(c)
    BY <1>3, QuietActs
  <2> QED BY <2>1, QuietKeeps
<1> QED
  BY <1>1, <1>2, <1>3 DEF Acts, IssueStep, RefreshStep, RevokeStep

\* Steps nobody's call takes: a token revoked by hand, the clock, stuttering.
LEMMA IdleKeeps ==
  ASSUME TypeOK, (\E t \in Token : RevokeToken(t)) \/ Tick \/ UNCHANGED vars
  PROVE  /\ UNCHANGED <<row, minted, call, held, issued>>
         /\ live' \subseteq live
         /\ Keeps
<1>1. UNCHANGED <<row, minted, call, held, issued>> /\ live' \subseteq live
  BY DEF RevokeToken, Tick, vars
<1> QED BY <1>1, QuietKeeps
-----------------------------------------------------------------------------
(* Where each step leaves its own call.                                    *)

\* The fields that say what a call works for and what it has minted.
Carries(d, e) ==
    /\ e.sess = d.sess /\ e.scope = d.scope /\ e.tok = d.tok
    /\ e.a = d.a /\ e.r = d.r /\ e.stale = d.stale

\* A call that has just begun, or one that carries nothing of a refresh.
Blank(d) == d.a = None /\ d.r = None /\ d.stale = FALSE

LEMMA IdleBlank == Blank(Idle) /\ Idle.pc = "idle"
  BY DEF Blank, Idle

\* Assigning one call's record.
LEMMA Assigned ==
  ASSUME TypeOK, NEW c \in Call, NEW d, call' = [call EXCEPT ![c] = d]
  PROVE  call'[c] = d
  BY DEF TypeOK

LEMMA AfterStartIssue ==
  ASSUME TypeOK, NEW c \in Call, NEW s \in Session, NEW p \in Plans, StartIssue(c, s, p)
  PROVE  call'[c].pc \in {"limit", "issueAccess"} /\ Blank(call'[c])
<1> PICK d : d = [Idle EXCEPT !.pc = IF MaxConcurrent > 0 THEN "limit" ELSE "issueAccess",
                              !.sess = s, !.plan = p, !.at = now]
  OBVIOUS
<1>1. d.pc \in {"limit", "issueAccess"} /\ Blank(d)
  BY DEF Idle, Blank
<1>2. call'[c] = d
  BY Assigned DEF StartIssue
<1> QED BY <1>1, <1>2

LEMMA AfterStartRefresh ==
  ASSUME TypeOK, NEW c \in Call, NEW t \in Token, StartRefresh(c, t)
  PROVE  /\ call'[c].pc = "find" /\ call'[c].tok = t /\ call'[c].at = now
         /\ call'[c].a = None /\ call'[c].r = None /\ call'[c].stale = Superseded(t)
<1> PICK d : d = [Idle EXCEPT !.pc = "find", !.tok = t, !.at = now, !.stale = Superseded(t)]
  OBVIOUS
<1>1. /\ d.pc = "find" /\ d.tok = t /\ d.at = now /\ d.a = None /\ d.r = None
      /\ d.stale = Superseded(t)
  BY DEF Idle
<1>2. call'[c] = d
  BY Assigned DEF StartRefresh
<1> QED BY <1>1, <1>2

\* A revocation, the theft response included, sweeps one session or all but
\* one; those of a whole user go through the purge.
Revoking(d) ==
    /\ Blank(d)
    /\ \/ d.pc = "list" /\ d.scope \in {"one", "others"}
       \/ d.pc = "purge"

LEMMA AfterRevocation ==
  ASSUME TypeOK, NEW c \in Call, NEW s, NEW T, NEW sc \in {"one", "others"},
         \/ call' = [call EXCEPT ![c] = Revocation(s, sc, "list", T)]
         \/ call' = [call EXCEPT ![c] = Revocation(s, "all", "purge", T)]
  PROVE  Revoking(call'[c])
<1>1. Revoking(Revocation(s, sc, "list", T)) /\ Revoking(Revocation(s, "all", "purge", T))
  BY DEF Revoking, Blank, Revocation, Idle
<1> QED BY <1>1, Assigned

LEMMA AfterStartRevoker ==
  ASSUME TypeOK, NEW c \in Call, StartRevoker(c)
  PROVE  Revoking(call'[c])
<1>1. ASSUME NEW s \in Session, StartRevokeSession(c, s) PROVE Revoking(call'[c])
  BY <1>1, AfterRevocation DEF StartRevokeSession
<1>2. ASSUME NEW s \in Session, StartRevokeOthers(c, s) PROVE Revoking(call'[c])
  BY <1>2, AfterRevocation DEF StartRevokeOthers
<1>3. ASSUME NEW u \in User, StartRevokeAll(c, u) PROVE Revoking(call'[c])
  BY <1>3, AfterRevocation DEF StartRevokeAll
<1> QED BY <1>1, <1>2, <1>3 DEF StartRevoker

LEMMA AfterTheft ==
  ASSUME TypeOK, NEW c \in Call, TheftResponse(c)
  PROVE  Revoking(call'[c])
<1> DEFINE one == ReuseResponse = "session"
           s == row[call[c].tok].sess
           T == IF one THEN {s} \cap issued ELSE {x \in issued : UserOf[x] = UserOf[s]}
<1> PICK d : d = [Idle EXCEPT !.sess = s, !.pc = IF one THEN "list" ELSE "purge",
                              !.scope = IF one THEN "one" ELSE "all", !.target = T]
  OBVIOUS
<1>1. Revoking(d)
  BY DEF Revoking, Blank, Idle
<1>2. call'[c] = d
  BY Assigned DEF TheftResponse
<1> QED BY <1>1, <1>2

\* The steps of issue() before it persists anything.
LEMMA AfterLimit ==
  ASSUME TypeOK, NEW c \in Call, CheckLimit(c) \/ Evict(c)
  PROVE  \/ call'[c] = Idle
         \/ call'[c].pc \in {"issueAccess", "evict"} /\ Carries(call[c], call'[c])
<1>0. call[c] \in CallState
  BY DEF TypeOK
<1>1. ASSUME NEW T, NEW n,
             \/ call' = [call EXCEPT ![c].pc = "issueAccess", ![c].at = n]
             \/ call' = [call EXCEPT ![c].pc = "evict", ![c].todo = T]
             \/ call' = [call EXCEPT ![c].todo = {}, ![c].pc = "issueAccess", ![c].at = n]
             \/ call[c].pc = "evict" /\ call' = [call EXCEPT ![c].todo = T]
      PROVE  call'[c].pc \in {"issueAccess", "evict"} /\ Carries(call[c], call'[c])
  <2> DEFINE k1 == [call[c] EXCEPT !.pc = "issueAccess", !.at = n]
             k2 == [call[c] EXCEPT !.pc = "evict", !.todo = T]
             k3 == [call[c] EXCEPT !.todo = {}, !.pc = "issueAccess", !.at = n]
             k4 == [call[c] EXCEPT !.todo = T]
  <2>1. /\ k1.pc \in {"issueAccess", "evict"} /\ Carries(call[c], k1)
        /\ k2.pc \in {"issueAccess", "evict"} /\ Carries(call[c], k2)
        /\ k3.pc \in {"issueAccess", "evict"} /\ Carries(call[c], k3)
        /\ k4.pc = call[c].pc /\ Carries(call[c], k4)
    BY <1>0 DEF CallState, Carries
  <2>2. \/ call'[c] \in {k1, k2, k3}
        \/ call[c].pc = "evict" /\ call'[c] = k4
    BY <1>1 DEF TypeOK
  <2> HIDE DEF k1, k2, k3, k4
  <2> QED BY <2>1, <2>2
<1>2. CASE CheckLimit(c)
  BY <1>1, <1>2, EndWaits DEF CheckLimit
<1>3. CASE Evict(c)
  BY <1>1, <1>3 DEF Evict
<1> QED BY <1>2, <1>3

LEMMA AfterFindFresh ==
  ASSUME TypeOK, NEW c \in Call, FindFresh(c)
  PROVE  call'[c].pc = "mintAccess" /\ call'[c].at = call[c].at /\ Carries(call[c], call'[c])
<1> PICK d : d = [call[c] EXCEPT !.pc = "mintAccess"]
  OBVIOUS
<1>1. d.pc = "mintAccess" /\ d.at = call[c].at /\ Carries(call[c], d)
  BY DEF TypeOK, CallState, Carries
<1>2. call'[c] = d
  BY DEF FindFresh, Goto, TypeOK
<1> QED BY <1>1, <1>2

LEMMA AfterFindInGrace ==
  ASSUME TypeOK, NEW c \in Call, FindInGrace(c)
  PROVE  /\ call'[c].pc = "successor"
         /\ call'[c].tok = call[c].tok /\ call'[c].stale = call[c].stale
         /\ call'[c].a = row[call[c].tok].succA /\ call'[c].r = row[call[c].tok].succR
<1> PICK d : d = [call[c] EXCEPT !.pc = "successor", !.a = row[call[c].tok].succA,
                                 !.r = row[call[c].tok].succR]
  OBVIOUS
<1>1. /\ d.pc = "successor" /\ d.tok = call[c].tok /\ d.stale = call[c].stale
      /\ d.a = row[call[c].tok].succA /\ d.r = row[call[c].tok].succR
  BY DEF TypeOK, CallState
<1>2. call'[c] = d
  BY DEF FindInGrace, TypeOK
<1> QED BY <1>1, <1>2

\* A call that has persisted an access token, or a refresh token.
LEMMA AfterIssueAccess ==
  ASSUME TypeOK, NEW c \in Call, IssueAccess(c)
  PROVE  \E t \in Token :
           /\ Minted(t, call[c].sess, "access", call[c].plan = "perMint",
                     call[c].at + RefreshTtl, AccessTtl)
           /\ \/ /\ call'[c] = Idle
                 /\ held' = held \cup {t} /\ issued' = issued \cup {call[c].sess}
              \/ /\ call'[c].pc = "issueRefresh" /\ call'[c].a = t
                 /\ call'[c].r = call[c].r /\ call'[c].stale = call[c].stale
                 /\ UNCHANGED <<held, issued>>
<1>1. PICK t \in Token :
        /\ Minted(t, call[c].sess, "access", call[c].plan = "perMint",
                  call[c].at + RefreshTtl, AccessTtl)
        /\ \/ End(c) /\ held' = held \cup {t} /\ issued' = issued \cup {call[c].sess}
           \/ /\ call' = [call EXCEPT ![c].pc = "issueRefresh", ![c].a = t]
              /\ UNCHANGED <<held, issued>>
  BY IssueAccessRow
<1>2. ASSUME call' = [call EXCEPT ![c].pc = "issueRefresh", ![c].a = t]
      PROVE  /\ call'[c].pc = "issueRefresh" /\ call'[c].a = t
             /\ call'[c].r = call[c].r /\ call'[c].stale = call[c].stale
  <2> PICK d : d = [call[c] EXCEPT !.pc = "issueRefresh", !.a = t]
    OBVIOUS
  <2>1. d.pc = "issueRefresh" /\ d.a = t /\ d.r = call[c].r /\ d.stale = call[c].stale
    BY DEF TypeOK, CallState
  <2>2. call'[c] = d
    BY <1>2 DEF TypeOK
  <2> QED BY <2>1, <2>2
<1> QED BY <1>1, <1>2, EndWaits

LEMMA AfterMintAccess ==
  ASSUME TypeOK, NEW c \in Call, MintAccess(c)
  PROVE  \E t \in Token :
           /\ Minted(t, row[call[c].tok].sess, "access", row[call[c].tok].perMint,
                     row[call[c].tok].ceiling, AccessTtl)
           /\ call'[c].pc = IF RotationOf(call[c].tok) = "none" THEN "recheck" ELSE "mintRefresh"
           /\ call'[c].a = t /\ call'[c].r = call[c].r /\ call'[c].tok = call[c].tok
           /\ call'[c].at = call[c].at /\ call'[c].stale = call[c].stale
<1>1. PICK t \in Token :
        /\ Minted(t, row[call[c].tok].sess, "access", row[call[c].tok].perMint,
                  row[call[c].tok].ceiling, AccessTtl)
        /\ call' = [call EXCEPT ![c].a = t,
                                ![c].pc = IF RotationOf(call[c].tok) = "none"
                                          THEN "recheck" ELSE "mintRefresh"]
  BY MintAccessRow
<1> PICK l : l = IF RotationOf(call[c].tok) = "none" THEN "recheck" ELSE "mintRefresh"
  OBVIOUS
<1> PICK d : d = [call[c] EXCEPT !.a = t, !.pc = l]
  OBVIOUS
<1>2. /\ d.pc = l /\ d.a = t /\ d.r = call[c].r /\ d.tok = call[c].tok /\ d.at = call[c].at
      /\ d.stale = call[c].stale
  BY DEF TypeOK, CallState
<1>3. call'[c] = d
  BY <1>1 DEF TypeOK
<1> QED BY <1>1, <1>2, <1>3

LEMMA AfterMintRefresh ==
  ASSUME TypeOK, NEW c \in Call, MintRefresh(c)
  PROVE  \E t \in Token :
           /\ Minted(t, row[call[c].tok].sess, "refresh", row[call[c].tok].perMint,
                     row[call[c].tok].ceiling, RotatedTtl(call[c].tok, call[c].at))
           /\ call'[c].pc = "stamp" /\ call'[c].a = call[c].a /\ call'[c].r = t
           /\ call'[c].tok = call[c].tok /\ call'[c].at = call[c].at
           /\ call'[c].stale = call[c].stale
<1>1. PICK t \in Token :
        /\ Minted(t, row[call[c].tok].sess, "refresh", row[call[c].tok].perMint,
                  row[call[c].tok].ceiling, RotatedTtl(call[c].tok, call[c].at))
        /\ call' = [call EXCEPT ![c].r = t, ![c].pc = "stamp"]
  BY MintRefreshRow
<1> PICK d : d = [call[c] EXCEPT !.r = t, !.pc = "stamp"]
  OBVIOUS
<1>2. /\ d.pc = "stamp" /\ d.a = call[c].a /\ d.r = t /\ d.tok = call[c].tok /\ d.at = call[c].at
      /\ d.stale = call[c].stale
  BY DEF TypeOK, CallState
<1>3. call'[c] = d
  BY <1>1 DEF TypeOK
<1> QED BY <1>1, <1>2, <1>3

LEMMA AfterStamp ==
  ASSUME TypeOK, NEW c \in Call, Stamp(c)
  PROVE  call'[c].pc = "recheck" /\ Carries(call[c], call'[c])
<1> PICK d : d = [call[c] EXCEPT !.pc = "recheck"]
  OBVIOUS
<1>1. d.pc = "recheck" /\ Carries(call[c], d)
  BY DEF TypeOK, CallState, Carries
<1>2. call'[c] = d
  BY DEF Stamp, Goto, TypeOK
<1> QED BY <1>1, <1>2

LEMMA AfterRecheckRefuses ==
  ASSUME TypeOK, NEW c \in Call, RecheckRefuses(c)
  PROVE  call'[c].pc = "undo" /\ Carries(call[c], call'[c])
<1> PICK d : d = [call[c] EXCEPT !.pc = "undo", !.todo = TokensOf(c)]
  OBVIOUS
<1>1. d.pc = "undo" /\ Carries(call[c], d)
  BY DEF TypeOK, CallState, Carries
<1>2. call'[c] = d
  BY DEF RecheckRefuses, TypeOK
<1> QED BY <1>1, <1>2

\* The rows a call has still to delete: it goes on with fewer, or is over, or
\* has taken a fresh listing.
LEMMA AfterUndo ==
  ASSUME TypeOK, NEW c \in Call, Undo(c)
  PROVE  \/ call'[c] = Idle
         \/ call'[c].pc = "undo" /\ Carries(call[c], call'[c])
<1>1. PICK t \in call[c].todo :
        \/ End(c)
        \/ call' = [call EXCEPT ![c].todo = call[c].todo \ {t}]
  BY DEF Undo
<1>2. CASE call' = [call EXCEPT ![c].todo = call[c].todo \ {t}]
  <2> PICK d : d = [call[c] EXCEPT !.todo = call[c].todo \ {t}]
    OBVIOUS
  <2>1. d.pc = "undo" /\ Carries(call[c], d)
    BY DEF Undo, TypeOK, CallState, Carries
  <2>2. call'[c] = d
    BY <1>2 DEF TypeOK
  <2> QED BY <2>1, <2>2
<1> QED BY <1>1, <1>2, EndWaits

LEMMA AfterSweep ==
  ASSUME TypeOK, NEW c \in Call,
         SweepPass(c) \/ RevokeRow(c) \/ RevokeRowFails(c) \/ OrphanedRow(c)
  PROVE  \/ call'[c] = Idle
         \/ /\ Carries(call[c], call'[c]) /\ call[c].pc \in SweepPc
            /\ \/ call'[c].pc = "list"
               \/ /\ call'[c].pc \in {"revokes", "orphaned"}
                  /\ \/ call'[c].todo \subseteq MatchedRows(c)
                     \/ /\ call[c].pc \in {"revokes", "orphaned"}
                        /\ call'[c].todo \subseteq call[c].todo
<1> DEFINE Going(e) ==
      /\ Carries(call[c], e) /\ call[c].pc \in SweepPc
      /\ \/ e.pc = "list"
         \/ /\ e.pc \in {"revokes", "orphaned"}
            /\ \/ e.todo \subseteq MatchedRows(c)
               \/ call[c].pc \in {"revokes", "orphaned"} /\ e.todo \subseteq call[c].todo
<1>0. call[c] \in CallState
  BY DEF TypeOK
<1>1. CASE SweepPass(c)
  <2> PICK d : d = [call[c] EXCEPT !.pc = "revokes", !.todo = MatchedRows(c)]
    OBVIOUS
  <2>1. d.pc = "revokes" /\ d.todo = MatchedRows(c) /\ Carries(call[c], d)
    BY <1>0 DEF CallState, Carries
  <2>2. call'[c] = d /\ call[c].pc = "list"
    BY <1>1 DEF SweepPass, TypeOK
  <2> QED BY <2>1, <2>2
<1>2. ASSUME NEW t, NEW l \in {"revokes", "orphaned"}, call[c].pc \in {"revokes", "orphaned"},
             \/ call' = [call EXCEPT ![c].todo = call[c].todo \ {t}]
             \/ call' = [call EXCEPT ![c].pc = l, ![c].todo = call[c].todo \ {t}]
      PROVE  Going(call'[c])
  <2> DEFINE k1 == [call[c] EXCEPT !.todo = call[c].todo \ {t}]
             k2 == [call[c] EXCEPT !.pc = l, !.todo = call[c].todo \ {t}]
  <2>1. PICK d \in {k1, k2} : call' = [call EXCEPT ![c] = d]
    BY <1>2
  <2>2. d.pc \in {"revokes", "orphaned"} /\ d.todo = call[c].todo \ {t} /\ Carries(call[c], d)
    BY <1>0, <1>2 DEF CallState, Carries
  <2> HIDE DEF k1, k2
  <2>3. call'[c] = d
    BY <2>1, Assigned
  <2> QED BY <1>2, <2>2, <2>3
<1>3. CASE RevokeRow(c)
  <2>1. PICK t \in call[c].todo :
          \/ NextPass(c, "list")
          \/ call' = [call EXCEPT ![c].todo = call[c].todo \ {t}]
    BY <1>3 DEF RevokeRow
  <2>2. call[c].pc = "revokes"
    BY <1>3 DEF RevokeRow
  <2>3. CASE NextPass(c, "list") /\ ~End(c)
    <3> PICK d : d = [call[c] EXCEPT !.todo = {}, !.pc = "list", !.pass = @ + 1]
      OBVIOUS
    <3>1. d.pc = "list" /\ Carries(call[c], d)
      BY <1>0 DEF CallState, Carries
    <3>2. call'[c] = d
      BY <2>3 DEF NextPass, TypeOK
    <3> QED BY <2>2, <3>1, <3>2
  <2> QED BY <1>2, <2>1, <2>2, <2>3, EndWaits
<1>4. CASE RevokeRowFails(c) \/ OrphanedRow(c)
  <2>1. call[c].pc \in {"revokes", "orphaned"}
    BY <1>4 DEF RevokeRowFails, OrphanedRow
  <2>2. PICK t \in call[c].todo :
          \/ End(c)
          \/ call' = [call EXCEPT ![c].todo = call[c].todo \ {t}]
          \/ call' = [call EXCEPT ![c].pc = "orphaned", ![c].todo = call[c].todo \ {t}]
    BY <1>4 DEF RevokeRowFails, OrphanedRow
  <2> QED BY <1>2, <2>1, <2>2, EndWaits
<1> QED BY <1>1, <1>3, <1>4

LEMMA AfterPurge ==
  ASSUME TypeOK, NEW c \in Call, Purge(c) \/ PurgeAgain(c)
  PROVE  \/ call'[c] = Idle
         \/ call'[c].pc \in {"purge", "purgeList"} /\ Carries(call[c], call'[c])
<1> DEFINE k1 == [call[c] EXCEPT !.todo = {}, !.pc = "purgeList", !.pass = @ + 1]
           k2 == [call[c] EXCEPT !.pc = "purge"]
<1>1. /\ k1.pc = "purgeList" /\ Carries(call[c], k1)
      /\ k2.pc = "purge" /\ Carries(call[c], k2)
  BY DEF TypeOK, CallState, Carries
<1>2. End(c) \/ call'[c] \in {k1, k2}
  BY DEF Purge, PurgeAgain, NextPass, Goto, TypeOK
<1> HIDE DEF k1, k2
<1> QED BY <1>1, <1>2, EndWaits

\* The steps that end their call.
LEMMA AfterLast ==
  ASSUME TypeOK, NEW c \in Call,
         \/ FindRefuses(c) \/ GraceHit(c) \/ RecheckReplies(c) \/ SweepDone(c) \/ PurgeDone(c)
         \/ Fail(c) \/ IssueRefresh(c)
  PROVE  call'[c] = Idle
<1>1. End(c)
  BY DEF FindRefuses, GraceHit, RecheckReplies, SweepDone, PurgeDone, Fail, IssueRefresh
<1> QED BY <1>1, EndWaits
-----------------------------------------------------------------------------
(* Whose rows a step may delete.                                           *)

\* A sweep serves a session scope, whatever it has still to delete was in that
\* scope when it was listed, and stays so; and a refresh that takes back what
\* it minted has seen its own row gone, which never comes back.
Aims(d) ==
    /\ d.pc \in SweepPc => d.scope \in {"one", "others"}
    /\ d.pc \in {"revokes", "orphaned"} =>
          \A t \in d.todo : t \in Token /\ t <= minted /\ InScope(row[t].sess, d)
    /\ d.pc = "undo" => d.tok \notin live

AimInv == \A c \in Call : Aims(call[c])

LEMMA AimElsewhere ==
  ASSUME NEW d, d.pc \notin SweepPc \cup {"undo"}
  PROVE  Aims(d)
  BY DEF Aims

\* A step of another call takes no aim away.
LEMMA AimKept ==
  ASSUME TypeOK, RevocationInv, AimInv, Keeps, NEW x \in Call, call'[x] = call[x]
  PROVE  Aims(call[x])'
<1>1. Aims(call[x]) /\ CallInv(call[x]) /\ StoreInv /\ minted <= minted'
      /\ minted \in Nat /\ minted' \in Nat
  BY DEF AimInv, RevocationInv, Keeps
<1>2. ASSUME call[x].pc \in {"revokes", "orphaned"}, NEW t \in call[x].todo
      PROVE  t \in Token /\ t <= minted' /\ InScope(row'[t].sess, call[x])
  <2>1. t \in Token /\ t <= minted /\ InScope(row[t].sess, call[x])
    BY <1>1, <1>2 DEF Aims
  <2>2. row'[t].sess = row[t].sess
    BY <2>1 DEF Keeps, SameOrigin
  <2> QED BY <1>1, <2>1, <2>2
<1>3. ASSUME call[x].pc = "undo" PROVE call[x].tok \notin live'
  <2>1. call[x].tok \notin live /\ call[x].tok \in 1 .. minted
    BY <1>1, <1>3 DEF Aims, CallInv, StoreInv
  <2> QED BY <1>1, <2>1 DEF Keeps
<1> QED BY <1>1, <1>2, <1>3 DEF Aims, InScope

LEMMA AimOwn ==
  ASSUME TypeOK, RevocationInv, AimInv, NEW c \in Call, Acts(c), Keeps
  PROVE  Aims(call[c])'
<1> USE IdleBlank
<1>0. call[c] \in CallState /\ Aims(call[c]) /\ StoreInv /\ minted \in Nat /\ minted' \in Nat
      /\ minted <= minted'
  BY DEF TypeOK, AimInv, RevocationInv, Keeps
<1>1. ASSUME call'[c].pc \notin SweepPc \cup {"undo"} PROVE Aims(call[c])'
  BY <1>1 DEF Aims
<1>2. ASSUME call'[c] = Idle PROVE Aims(call[c])'
  BY <1>1, <1>2
<1>3. ASSUME Revoking(call'[c]) PROVE Aims(call[c])'
  BY <1>3 DEF Revoking, Aims
<1>4. CASE StartClient(c)
  <2>1. ASSUME NEW s \in Session, NEW p \in Plans, StartIssue(c, s, p) PROVE Aims(call[c])'
    BY <1>1, <2>1, AfterStartIssue
  <2>2. ASSUME NEW t \in Token, StartRefresh(c, t) PROVE Aims(call[c])'
    BY <1>1, <2>2, AfterStartRefresh
  <2> QED BY <1>4, <2>1, <2>2 DEF StartClient
<1>5. CASE StartRevoker(c)
  BY <1>3, <1>5, AfterStartRevoker
<1>6. CASE FindReplay(c) \/ GraceReplay(c)
  BY <1>3, <1>6, AfterTheft DEF FindReplay, GraceReplay
<1>7. CASE CheckLimit(c) \/ Evict(c)
  BY <1>1, <1>2, <1>7, AfterLimit
<1>8. CASE IssueAccess(c)
  BY <1>1, <1>2, <1>8, AfterIssueAccess
<1>9. CASE FindFresh(c) \/ FindInGrace(c) \/ Stamp(c)
  BY <1>1, <1>9, AfterFindFresh, AfterFindInGrace, AfterStamp
<1>10. CASE MintAccess(c)
  BY <1>1, <1>10, AfterMintAccess
<1>11. CASE MintRefresh(c)
  BY <1>1, <1>11, AfterMintRefresh
<1>12. CASE RecheckRefuses(c)
  <2>1. call'[c].pc = "undo" /\ call'[c].tok = call[c].tok
    BY <1>12, AfterRecheckRefuses DEF Carries
  <2>2. call[c].tok \notin live /\ live' = live
    BY <1>12 DEF RecheckRefuses
  <2> QED BY <2>1, <2>2 DEF Aims
<1>13. CASE Undo(c)
  <2>1. CASE call'[c].pc = "undo" /\ call'[c].tok = call[c].tok
    <3>1. call[c].tok \notin live /\ live' \subseteq live
      BY <1>0, <1>13 DEF Undo, Aims
    <3> QED BY <2>1, <3>1 DEF Aims
  <2> QED BY <1>2, <1>13, <2>1, AfterUndo DEF Carries
<1>14. CASE SweepPass(c) \/ RevokeRow(c) \/ RevokeRowFails(c) \/ OrphanedRow(c)
  <2>1. \/ call'[c] = Idle
        \/ /\ Carries(call[c], call'[c]) /\ call[c].pc \in SweepPc
           /\ \/ call'[c].pc = "list"
              \/ /\ call'[c].pc \in {"revokes", "orphaned"}
                 /\ \/ call'[c].todo \subseteq MatchedRows(c)
                    \/ /\ call[c].pc \in {"revokes", "orphaned"}
                       /\ call'[c].todo \subseteq call[c].todo
    BY <1>14, AfterSweep
  <2>2. CASE Carries(call[c], call'[c]) /\ call[c].pc \in SweepPc /\ call'[c].pc = "list"
    BY <1>0, <2>2 DEF Aims, Carries
  <2>3. ASSUME Carries(call[c], call'[c]), call[c].pc \in SweepPc,
               call'[c].pc \in {"revokes", "orphaned"},
               \/ call'[c].todo \subseteq MatchedRows(c)
               \/ /\ call[c].pc \in {"revokes", "orphaned"}
                  /\ call'[c].todo \subseteq call[c].todo
        PROVE  Aims(call[c])'
    <3>1. ASSUME NEW t \in call'[c].todo
          PROVE  t \in Token /\ t <= minted' /\ InScope(row'[t].sess, call'[c])
      <4>1. t \in Token /\ t <= minted /\ InScope(row[t].sess, call[c])
        <5>1. CASE t \in MatchedRows(c)
          BY <1>0, <5>1 DEF MatchedRows, StoreInv, TypeOK
        <5>2. CASE call[c].pc \in {"revokes", "orphaned"} /\ t \in call[c].todo
          BY <1>0, <5>2 DEF Aims
        <5> QED BY <2>3, <3>1, <5>1, <5>2
      <4>2. row'[t].sess = row[t].sess
        BY <4>1 DEF Keeps, SameOrigin
      <4>3. InScope(row[t].sess, call'[c])
        BY <2>3, <4>1 DEF Carries, InScope
      <4> QED BY <1>0, <4>1, <4>2, <4>3
    <3>2. call'[c].scope \in {"one", "others"}
      BY <1>0, <2>3 DEF Aims, Carries
    <3> QED BY <2>3, <3>1, <3>2 DEF Aims, InScope
  <2> QED BY <1>2, <2>1, <2>2, <2>3
<1>15. CASE Purge(c) \/ PurgeAgain(c)
  BY <1>1, <1>2, <1>15, AfterPurge
<1>16. CASE \/ FindRefuses(c) \/ GraceHit(c) \/ RecheckReplies(c) \/ SweepDone(c)
            \/ PurgeDone(c) \/ Fail(c) \/ IssueRefresh(c)
  BY <1>2, <1>16, AfterLast
<1> QED
  BY <1>4, <1>5, <1>6, <1>7, <1>8, <1>9, <1>10, <1>11, <1>12, <1>13, <1>14, <1>15, <1>16
  DEF Acts, IssueStep, RefreshStep, RevokeStep

THEOREM AimStep == TypeOK /\ RevocationInv /\ AimInv /\ [Next]_vars => AimInv'
<1> SUFFICES ASSUME TypeOK, RevocationInv, AimInv, [Next]_vars PROVE AimInv'
  OBVIOUS
<1>1. ASSUME NEW c \in Call, Acts(c) PROVE AimInv'
  <2>1. Keeps /\ OthersWait(c)
    BY <1>1, ActsKeep
  <2>2. ASSUME NEW x \in Call PROVE Aims(call[x])'
    <3>1. CASE x = c
      BY <1>1, <2>1, <3>1, AimOwn
    <3>2. CASE x # c
      BY <2>1, <3>2, AimKept DEF OthersWait
    <3> QED BY <3>1, <3>2
  <2> QED BY <2>2 DEF AimInv
<1>2. CASE (\E t \in Token : RevokeToken(t)) \/ Tick \/ UNCHANGED vars
  <2>1. Keeps /\ call' = call
    BY <1>2, IdleKeeps
  <2>2. ASSUME NEW x \in Call PROVE Aims(call[x])'
    BY <2>1, AimKept
  <2> QED BY <2>2 DEF AimInv
<1> QED BY <1>1, <1>2, Actors

\* Why a row may go, see OnlyTargetsDie.
Reason(t) ==
    \/ row[t].exp <= now'
    \/ t \in held /\ UNCHANGED call
    \/ \E c \in Call :
          \/ call[c].pc = "evict" /\ t \in call[c].todo
          \/ call[c].pc = "undo" /\ t \in call[c].todo /\ call[c].tok \notin live
          \/ call[c].pc \in SweepPc /\ call[c].scope = "one" /\ row[t].sess = call[c].sess
          \/ call[c].pc \in SweepPc /\ call[c].scope = "others" /\ row[t].sess # call[c].sess
          \/ call[c].pc = "purge" /\ UserOf[row[t].sess] = UserOf[call[c].sess]

LEMMA RowsDieForAReason ==
  ASSUME TypeOK, RevocationInv, AimInv, [Next]_vars, NEW t \in live \ live'
  PROVE  Reason(t)
<1>0. t \in Token /\ row[t] \in Row /\ now \in Nat
  BY DEF TypeOK
<1>1. ASSUME NEW c \in Call, Acts(c) PROVE Reason(t)
  <2>0. Aims(call[c])
    BY DEF AimInv
  <2>1. CASE Evict(c)
    BY <2>1 DEF Evict, Reason
  <2>2. CASE Undo(c)
    BY <2>0, <2>2 DEF Undo, Aims, Reason
  <2>3. CASE RevokeRow(c) \/ OrphanedRow(c)
    <3>1. call[c].pc \in {"revokes", "orphaned"} /\ t \in call[c].todo
      BY <2>3 DEF RevokeRow, OrphanedRow
    <3>2. InScope(row[t].sess, call[c]) /\ call[c].scope \in {"one", "others"}
      BY <2>0, <3>1 DEF Aims
    <3> QED BY <3>1, <3>2 DEF InScope, Reason
  <2>4. CASE Purge(c)
    BY <2>4 DEF Purge, Rows, Reason
  <2>5. CASE StartClient(c) \/ StartRevoker(c)
    BY <2>5, StartKeeps
  <2>6. CASE IssueAccess(c) \/ IssueRefresh(c) \/ MintAccess(c) \/ MintRefresh(c) \/ Stamp(c)
    <3>1. live \subseteq live'
      BY <2>6 DEF IssueAccess, IssueRefresh, MintAccess, MintRefresh, Stamp, Persist
    <3> QED BY <3>1
  <2>7. CASE \/ CheckLimit(c) \/ FindRefuses(c) \/ FindFresh(c) \/ FindReplay(c)
             \/ FindInGrace(c) \/ GraceReplay(c) \/ RecheckRefuses(c)
             \/ SweepPass(c) \/ RevokeRowFails(c) \/ SweepDone(c) \/ PurgeDone(c)
             \/ PurgeAgain(c) \/ Fail(c) \/ GraceHit(c) \/ RecheckReplies(c)
    <3>1. live' = live
      BY <2>7 DEF CheckLimit, FindRefuses, FindFresh, FindReplay, FindInGrace, GraceReplay,
                  RecheckRefuses, SweepPass, RevokeRowFails, SweepDone, PurgeDone, PurgeAgain,
                  Fail, GraceHit, RecheckReplies
    <3> QED BY <3>1
  <2> QED BY <1>1, <2>1, <2>2, <2>3, <2>4, <2>5, <2>6, <2>7
          DEF Acts, IssueStep, RefreshStep, RevokeStep
<1>2. CASE \E x \in Token : RevokeToken(x)
  BY <1>2 DEF RevokeToken, Reason
<1>3. CASE Tick
  <2>1. now' = now + 1 /\ ~(row[t].exp > now + 1)
    BY <1>3 DEF Tick
  <2>2. row[t].exp \in Nat
    BY <1>0 DEF Row
  <2> QED BY <1>0, <2>1, <2>2 DEF Reason
<1>4. CASE UNCHANGED vars
  BY <1>4 DEF vars
<1> QED BY <1>1, <1>2, <1>3, <1>4, Actors

\* Nobody's session is signed out by mistake: whatever the rotation mode, the
\* limits and the failures, a row leaves the store only when it has expired,
\* was revoked by hand or evicted, is in the scope of a revocation, or was
\* minted by a refresh whose own row had gone.
THEOREM RowsOnlyDieForAReason == Spec => OnlyTargetsDie
<1>1. Init => AimInv
  BY IdleBlank DEF Init, AimInv, Aims
<1>2. TypeOK /\ RevocationInv /\ AimInv /\ [Next]_vars => AimInv'
  BY AimStep
<1>3. TypeOK /\ RevocationInv /\ AimInv /\ [Next]_vars =>
        [\A t \in live \ live' :
          \/ row[t].exp <= now'
          \/ t \in held /\ UNCHANGED call
          \/ \E c \in Call :
                \/ call[c].pc = "evict" /\ t \in call[c].todo
                \/ call[c].pc = "undo" /\ t \in call[c].todo /\ call[c].tok \notin live
                \/ call[c].pc \in SweepPc /\ call[c].scope = "one"
                      /\ row[t].sess = call[c].sess
                \/ call[c].pc \in SweepPc /\ call[c].scope = "others"
                      /\ row[t].sess # call[c].sess
                \/ call[c].pc = "purge" /\ UserOf[row[t].sess] = UserOf[call[c].sess]]_vars
  BY RowsDieForAReason DEF Reason
<1> QED BY <1>1, <1>2, <1>3, InvCorrect, PTL DEF Spec, OnlyTargetsDie
-----------------------------------------------------------------------------
(* The ceiling of a fixed-ceiling family.                                  *)

\* When no call outlives a tick of the clock, a refresh works at the time it
\* captured, on a row within its ceiling.
Punctual(d) ==
    /\ d.pc \in {"find", "mintAccess", "mintRefresh"} => d.at = now
    /\ d.pc \in {"mintAccess", "mintRefresh"} /\ RotationOf(d.tok) = "always" =>
          row[d.tok].exp <= row[d.tok].ceiling

CeilingInv == CeilingHolds /\ \A c \in Call : Punctual(call[c])

LEMMA PunctualElsewhere ==
  ASSUME NEW c \in Call, call'[c].pc \notin {"find", "mintAccess", "mintRefresh"}
  PROVE  Punctual(call[c])'
  BY DEF Punctual

LEMMA SameRotation ==
  ASSUME Keeps, NEW t \in Token, t <= minted
  PROVE  /\ RotationOf(t)' = RotationOf(t)
         /\ row'[t].exp = row[t].exp /\ row'[t].ceiling = row[t].ceiling
         /\ row'[t].kind = row[t].kind
  BY DEF Keeps, SameOrigin, RotationOf

\* The token a refresh was given was minted, so its row is one that keeps.
LEMMA TokMinted ==
  ASSUME TypeOK, RevocationInv, NEW x \in Call, call[x].pc \in RefreshPc
  PROVE  call[x].tok \in Token /\ call[x].tok <= minted /\ call[x].tok \in held
  BY DEF TypeOK, RevocationInv, CallInv, StoreInv

LEMMA PunctualKept ==
  ASSUME TypeOK, RevocationInv, CeilingInv, Keeps, NEW x \in Call, call'[x] = call[x],
         now' = now \/ call[x].pc = "idle"
  PROVE  Punctual(call[x])'
<1>1. CASE call[x].pc \in {"find", "mintAccess", "mintRefresh"}
  <2>1. Punctual(call[x]) /\ now' = now
    BY <1>1 DEF CeilingInv
  <2> PICK o : o = call[x].tok
    OBVIOUS
  <2>2. o \in Token /\ o <= minted
    BY <1>1, TokMinted
  <2>3. /\ RotationOf(o)' = RotationOf(o)
        /\ row'[o].exp = row[o].exp /\ row'[o].ceiling = row[o].ceiling
    BY <2>2, SameRotation
  <2> QED BY <2>1, <2>3 DEF Punctual, RotationOf
<1>2. CASE call[x].pc \notin {"find", "mintAccess", "mintRefresh"}
  BY <1>2, PunctualElsewhere
<1> QED BY <1>1, <1>2

\* What the first persisted row of a step must satisfy.
LEMMA CeilingKept ==
  ASSUME TypeOK, RevocationInv, CeilingHolds, Keeps,
         \A t \in live' : t > minted /\ row'[t].kind = "refresh"
                          /\ (row'[t].perMint \/ Rotation = "always")
                          => row'[t].exp <= row'[t].ceiling
  PROVE  CeilingHolds'
<1>1. ASSUME NEW t \in live', row'[t].kind = "refresh", RotationOf(t)' = "always"
      PROVE  row'[t].exp <= row'[t].ceiling
  <2>1. CASE t > minted
    BY <1>1, <2>1 DEF RotationOf
  <2>2. CASE ~(t > minted)
    <3>1. t \in live /\ minted \in Nat
      BY <2>2 DEF Keeps
    <3>2. t \in Token
      BY <3>1 DEF TypeOK
    <3>3. t <= minted
      BY <2>2, <3>1, <3>2
    <3> QED BY <1>1, <3>1, <3>2, <3>3, SameRotation DEF CeilingHolds
  <2> QED BY <2>1, <2>2
<1> QED BY <1>1 DEF CeilingHolds

LEMMA CeilingActs ==
  ASSUME TypeOK, RevocationInv, CeilingInv, NEW c \in Call, Acts(c)
  PROVE  CeilingInv'
<1>0. Keeps /\ now' = now /\ OthersWait(c) /\ CeilingHolds /\ Punctual(call[c])
      /\ now \in Nat /\ StoreInv
  BY ActsKeep DEF CeilingInv, TypeOK, RevocationInv
<1>1. ASSUME Punctual(call[c])' PROVE \A x \in Call : Punctual(call[x])'
  BY <1>0, <1>1, PunctualKept DEF OthersWait
<1>2. ASSUME call'[c].pc \notin {"find", "mintAccess", "mintRefresh"}
      PROVE  \A x \in Call : Punctual(call[x])'
  BY <1>1, <1>2, PunctualElsewhere
<1>3. ASSUME live' \subseteq live PROVE CeilingHolds'
  <2>1. \A t \in live' : ~(t > minted)
    BY <1>0, <1>3 DEF StoreInv, TypeOK
  <2> QED BY <1>0, <2>1, CeilingKept
<1>4. CASE StartClient(c)
  <2>1. CeilingHolds'
    BY <1>3, <1>4, StartKeeps
  <2>2. ASSUME NEW s \in Session, NEW p \in Plans, StartIssue(c, s, p)
        PROVE  \A x \in Call : Punctual(call[x])'
    BY <1>2, <2>2, AfterStartIssue
  <2>3. ASSUME NEW t \in Token, StartRefresh(c, t) PROVE Punctual(call[c])'
    BY <1>0, <2>3, AfterStartRefresh DEF Punctual
  <2> QED BY <1>1, <1>4, <2>1, <2>2, <2>3 DEF StartClient, CeilingInv
<1>5. CASE StartRevoker(c)
  <2>1. live' \subseteq live /\ Revoking(call'[c])
    BY <1>5, StartKeeps, AfterStartRevoker
  <2> QED BY <1>2, <1>3, <2>1 DEF Revoking, CeilingInv
<1>6. CASE FindFresh(c)
  <2>1. call'[c].pc = "mintAccess" /\ call'[c].at = call[c].at /\ call'[c].tok = call[c].tok
    BY <1>6, AfterFindFresh DEF Carries
  <2>2. call[c].tok \in live /\ row[call[c].tok].kind = "refresh" /\ row' = row /\ live' = live
        /\ call[c].pc = "find"
    BY <1>6 DEF FindFresh, FoundRefresh
  <2>3. RotationOf(call[c].tok) = "always" => row[call[c].tok].exp <= row[call[c].tok].ceiling
    BY <1>0, <2>2 DEF CeilingHolds
  <2>4. call[c].at = now
    BY <1>0, <2>2 DEF Punctual
  <2>5. Punctual(call[c])'
    BY <1>0, <2>1, <2>2, <2>3, <2>4 DEF Punctual, RotationOf
  <2> QED BY <1>1, <1>3, <2>2, <2>5 DEF CeilingInv
<1>7. CASE MintAccess(c)
  <2>1. PICK t \in Token :
          /\ Minted(t, row[call[c].tok].sess, "access", row[call[c].tok].perMint,
                    row[call[c].tok].ceiling, AccessTtl)
          /\ call'[c].tok = call[c].tok /\ call'[c].at = call[c].at
    BY <1>7, AfterMintAccess
  <2> PICK o : o = call[c].tok
    OBVIOUS
  <2>2. call[c].pc = "mintAccess" /\ o \in Token /\ o <= minted
    BY <1>7, TokMinted DEF MintAccess
  <2>3. call[c].at = now /\ (RotationOf(o) = "always" => row[o].exp <= row[o].ceiling)
    BY <1>0, <2>2 DEF Punctual
  <2>4. /\ RotationOf(o)' = RotationOf(o)
        /\ row'[o].exp = row[o].exp /\ row'[o].ceiling = row[o].ceiling
    BY <1>0, <2>2, SameRotation
  <2>5. Punctual(call[c])'
    BY <1>0, <2>1, <2>3, <2>4 DEF Punctual, RotationOf
  <2>6. \A x \in live' : x > minted => row'[x].kind # "refresh"
    BY <1>0, <2>1 DEF Minted, StoreInv
  <2>7. CeilingHolds'
    BY <1>0, <2>6, CeilingKept
  <2> QED BY <1>1, <2>5, <2>7 DEF CeilingInv
<1>8. CASE MintRefresh(c)
  <2>1. PICK t \in Token :
          /\ Minted(t, row[call[c].tok].sess, "refresh", row[call[c].tok].perMint,
                    row[call[c].tok].ceiling, RotatedTtl(call[c].tok, call[c].at))
          /\ call'[c].pc = "stamp"
    BY <1>8, AfterMintRefresh
  <2>2. call[c].pc = "mintRefresh" /\ call[c].tok \in Token
    BY <1>8, TokMinted DEF MintRefresh
  <2>3. /\ call[c].at = now
        /\ RotationOf(call[c].tok) = "always" => row[call[c].tok].exp <= row[call[c].tok].ceiling
    BY <1>0, <2>2 DEF Punctual
  <2>4. row[call[c].tok].exp \in Nat /\ row[call[c].tok].ceiling \in Nat
    BY <2>2 DEF TypeOK, Row
  <2>5. ASSUME NEW x \in live', x > minted, row'[x].kind = "refresh",
               row'[x].perMint \/ Rotation = "always"
        PROVE  row'[x].exp <= row'[x].ceiling
    <3>1. x = t /\ RotatedTtl(call[c].tok, call[c].at) > 0
      BY <1>0, <2>1, <2>5 DEF Minted, StoreInv
    <3>2. RotationOf(call[c].tok) = "always"
      BY <2>1, <2>5, <3>1 DEF Minted, RotationOf
    <3>3. RotatedTtl(call[c].tok, call[c].at) = row[call[c].tok].exp - now
      BY <2>3, <3>1, <3>2 DEF RotatedTtl
    <3>4. row'[t].exp = row[call[c].tok].exp /\ row'[t].ceiling = row[call[c].tok].ceiling
      BY <1>0, <2>1, <2>4, <3>3 DEF Minted
    <3> QED BY <2>3, <3>1, <3>2, <3>4
  <2>6. CeilingHolds'
    BY <1>0, <2>5, CeilingKept
  <2> QED BY <1>2, <2>1, <2>6 DEF CeilingInv
<1>9. CASE IssueAccess(c)
  <2>1. PICK t \in Token :
          /\ Minted(t, call[c].sess, "access", call[c].plan = "perMint",
                    call[c].at + RefreshTtl, AccessTtl)
          /\ call'[c] = Idle \/ call'[c].pc = "issueRefresh"
    BY <1>9, AfterIssueAccess
  <2>2. \A x \in live' : x > minted => row'[x].kind # "refresh"
    BY <1>0, <2>1 DEF Minted, StoreInv
  <2>3. CeilingHolds'
    BY <1>0, <2>2, CeilingKept
  <2> QED BY <1>2, <2>1, <2>3, IdleBlank DEF CeilingInv
<1>10. CASE IssueRefresh(c)
  <2>1. PICK t \in Token :
          Minted(t, call[c].sess, "refresh", call[c].plan = "perMint",
                 now + RefreshTtl, RefreshTtl)
    BY <1>10, IssueRefreshRow
  <2>2. \A x \in live' : x > minted => row'[x].exp <= row'[x].ceiling
    BY <1>0, <2>1, ConfigAssumption DEF Minted, StoreInv
  <2>3. CeilingHolds'
    BY <1>0, <2>2, CeilingKept
  <2> QED BY <1>2, <1>10, <2>3, AfterLast, IdleBlank DEF CeilingInv
<1>11. CASE Stamp(c)
  <2>1. live' = live
    BY <1>11 DEF Stamp
  <2> QED BY <1>2, <1>3, <1>11, <2>1, AfterStamp DEF CeilingInv
<1>12. CASE \/ CheckLimit(c) \/ Evict(c) \/ FindReplay(c) \/ GraceReplay(c) \/ FindInGrace(c)
            \/ RecheckRefuses(c) \/ Undo(c) \/ SweepPass(c) \/ RevokeRow(c) \/ RevokeRowFails(c)
            \/ OrphanedRow(c) \/ Purge(c) \/ PurgeAgain(c) \/ FindRefuses(c) \/ GraceHit(c)
            \/ RecheckReplies(c) \/ SweepDone(c) \/ PurgeDone(c) \/ Fail(c)
  <2>1. live' \subseteq live
    BY <1>12, QuietActs
  <2>2. call'[c].pc \notin {"find", "mintAccess", "mintRefresh"}
    <3>1. CASE FindReplay(c) \/ GraceReplay(c)
      BY <3>1, AfterTheft DEF FindReplay, GraceReplay, Revoking
    <3>2. CASE CheckLimit(c) \/ Evict(c) \/ FindInGrace(c) \/ RecheckRefuses(c) \/ Undo(c)
      BY <3>2, IdleBlank, AfterLimit, AfterFindInGrace, AfterRecheckRefuses, AfterUndo
    <3>3. CASE SweepPass(c) \/ RevokeRow(c) \/ RevokeRowFails(c) \/ OrphanedRow(c)
      BY <3>3, IdleBlank, AfterSweep
    <3>4. CASE \/ Purge(c) \/ PurgeAgain(c) \/ FindRefuses(c) \/ GraceHit(c)
               \/ RecheckReplies(c) \/ SweepDone(c) \/ PurgeDone(c) \/ Fail(c)
      BY <3>4, IdleBlank, AfterPurge, AfterLast
    <3> QED BY <1>12, <3>1, <3>2, <3>3, <3>4
  <2> QED BY <1>2, <1>3, <2>1, <2>2 DEF CeilingInv
<1> QED
  BY <1>4, <1>5, <1>6, <1>7, <1>8, <1>9, <1>10, <1>11, <1>12
  DEF Acts, IssueStep, RefreshStep, RevokeStep

THEOREM CeilingStep ==
  ASSUME SlowCalls = FALSE, TypeOK, RevocationInv, CeilingInv, [Next]_vars
  PROVE  CeilingInv'
<1>1. ASSUME NEW c \in Call, Acts(c) PROVE CeilingInv'
  BY <1>1, CeilingActs
<1>2. CASE (\E t \in Token : RevokeToken(t)) \/ Tick \/ UNCHANGED vars
  <2>1. Keeps /\ call' = call /\ live' \subseteq live
    BY <1>2, IdleKeeps
  <2>2. ASSUME NEW x \in Call PROVE now' = now \/ call[x].pc = "idle"
    BY <1>2 DEF RevokeToken, Tick, vars
  <2>3. \A x \in Call : Punctual(call[x])'
    BY <2>1, <2>2, PunctualKept
  <2>4. \A t \in live' : ~(t > minted)
    BY <2>1 DEF RevocationInv, StoreInv, TypeOK
  <2>5. CeilingHolds'
    BY <2>1, <2>4, CeilingKept DEF CeilingInv
  <2> QED BY <2>3, <2>5 DEF CeilingInv
<1> QED BY <1>1, <1>2, Actors

\* A fixed-ceiling family never outlives the expiry its refresh token was
\* issued with, however often it is rotated, when a call is over before the
\* clock moves (a slow call may exceed the ceiling by what it was slow).
THEOREM CeilingIsKept ==
  ASSUME SlowCalls = FALSE
  PROVE  Spec => []CeilingHolds
<1>1. Init => CeilingInv
  BY IdleBlank DEF Init, CeilingInv, CeilingHolds, Punctual
<1>2. TypeOK /\ RevocationInv /\ CeilingInv /\ [Next]_vars => CeilingInv'
  BY CeilingStep
<1>3. CeilingInv => CeilingHolds
  BY DEF CeilingInv
<1> QED BY <1>1, <1>2, <1>3, InvCorrect, PTL DEF Spec
-----------------------------------------------------------------------------
(* One successor line per session.                                         *)

\* A client holds t, or a grace hit would hand it out.
Deliverable(t) == t \in held \/ \E x \in Token : row[x].succR = t

\* The refresh tokens somebody can rotate from, now or after a grace hit.
Heirs == {t \in live : row[t].kind = "refresh" /\ row[t].rotatedAt = Never /\ Deliverable(t)}

\* The store: a session has one heir, and only an issued session has refresh
\* rows at all; a rotated row was rotated under a rotating configuration and
\* names an access token with its successor.
LineInv ==
    /\ \A t, u \in Heirs : row[t].sess = row[u].sess => t = u
    /\ \A t \in Token : t <= minted /\ row[t].kind = "refresh" => row[t].sess \in issued
    /\ \A t \in Token : row[t].succA # None => row[row[t].succA].kind = "access"
    /\ \A t \in Token : row[t].rotatedAt # Never => RotationOf(t) # "none"

\* The clients keep one refresh per session in flight.
OneFlight ==
    \A c, d \in Call :
        /\ call[c].pc \in RefreshPc /\ call[d].pc \in RefreshPc
        /\ row[call[c].tok].sess = row[call[d].tok].sess
        => c = d

\* A call in state d: a refresh that mints found a refresh row nobody has
\* rotated and, until it has stamped it, nobody does; afterwards the row names
\* the pair it will reply with; and a token that was superseded when it was
\* presented stays so and gets no further than the look at its successor.
Flies(d) ==
    /\ d.a # None => row[d.a].kind = "access"
    /\ d.pc \in {"mintAccess", "mintRefresh", "stamp"} => row[d.tok].kind = "refresh"
    /\ d.pc \in {"mintRefresh", "stamp"} =>
          RotationOf(d.tok) # "none" /\ row[d.tok].rotatedAt = Never
    /\ d.pc = "mintAccess" => RotationOf(d.tok) = "none" \/ row[d.tok].rotatedAt = Never
    /\ d.pc \in IssuePc \cup {"find", "mintAccess", "mintRefresh"} => d.r = None
    /\ d.pc = "recheck" /\ d.tok \in live => d.r \in {None, row[d.tok].succR}
    /\ d.pc = "successor" => d.r = row[d.tok].succR
    /\ d.stale => d.pc \in {"find", "successor"} /\ Superseded(d.tok)

FlightInv == LineInv /\ OneFlight /\ \A c \in Call : Flies(call[c])

\* A call that has nothing to do with refresh tokens.
LEMMA FliesElsewhere ==
  ASSUME NEW c \in Call, call'[c].pc \notin RefreshPc \ {"undo"},
         call'[c].pc \in IssuePc => call'[c].r = None,
         ~call'[c].stale, call'[c].a # None => row'[call'[c].a].kind = "access"
  PROVE  Flies(call[c])'
<1>1. call'[c].pc \notin {"find", "successor", "mintAccess", "mintRefresh", "stamp", "recheck"}
  OBVIOUS
<1> QED BY <1>1 DEF Flies

LEMMA FliesBlank ==
  ASSUME NEW c \in Call, Blank(call'[c]), call'[c].pc \notin RefreshPc
  PROVE  Flies(call[c])'
  BY FliesElsewhere DEF Blank

\* A superseded token stays superseded as long as its own row keeps its mark.
LEMMA SupersededStays ==
  ASSUME TypeOK, RevocationInv, Keeps, NEW t \in Token, Superseded(t),
         row'[t].rotatedAt # Never, row'[t].succR = row[t].succR,
         \A x \in Token : x <= minted /\ row[x].rotatedAt # Never => row'[x].rotatedAt # Never
  PROVE  Superseded(t)'
<1> PICK u : u = row[t].succR
  OBVIOUS
<1>1. u \in Token \cup {None} /\ u <= minted /\ minted \in Nat
  <2>1. row[t] \in Row
    BY DEF TypeOK
  <2> QED BY <2>1 DEF Row, Keeps, RevocationInv, StoreInv
<1>2. u \notin live => u \notin live'
  BY <1>1 DEF Keeps
<1>3. CASE u \notin live
  BY <1>2, <1>3 DEF Superseded
<1>4. CASE u \in live
  <2>1. u \in Token /\ row[u].rotatedAt # Never
    BY <1>4 DEF Superseded, TypeOK
  <2> QED BY <1>1, <2>1 DEF Superseded
<1> QED BY <1>3, <1>4

\* The rows a call speaks of.
LEMMA CallRows ==
  ASSUME TypeOK, RevocationInv, NEW x \in Call
  PROVE  /\ call[x].a \in Token \cup {None} /\ call[x].r \in Token \cup {None}
         /\ call[x].a <= minted /\ call[x].r <= minted /\ minted \in Nat
         /\ call[x].pc \in IssuePc => call[x].r = None
<1>1. call[x] \in CallState /\ minted \in Nat
  BY DEF TypeOK
<1>2. CallInv(call[x])
  BY DEF RevocationInv
<1>3. call[x].a \in Token \cup {None} /\ call[x].r \in Token \cup {None}
  BY <1>1 DEF CallState
<1> QED BY <1>1, <1>2, <1>3 DEF CallInv

\* A step of another call that leaves this call's row unmarked leaves it
\* flying.
LEMMA FliesKept ==
  ASSUME TypeOK, RevocationInv, FlightInv, Keeps, NEW x \in Call, call'[x] = call[x],
         call[x].pc \in RefreshPc => row'[call[x].tok] = row[call[x].tok],
         \A t \in Token : t <= minted /\ row[t].rotatedAt # Never => row'[t].rotatedAt # Never
  PROVE  Flies(call[x])'
<1>0. Flies(call[x])
  BY DEF FlightInv
<1>1. call[x].a # None => row'[call[x].a].kind = "access"
  <2> PICK u : u = call[x].a
    OBVIOUS
  <2>1. u # None => u \in Token /\ u <= minted
    BY CallRows
  <2> QED BY <1>0, <2>1 DEF Flies, Keeps, SameOrigin
<1>2. CASE call[x].pc \in RefreshPc
  <2> PICK o : o = call[x].tok
    OBVIOUS
  <2>1. o \in Token /\ o <= minted /\ row'[o] = row[o] /\ minted \in Nat
    BY <1>2, TokMinted DEF Keeps
  <2>2. RotationOf(o)' = RotationOf(o)
    BY <2>1 DEF RotationOf
  <2>3. o \in live' => o \in live
    BY <2>1 DEF Keeps
  <2>4. Superseded(o) => Superseded(o)'
    <3>1. Superseded(o) => row[o].rotatedAt # Never
      BY DEF Superseded
    <3> QED BY <2>1, <3>1, SupersededStays
  <2> QED BY <1>0, <1>1, <2>1, <2>2, <2>3, <2>4 DEF Flies, RotationOf, Superseded
<1>3. CASE call[x].pc \notin RefreshPc
  <2>1. ~call[x].stale
    BY <1>0, <1>3 DEF Flies
  <2>2. call[x].pc \in IssuePc => call[x].r = None
    BY CallRows
  <2> QED BY <1>1, <1>3, <2>1, <2>2, FliesElsewhere
<1> QED BY <1>2, <1>3

\* No call but the one that starts a refresh enters one.
LEMMA OneFlightKept ==
  ASSUME TypeOK, RevocationInv, OneFlight, Keeps, NEW c \in Call, OthersWait(c),
         call'[c].pc \in RefreshPc => call[c].pc \in RefreshPc /\ call'[c].tok = call[c].tok
  PROVE  OneFlight'
<1>1. ASSUME NEW x \in Call, call'[x].pc \in RefreshPc
      PROVE  /\ call[x].pc \in RefreshPc /\ call'[x].tok = call[x].tok
             /\ row'[call[x].tok].sess = row[call[x].tok].sess
  <2>1. call[x].pc \in RefreshPc /\ call'[x].tok = call[x].tok
    BY <1>1 DEF OthersWait
  <2>2. call[x].tok \in Token /\ call[x].tok <= minted
    BY <2>1, TokMinted
  <2> QED BY <2>1, <2>2 DEF Keeps, SameOrigin
<1> QED BY <1>1 DEF OneFlight

\* Handing out what was deliverable already, or an access token, or the first
\* refresh token of a session, gives no session a second heir.
LEMMA HeirsKept ==
  ASSUME TypeOK, RevocationInv, LineInv, Keeps,
         \A t \in Token : row'[t].succR \in {None, row[t].succR},
         \A t \in Token : t <= minted => row'[t].rotatedAt = row[t].rotatedAt,
         \A t \in held' \ held :
            \/ row'[t].kind = "access"
            \/ \E x \in Token : row[x].succR = t
            \/ t = minted' /\ row'[t].sess \notin issued
  PROVE  \A t, u \in Heirs' : row'[t].sess = row'[u].sess => t = u
<1>0. /\ StoreInv /\ minted \in Nat /\ minted' \in Nat /\ minted <= minted'
      /\ None \notin live
  BY DEF RevocationInv, Keeps, StoreInv, TypeOK
<1>1. \A x \in Token : row'[x].succR \in Token \cup {None} /\ row'[x].succR <= minted
  BY <1>0 DEF StoreInv, TypeOK, Row
<1>2. ASSUME NEW t \in Heirs'
      PROVE  \/ t \in Heirs /\ t <= minted
             \/ t = minted' /\ row'[t].sess \notin issued
  <2>1. /\ t \in live' /\ row'[t].kind = "refresh" /\ row'[t].rotatedAt = Never
        /\ t \in held' \/ \E x \in Token : row'[x].succR = t
    BY <1>2 DEF Heirs, Deliverable
  <2>2. t # None
    BY <1>0, <2>1 DEF Keeps
  <2>3. CASE t \in live
    <3>1. t \in Token /\ t <= minted
      BY <1>0, <2>3 DEF StoreInv, TypeOK
    <3>2. row[t].kind = "refresh" /\ row[t].rotatedAt = Never /\ row'[t].sess = row[t].sess
      BY <2>1, <3>1 DEF Keeps, SameOrigin
    <3>3. (\E x \in Token : row'[x].succR = t) => \E x \in Token : row[x].succR = t
      BY <2>2
    <3>4. t = minted' => row'[t].sess \in issued
      BY <3>1, <3>2 DEF LineInv
    <3>5. Deliverable(t)
      BY <2>1, <3>3, <3>4 DEF Deliverable
    <3> QED BY <2>3, <3>1, <3>2, <3>5 DEF Heirs
  <2>4. CASE t \notin live
    <3>1. t > minted
      BY <2>1, <2>4 DEF Keeps
    <3>2. t \in held' /\ t \notin held
      <4>1. ASSUME NEW x \in Token, row'[x].succR = t PROVE FALSE
        <5>1. t \in Int /\ t <= minted
          BY <1>1, <4>1
        <5> QED BY <1>0, <3>1, <5>1
      <4>2. held \subseteq 1 .. minted
        BY <1>0 DEF StoreInv
      <4>3. ASSUME t \in held PROVE FALSE
        <5>1. t \in Int /\ t <= minted /\ minted \in Int
          BY <1>0, <4>2, <4>3
        <5> QED BY <3>1, <5>1
      <4> QED BY <2>1, <4>1, <4>3
    <3>3. \A x \in Token : row[x].succR # t
      <4>1. ASSUME NEW x \in Token, row[x].succR = t PROVE FALSE
        <5>1. row[x] \in Row
          BY DEF TypeOK
        <5>2. t \in Int /\ t <= minted
          BY <1>0, <4>1, <5>1 DEF Row, StoreInv
        <5> QED BY <1>0, <3>1, <5>2
      <4> QED BY <4>1
    <3> QED BY <2>1, <3>2, <3>3
  <2> QED BY <2>3, <2>4
<1>3. \A t \in Heirs : t \in Token /\ row[t].kind = "refresh"
  BY DEF Heirs, TypeOK
<1>4. \A t \in Heirs : t <= minted => row'[t].sess = row[t].sess /\ row[t].sess \in issued
  BY <1>3 DEF LineInv, Keeps, SameOrigin
<1> QED BY <1>2, <1>4 DEF LineInv

\* Nothing is written.
LEMMA LineQuiet ==
  ASSUME TypeOK, RevocationInv, LineInv, Keeps, row' = row, minted' = minted,
         \A t \in held' \ held : row[t].kind = "access" \/ \E x \in Token : row[x].succR = t
  PROVE  LineInv'
<1>1. \A t, u \in Heirs' : row'[t].sess = row'[u].sess => t = u
  BY HeirsKept
<1>2. /\ \A t \in Token : t <= minted' /\ row'[t].kind = "refresh" => row'[t].sess \in issued'
      /\ \A t \in Token : row'[t].succA # None => row'[row'[t].succA].kind = "access"
  BY DEF LineInv, Keeps
<1>3. \A t \in Token : row'[t].rotatedAt # Never => RotationOf(t)' # "none"
  BY DEF LineInv, RotationOf
<1> QED BY <1>1, <1>2, <1>3 DEF LineInv

\* A row is written under a fresh token.
LEMMA LineMint ==
  ASSUME TypeOK, RevocationInv, LineInv, Keeps,
         NEW n \in Token, NEW s, NEW k, NEW p, NEW e, NEW ttl, Minted(n, s, k, p, e, ttl),
         k = "refresh" => s \in issued',
         \A t \in held' \ held : row'[t].kind = "access" \/ (t = n /\ s \notin issued)
  PROVE  LineInv'
<1>0. /\ minted \in Nat /\ n = minted + 1 /\ minted' = n
      /\ \A x \in Token : x # n => row'[x] = row[x]
      /\ row'[n].sess = s /\ row'[n].kind = k /\ row'[n].rotatedAt = Never
      /\ row'[n].succA = None /\ row'[n].succR = None
  BY DEF Minted
<1>1. \A t, u \in Heirs' : row'[t].sess = row'[u].sess => t = u
  <2>1. \A t \in Token : row'[t].succR \in {None, row[t].succR}
    BY <1>0
  <2>2. \A t \in Token : t <= minted => row'[t].rotatedAt = row[t].rotatedAt
    BY <1>0
  <2>3. \A t \in held' \ held :
            \/ row'[t].kind = "access"
            \/ t = minted' /\ row'[t].sess \notin issued
    BY <1>0
  <2> QED BY <2>1, <2>2, <2>3, HeirsKept
<1>2. \A t \in Token : t <= minted' /\ row'[t].kind = "refresh" => row'[t].sess \in issued'
  BY <1>0 DEF LineInv, Keeps
<1>3. ASSUME NEW t \in Token, row'[t].succA # None PROVE row'[row'[t].succA].kind = "access"
  <2> PICK u : u = row[t].succA
    OBVIOUS
  <2>1. t # n /\ row'[t].succA = u /\ u # None
    BY <1>0, <1>3
  <2>2. row[t] \in Row
    BY DEF TypeOK
  <2>3. u \in Token /\ u <= minted
    BY <2>1, <2>2 DEF Row, RevocationInv, StoreInv
  <2> QED BY <1>0, <2>1, <2>3 DEF LineInv
<1>4. \A t \in Token : row'[t].rotatedAt # Never => RotationOf(t)' # "none"
  BY <1>0 DEF LineInv, RotationOf
<1> QED BY <1>1, <1>2, <1>3, <1>4 DEF LineInv

\* The presented row is marked: its successor takes its place as the heir.
LEMMA LineStamp ==
  ASSUME TypeOK, RevocationInv, FlightInv, NEW c \in Call, Stamp(c), Keeps
  PROVE  LineInv'
<1> PICK o, a, r, at : o = call[c].tok /\ a = call[c].a /\ r = call[c].r /\ at = call[c].at
  OBVIOUS
<1>0. LineInv /\ Flies(call[c]) /\ StoreInv /\ CallInv(call[c]) /\ call[c].pc = "stamp"
      /\ UNCHANGED <<live, minted, held, issued>>
  BY DEF FlightInv, RevocationInv, Stamp
<1>1. CASE row' = row
  BY <1>0, <1>1, LineQuiet
<1>2. CASE row' # row
  <2>1. /\ o \in live /\ row'[o].rotatedAt = at /\ row'[o].succA = a /\ row'[o].succR = r
        /\ \A x \in Token : x # o => row'[x] = row[x]
        /\ \A x \in Token : SameOrigin(x)
    BY <1>2, StampRow DEF Stamped
  <2>2. o \in Token /\ o <= minted /\ o \in held /\ at \in Nat
    BY <1>0, TokMinted DEF TypeOK, CallState
  <2>3. /\ row[o].kind = "refresh" /\ RotationOf(o) # "none" /\ row[o].rotatedAt = Never
        /\ a # None => row[a].kind = "access"
    BY <1>0 DEF Flies
  <2>4. a \in Token \cup {None} /\ r \in Token \cup {None} /\ r <= minted /\ minted \in Nat
    BY CallRows
  <2>5. r # None => row[r].sess = row[o].sess
    BY <1>0 DEF CallInv
  <2>6. o \in Heirs
    BY <2>1, <2>2, <2>3 DEF Heirs, Deliverable
  <2>7. ASSUME NEW t \in Heirs'
        PROVE  t \in Token /\ t # o /\ (t \in Heirs \/ (t = r /\ t # None))
    <3>1. /\ t \in live /\ row'[t].kind = "refresh" /\ row'[t].rotatedAt = Never
          /\ t \in held \/ \E x \in Token : row'[x].succR = t
      BY <1>0, <2>7 DEF Heirs, Deliverable
    <3>2. t \in Token /\ t # None
      <4>1. live \subseteq Token
        BY DEF TypeOK
      <4> QED BY <3>1, <4>1
    <3>3. t # o
      BY <2>1, <2>2, <3>1
    <3>4. row[t].kind = "refresh" /\ row[t].rotatedAt = Never
      BY <2>1, <3>1, <3>2, <3>3
    <3>5. ASSUME NEW x \in Token, row'[x].succR = t, t # r PROVE row[x].succR = t
      BY <2>1, <3>5
    <3> QED BY <3>1, <3>2, <3>3, <3>4, <3>5 DEF Heirs, Deliverable
  <2>8. ASSUME NEW t \in Heirs', NEW u \in Heirs', row'[t].sess = row'[u].sess
        PROVE  t = u
    <3>1. row[t].sess = row[u].sess
      BY <2>1, <2>7, <2>8 DEF SameOrigin
    <3>2. \A x \in Heirs : row[x].sess = row[o].sess => x = o
      BY <1>0, <2>6 DEF LineInv
    <3>3. CASE t \in Heirs /\ u \in Heirs
      BY <1>0, <3>1, <3>3 DEF LineInv
    <3>4. CASE t = r /\ u = r
      BY <3>4
    <3>5. CASE t \in Heirs /\ u = r /\ u # None
      BY <2>5, <2>7, <3>1, <3>2, <3>5
    <3>6. CASE u \in Heirs /\ t = r /\ t # None
      BY <2>5, <2>7, <3>1, <3>2, <3>6
    <3> QED BY <2>7, <3>3, <3>4, <3>5, <3>6
  <2>9. \A t \in Token : t <= minted' /\ row'[t].kind = "refresh" => row'[t].sess \in issued'
    BY <1>0, <2>1 DEF LineInv, SameOrigin
  <2>10. ASSUME NEW t \in Token, row'[t].succA # None PROVE row'[row'[t].succA].kind = "access"
    <3> PICK u : u = row'[t].succA
      OBVIOUS
    <3>1. row[t] \in Row
      BY DEF TypeOK
    <3>2. u \in Token /\ row[u].kind = "access"
      <4>1. CASE t = o
        BY <2>1, <2>3, <2>4, <2>10, <4>1
      <4>2. CASE t # o
        BY <1>0, <2>1, <2>10, <3>1, <4>2 DEF Row, LineInv
      <4> QED BY <4>1, <4>2
    <3> QED BY <2>1, <3>2 DEF SameOrigin
  <2>11. \A t \in Token : row'[t].rotatedAt # Never => RotationOf(t)' # "none"
    BY <1>0, <2>1, <2>3 DEF LineInv, RotationOf, SameOrigin
  <2> QED BY <2>8, <2>9, <2>10, <2>11 DEF LineInv
<1> QED BY <1>1, <1>2

\* One step of one call: what its own record and the store must satisfy.
LEMMA FlightStep ==
  ASSUME TypeOK, RevocationInv, FlightInv, Keeps, NEW c \in Call, OthersWait(c),
         LineInv', OneFlight', Flies(call[c])',
         \A x \in Call \ {c} : call[x].pc \in RefreshPc => row'[call[x].tok] = row[call[x].tok],
         \A t \in Token : t <= minted /\ row[t].rotatedAt # Never => row'[t].rotatedAt # Never
  PROVE  FlightInv'
<1>1. ASSUME NEW x \in Call PROVE Flies(call[x])'
  <2>1. CASE x = c
    BY <2>1
  <2>2. CASE x # c
    BY <2>2, FliesKept DEF OthersWait
  <2> QED BY <2>1, <2>2
<1> QED BY <1>1 DEF FlightInv

\* A step that writes no row and enters no refresh.
LEMMA FlightQuiet ==
  ASSUME TypeOK, RevocationInv, FlightInv, Keeps, NEW c \in Call, OthersWait(c),
         row' = row, minted' = minted,
         \A t \in held' \ held : row[t].kind = "access" \/ \E x \in Token : row[x].succR = t,
         call'[c].pc \in RefreshPc => call[c].pc \in RefreshPc /\ call'[c].tok = call[c].tok,
         Flies(call[c])'
  PROVE  FlightInv'
<1>1. LineInv'
  BY LineQuiet DEF FlightInv
<1>2. OneFlight'
  BY OneFlightKept DEF FlightInv
<1> QED BY <1>1, <1>2, FlightStep

\* A step that persists a row.
LEMMA FlightMint ==
  ASSUME TypeOK, RevocationInv, FlightInv, Keeps, NEW c \in Call, OthersWait(c),
         NEW n \in Token, NEW s, NEW k, NEW p, NEW e, NEW ttl, Minted(n, s, k, p, e, ttl),
         k = "refresh" => s \in issued',
         \A t \in held' \ held : row'[t].kind = "access" \/ (t = n /\ s \notin issued),
         call'[c].pc \in RefreshPc => call[c].pc \in RefreshPc /\ call'[c].tok = call[c].tok,
         Flies(call[c])'
  PROVE  FlightInv'
<1>1. LineInv'
  BY LineMint DEF FlightInv
<1>2. OneFlight'
  BY OneFlightKept DEF FlightInv
<1>3. \A t \in Token : t <= minted => row'[t] = row[t]
  BY DEF Minted
<1>4. \A x \in Call \ {c} : call[x].pc \in RefreshPc => row'[call[x].tok] = row[call[x].tok]
  BY <1>3, TokMinted
<1> QED BY <1>1, <1>2, <1>3, <1>4, FlightStep

LEMMA FlightStart ==
  ASSUME SingleFlight, TypeOK, RevocationInv, FlightInv, NEW c \in Call, StartClient(c)
  PROVE  FlightInv'
<1>0. /\ UNCHANGED <<live, row, minted, held, issued>> /\ OthersWait(c) /\ Keeps
      /\ LineInv /\ OneFlight
  BY StartKeeps, QuietKeeps DEF FlightInv
<1>1. ASSUME NEW s \in Session, NEW p \in Plans, StartIssue(c, s, p) PROVE FlightInv'
  <2>1. call'[c].pc \in {"limit", "issueAccess"} /\ Blank(call'[c])
    BY <1>1, AfterStartIssue
  <2>2. Flies(call[c])'
    BY <2>1, FliesBlank
  <2> QED BY <1>0, <2>1, <2>2, FlightQuiet
<1>2. ASSUME NEW t \in Token, StartRefresh(c, t) PROVE FlightInv'
  <2>1. /\ call'[c].pc = "find" /\ call'[c].tok = t /\ call'[c].a = None /\ call'[c].r = None
        /\ call'[c].stale = Superseded(t)
    BY <1>2, AfterStartRefresh
  <2>2. Superseded(t)' = Superseded(t)
    BY <1>0 DEF Superseded
  <2>3. Flies(call[c])'
    BY <2>1, <2>2 DEF Flies, Superseded
  <2>4. LineInv'
    BY <1>0, LineQuiet
  <2>5. InRefresh(row[t].sess) = {}
    BY <1>2 DEF StartRefresh
  <2>6. OneFlight'
    <3>1. ASSUME NEW x \in Call, x # c, call[x].pc \in RefreshPc
          PROVE  row[call[x].tok].sess # row[t].sess
      BY <2>5, <3>1 DEF InRefresh
    <3>2. \A x \in Call : x # c => call'[x] = call[x]
      BY <1>0 DEF OthersWait
    <3> QED BY <1>0, <2>1, <3>1, <3>2 DEF OneFlight
  <2> QED BY <1>0, <2>3, <2>4, <2>6, FlightStep
<1> QED BY <1>1, <1>2 DEF StartClient

LEMMA FlightIssue ==
  ASSUME TypeOK, RevocationInv, FlightInv, NEW c \in Call, IssueStep(c)
  PROVE  FlightInv'
<1>0. /\ Keeps /\ OthersWait(c) /\ Flies(call[c]) /\ CallInv(call[c]) /\ LineInv
  BY ActsKeep DEF Acts, FlightInv, RevocationInv
<1>1. CASE CheckLimit(c) \/ Evict(c)
  <2>1. row' = row /\ minted' = minted
    BY <1>1, QuietActs
  <2>2. held' = held /\ call[c].pc \in IssuePc
    BY <1>1 DEF CheckLimit, Evict
  <2>3. Flies(call[c])' /\ call'[c].pc \notin RefreshPc
    <3>1. CASE call'[c] = Idle
      BY <3>1, FliesBlank, IdleBlank
    <3>2. CASE call'[c].pc \in {"issueAccess", "evict"} /\ Carries(call[c], call'[c])
      <4>1. /\ call'[c].r = None /\ ~call'[c].stale
            /\ call'[c].a # None => row'[call'[c].a].kind = "access"
        BY <1>0, <2>1, <2>2, <3>2 DEF Flies, Carries
      <4> QED BY <3>2, <4>1, FliesElsewhere
    <3> QED BY <1>1, <3>1, <3>2, AfterLimit
  <2> QED BY <1>0, <2>1, <2>2, <2>3, FlightQuiet
<1>2. CASE IssueAccess(c)
  <2>0. call[c].pc = "issueAccess"
    BY <1>2 DEF IssueAccess
  <2>1. PICK n \in Token :
          /\ Minted(n, call[c].sess, "access", call[c].plan = "perMint",
                    call[c].at + RefreshTtl, AccessTtl)
          /\ \/ call'[c] = Idle /\ held' = held \cup {n}
             \/ /\ call'[c].pc = "issueRefresh" /\ call'[c].a = n
                /\ call'[c].r = call[c].r /\ call'[c].stale = call[c].stale
                /\ held' = held
    BY <1>2, AfterIssueAccess
  <2>2. row'[n].kind = "access"
    BY <2>1 DEF Minted
  <2>3. Flies(call[c])' /\ call'[c].pc \notin RefreshPc
    <3>1. CASE call'[c] = Idle
      BY <3>1, FliesBlank, IdleBlank
    <3>2. CASE /\ call'[c].pc = "issueRefresh" /\ call'[c].a = n
               /\ call'[c].r = call[c].r /\ call'[c].stale = call[c].stale
      <4>1. call[c].r = None /\ ~call[c].stale
        BY <1>0, <2>0 DEF Flies
      <4> QED BY <2>2, <3>2, <4>1, FliesElsewhere
    <3> QED BY <2>1, <3>1, <3>2
  <2>4. \A t \in held' \ held : row'[t].kind = "access"
    BY <2>1, <2>2
  <2> QED BY <1>0, <2>1, <2>3, <2>4, FlightMint
<1>3. CASE IssueRefresh(c)
  <2>1. PICK n \in Token :
          /\ Minted(n, call[c].sess, "refresh", call[c].plan = "perMint",
                    now + RefreshTtl, RefreshTtl)
          /\ held' = held \cup TokensOf(c) \cup {n}
          /\ issued' = issued \cup {call[c].sess}
    BY <1>3, IssueRefreshRow
  <2>2. call'[c] = Idle /\ call[c].pc = "issueRefresh"
    BY <1>3, AfterLast DEF IssueRefresh
  <2>3. Flies(call[c])' /\ call'[c].pc \notin RefreshPc
    BY <2>2, FliesBlank, IdleBlank
  <2>4. call[c].sess \notin issued /\ call[c].r = None
        /\ (call[c].a # None => row[call[c].a].kind = "access")
    BY <1>0, <2>2 DEF CallInv, Flies
  <2>5. ASSUME NEW t \in held' \ held, t # n PROVE row'[t].kind = "access"
    <3>1. t = call[c].a /\ t # None
      BY <2>1, <2>4, <2>5 DEF TokensOf
    <3>2. t \in Token /\ t <= minted
      BY <3>1, CallRows
    <3> QED BY <1>0, <2>4, <3>1, <3>2 DEF Keeps, SameOrigin
  <2>6. \A t \in held' \ held : row'[t].kind = "access" \/ (t = n /\ call[c].sess \notin issued)
    BY <2>4, <2>5
  <2>7. call[c].sess \in issued'
    BY <2>1
  <2> QED BY <1>0, <2>1, <2>3, <2>6, <2>7, FlightMint
<1> QED BY <1>1, <1>2, <1>3 DEF IssueStep

\* refresh() up to the mint: what it found, and the replies within grace.
LEMMA FlightFind ==
  ASSUME TypeOK, RevocationInv, FlightInv, NEW c \in Call,
         FindFresh(c) \/ FindInGrace(c) \/ GraceHit(c)
  PROVE  FlightInv'
<1> PICK o : o = call[c].tok
  OBVIOUS
<1>0. /\ Keeps /\ OthersWait(c) /\ Flies(call[c]) /\ LineInv
      /\ call[c].pc \in RefreshPc /\ o \in Token /\ row[o] \in Row
  <2>1. call[c].pc \in RefreshPc
    BY DEF FindFresh, FindInGrace, GraceHit, FoundRefresh
  <2>2. o \in Token
    BY <2>1, TokMinted
  <2> QED BY <2>1, <2>2, ActsKeep DEF Acts, RefreshStep, FlightInv, TypeOK
<1>1. row' = row /\ minted' = minted /\ live' = live
  BY DEF FindFresh, FindInGrace, GraceHit
<1>2. Superseded(o)' = Superseded(o)
  BY <1>1 DEF Superseded
<1>3. CASE FindFresh(c)
  <2>1. /\ call'[c].pc = "mintAccess" /\ call'[c].tok = o /\ call'[c].a = call[c].a
        /\ call'[c].r = call[c].r /\ call'[c].stale = call[c].stale
    BY <1>3, AfterFindFresh DEF Carries
  <2>2. /\ row[o].kind = "refresh" /\ (RotationOf(o) = "none" \/ row[o].rotatedAt = Never)
        /\ call[c].pc = "find" /\ held' = held
    BY <1>3 DEF FindFresh, FoundRefresh
  <2>3. ~call[c].stale
    BY <1>0, <2>2 DEF Flies, Superseded, LineInv
  <2>4. RotationOf(o)' = RotationOf(o)
    BY <1>1 DEF RotationOf
  <2>5. Flies(call[c])'
    BY <1>0, <1>1, <2>1, <2>2, <2>3, <2>4 DEF Flies, RotationOf
  <2> QED BY <1>0, <1>1, <2>1, <2>2, <2>5, FlightQuiet
<1>4. CASE FindInGrace(c)
  <2>1. /\ call'[c].pc = "successor" /\ call'[c].tok = o /\ call'[c].stale = call[c].stale
        /\ call'[c].a = row[o].succA /\ call'[c].r = row[o].succR
    BY <1>4, AfterFindInGrace
  <2>2. call[c].pc = "find" /\ held' = held
    BY <1>4 DEF FindInGrace, FoundRefresh
  <2>3. row[o].succA # None => row[row[o].succA].kind = "access"
    BY <1>0 DEF LineInv
  <2>4. Flies(call[c])'
    BY <1>0, <1>1, <1>2, <2>1, <2>2, <2>3 DEF Flies, Superseded
  <2> QED BY <1>0, <1>1, <2>1, <2>2, <2>4, FlightQuiet
<1>5. CASE GraceHit(c)
  <2>1. call'[c] = Idle /\ held' = held \cup TokensOf(c) /\ call[c].pc = "successor"
    BY <1>5, AfterLast DEF GraceHit
  <2>2. call[c].r = row[o].succR /\ (call[c].a # None => row[call[c].a].kind = "access")
    BY <1>0, <2>1 DEF Flies
  <2>3. \A t \in held' \ held : row[t].kind = "access" \/ \E x \in Token : row[x].succR = t
    BY <1>0, <2>1, <2>2 DEF TokensOf
  <2>4. Flies(call[c])' /\ call'[c].pc \notin RefreshPc
    BY <2>1, FliesBlank, IdleBlank
  <2> QED BY <1>0, <1>1, <2>3, <2>4, FlightQuiet
<1> QED BY <1>3, <1>4, <1>5

\* refresh() minting the pair.
LEMMA FlightRotate ==
  ASSUME TypeOK, RevocationInv, FlightInv, NEW c \in Call, MintAccess(c) \/ MintRefresh(c)
  PROVE  FlightInv'
<1> PICK o : o = call[c].tok
  OBVIOUS
<1>0. /\ Keeps /\ OthersWait(c) /\ Flies(call[c]) /\ LineInv /\ held' = held /\ issued' = issued
      /\ call[c].pc \in RefreshPc /\ o \in Token /\ o <= minted /\ minted \in Nat
  <2>1. call[c].pc \in RefreshPc /\ held' = held /\ issued' = issued
    BY DEF MintAccess, MintRefresh
  <2>2. o \in Token /\ o <= minted
    BY <2>1, TokMinted
  <2>3. Keeps /\ OthersWait(c)
    BY ActsKeep DEF Acts, RefreshStep
  <2> QED BY <2>1, <2>2, <2>3 DEF FlightInv, Keeps
<1>1. CASE MintAccess(c)
  <2>0. call[c].pc = "mintAccess"
    BY <1>1 DEF MintAccess
  <2>1. PICK n \in Token :
          /\ Minted(n, row[o].sess, "access", row[o].perMint, row[o].ceiling, AccessTtl)
          /\ call'[c].pc = IF RotationOf(o) = "none" THEN "recheck" ELSE "mintRefresh"
          /\ call'[c].a = n /\ call'[c].r = call[c].r /\ call'[c].tok = o
          /\ call'[c].stale = call[c].stale
    BY <1>1, AfterMintAccess
  <2>2. row'[o] = row[o] /\ row'[n].kind = "access"
    BY <1>0, <2>1 DEF Minted
  <2>3. /\ row[o].kind = "refresh" /\ (RotationOf(o) = "none" \/ row[o].rotatedAt = Never)
        /\ call[c].r = None /\ ~call[c].stale
    BY <1>0, <2>0 DEF Flies
  <2>4. RotationOf(o)' = RotationOf(o)
    BY <2>2 DEF RotationOf
  <2>5. Flies(call[c])'
    BY <2>1, <2>2, <2>3, <2>4 DEF Flies, RotationOf
  <2> QED BY <1>0, <2>1, <2>5, FlightMint
<1>2. CASE MintRefresh(c)
  <2>0. call[c].pc = "mintRefresh"
    BY <1>2 DEF MintRefresh
  <2> PICK ttl : ttl = RotatedTtl(call[c].tok, call[c].at)
    OBVIOUS
  <2>1. PICK n \in Token :
          /\ Minted(n, row[o].sess, "refresh", row[o].perMint, row[o].ceiling, ttl)
          /\ call'[c].pc = "stamp" /\ call'[c].a = call[c].a /\ call'[c].r = n
          /\ call'[c].tok = o /\ call'[c].stale = call[c].stale
    BY <1>2, AfterMintRefresh
  <2>2. row'[o] = row[o]
    BY <1>0, <2>1 DEF Minted
  <2>3. /\ row[o].kind = "refresh" /\ RotationOf(o) # "none" /\ row[o].rotatedAt = Never
        /\ ~call[c].stale
    BY <1>0, <2>0 DEF Flies
  <2>4. RotationOf(o)' = RotationOf(o)
    BY <2>2 DEF RotationOf
  <2>5. call[c].a # None => row'[call[c].a].kind = "access"
    <3> PICK u : u = call[c].a
      OBVIOUS
    <3>1. u # None => u \in Token /\ u <= minted
      BY CallRows
    <3> QED BY <1>0, <3>1 DEF Flies, Keeps, SameOrigin
  <2>6. Flies(call[c])'
    BY <2>1, <2>2, <2>3, <2>4, <2>5 DEF Flies, RotationOf
  <2>7. row[o].sess \in issued'
    BY <1>0, <2>3 DEF LineInv
  <2> QED BY <1>0, <2>1, <2>6, <2>7, FlightMint
<1> QED BY <1>1, <1>2

\* refresh() marking the presented row: nobody else works on that row.
LEMMA FlightStamp ==
  ASSUME TypeOK, RevocationInv, FlightInv, NEW c \in Call, Stamp(c)
  PROVE  FlightInv'
<1> PICK o : o = call[c].tok
  OBVIOUS
<1>0. /\ Keeps /\ OthersWait(c) /\ Flies(call[c]) /\ call[c].pc = "stamp" /\ o \in Token
      /\ OneFlight /\ row[o].rotatedAt = Never /\ ~call[c].stale
      /\ UNCHANGED <<live, minted, held, issued>>
  <2>1. call[c].pc = "stamp" /\ UNCHANGED <<live, minted, held, issued>>
    BY DEF Stamp
  <2>2. o \in Token
    BY <2>1, TokMinted
  <2>3. Keeps /\ OthersWait(c)
    BY ActsKeep DEF Acts, RefreshStep
  <2>4. Flies(call[c]) /\ OneFlight
    BY DEF FlightInv
  <2> QED BY <2>1, <2>2, <2>3, <2>4 DEF Flies
<1>1. /\ call'[c].pc = "recheck" /\ call'[c].tok = o /\ call'[c].a = call[c].a
      /\ call'[c].r = call[c].r /\ call'[c].stale = call[c].stale
  BY AfterStamp DEF Carries
<1>2. Stamped(o, call[c].at, call[c].a, call[c].r)
  BY StampRow
<1>3. \A x \in Token : x # o => row'[x] = row[x]
  BY <1>2 DEF Stamped
<1>4. ASSUME NEW x \in Call \ {c}, call[x].pc \in RefreshPc
      PROVE  row'[call[x].tok] = row[call[x].tok]
  <2>1. row[call[x].tok].sess # row[o].sess
    BY <1>0, <1>4 DEF OneFlight
  <2>2. call[x].tok \in Token
    BY <1>4, TokMinted
  <2> QED BY <1>3, <2>1, <2>2
<1>5. \A t \in Token : row[t].rotatedAt # Never => row'[t].rotatedAt # Never
  BY <1>0, <1>3
<1>6. Flies(call[c])'
  <2>1. call[c].a # None => row'[call[c].a].kind = "access"
    <3> PICK u : u = call[c].a
      OBVIOUS
    <3>1. u # None => u \in Token /\ u <= minted
      BY CallRows
    <3> QED BY <1>0, <3>1 DEF Flies, Keeps, SameOrigin
  <2>2. o \in live' => call[c].r = row'[o].succR
    BY <1>0, <1>2 DEF Stamped
  <2> QED BY <1>0, <1>1, <2>1, <2>2 DEF Flies
<1>7. LineInv'
  BY <1>0, LineStamp
<1>8. OneFlight'
  BY <1>0, <1>1, OneFlightKept
<1> QED BY <1>0, <1>4, <1>5, <1>6, <1>7, <1>8, FlightStep

\* refresh() looking at the presented row once more.
LEMMA FlightRecheck ==
  ASSUME TypeOK, RevocationInv, FlightInv, NEW c \in Call,
         RecheckReplies(c) \/ RecheckRefuses(c) \/ Undo(c)
  PROVE  FlightInv'
<1> PICK o : o = call[c].tok
  OBVIOUS
<1>0. /\ Keeps /\ OthersWait(c) /\ Flies(call[c]) /\ row' = row /\ minted' = minted
      /\ call[c].pc \in {"recheck", "undo"} /\ o \in Token
  <2>1. call[c].pc \in {"recheck", "undo"}
    BY DEF RecheckReplies, RecheckRefuses, Undo
  <2>2. o \in Token
    BY <2>1, TokMinted
  <2>3. Keeps /\ OthersWait(c) /\ row' = row /\ minted' = minted
    BY ActsKeep, QuietActs DEF Acts, RefreshStep
  <2> QED BY <2>1, <2>2, <2>3 DEF FlightInv
<1>1. ~call[c].stale /\ (call[c].a # None => row[call[c].a].kind = "access")
  BY <1>0 DEF Flies
<1>2. CASE RecheckReplies(c)
  <2>1. /\ call'[c] = Idle /\ held' = held \cup TokensOf(c) /\ call[c].pc = "recheck"
        /\ o \in live
    BY <1>2, AfterLast DEF RecheckReplies
  <2>2. call[c].r \in {None, row[o].succR}
    BY <1>0, <2>1 DEF Flies
  <2>3. \A t \in held' \ held : row[t].kind = "access" \/ \E x \in Token : row[x].succR = t
    BY <1>0, <1>1, <2>1, <2>2 DEF TokensOf
  <2>4. Flies(call[c])' /\ call'[c].pc \notin RefreshPc
    BY <2>1, FliesBlank, IdleBlank
  <2> QED BY <1>0, <2>3, <2>4, FlightQuiet
<1>3. CASE RecheckRefuses(c) \/ Undo(c)
  <2>1. held' = held
    BY <1>3 DEF RecheckRefuses, Undo
  <2>2. CASE call'[c] = Idle
    <3>1. Flies(call[c])' /\ call'[c].pc \notin RefreshPc
      BY <2>2, FliesBlank, IdleBlank
    <3> QED BY <1>0, <2>1, <3>1, FlightQuiet
  <2>3. CASE call'[c].pc = "undo" /\ Carries(call[c], call'[c])
    <3>1. /\ call'[c].tok = call[c].tok /\ ~call'[c].stale
          /\ call'[c].a # None => row'[call'[c].a].kind = "access"
      BY <1>0, <1>1, <2>3 DEF Carries
    <3>2. Flies(call[c])'
      BY <2>3, <3>1, FliesElsewhere
    <3> QED BY <1>0, <2>1, <3>1, <3>2, FlightQuiet
  <2> QED BY <1>3, <2>2, <2>3, AfterRecheckRefuses, AfterUndo
<1> QED BY <1>2, <1>3

\* The steps that are none of a refresh's own, or end one.
LEMMA FlightElse ==
  ASSUME TypeOK, RevocationInv, FlightInv, NEW c \in Call,
         \/ StartRevoker(c) \/ FindRefuses(c) \/ FindReplay(c) \/ GraceReplay(c)
         \/ RevokeStep(c) \/ RevokeRowFails(c) \/ Fail(c)
  PROVE  FlightInv'
<1>0. /\ Keeps /\ OthersWait(c) /\ Flies(call[c]) /\ row' = row /\ minted' = minted /\ held' = held
  <2>1. row' = row /\ minted' = minted
    BY StartKeeps, QuietActs DEF RevokeStep
  <2>2. held' = held
    <3>1. CASE StartRevoker(c)
      BY <3>1, StartKeeps
    <3>2. CASE \/ FindRefuses(c) \/ FindReplay(c) \/ GraceReplay(c) \/ RevokeStep(c)
               \/ RevokeRowFails(c) \/ Fail(c)
      BY <3>2 DEF FindRefuses, FindReplay, GraceReplay, RevokeStep, SweepDone, SweepPass, RevokeRow,
                  OrphanedRow, Purge, PurgeDone, PurgeAgain, RevokeRowFails, Fail
    <3> QED BY <3>1, <3>2
  <2>3. Keeps /\ OthersWait(c)
    BY ActsKeep DEF Acts, RefreshStep
  <2> QED BY <2>1, <2>2, <2>3 DEF FlightInv
<1>1. ASSUME Blank(call'[c]), call'[c].pc \notin RefreshPc PROVE FlightInv'
  BY <1>0, <1>1, FliesBlank, FlightQuiet
<1>2. ASSUME call'[c] = Idle PROVE FlightInv'
  BY <1>1, <1>2, IdleBlank
<1>3. ASSUME Revoking(call'[c]) PROVE FlightInv'
  BY <1>1, <1>3 DEF Revoking
<1>4. ASSUME Carries(call[c], call'[c]), call[c].pc \in SweepPc \cup PurgePc,
             call'[c].pc \in SweepPc \cup PurgePc
      PROVE  FlightInv'
  <2>1. ~call'[c].stale /\ (call'[c].a # None => row'[call'[c].a].kind = "access")
    BY <1>0, <1>4 DEF Flies, Carries
  <2>2. call'[c].pc \notin RefreshPc \cup IssuePc
    BY <1>4
  <2>3. Flies(call[c])'
    BY <2>1, <2>2, FliesElsewhere
  <2> QED BY <1>0, <2>2, <2>3, FlightQuiet
<1>5. CASE StartRevoker(c) \/ FindReplay(c) \/ GraceReplay(c)
  BY <1>3, <1>5, AfterStartRevoker, AfterTheft DEF FindReplay, GraceReplay
<1>6. CASE FindRefuses(c) \/ SweepDone(c) \/ PurgeDone(c) \/ Fail(c)
  BY <1>2, <1>6, AfterLast
<1>7. CASE SweepPass(c) \/ RevokeRow(c) \/ RevokeRowFails(c) \/ OrphanedRow(c)
  BY <1>2, <1>4, <1>7, AfterSweep
<1>8. CASE Purge(c) \/ PurgeAgain(c)
  <2>1. call[c].pc \in PurgePc
    BY <1>8 DEF Purge, PurgeAgain
  <2> QED BY <1>2, <1>4, <1>8, <2>1, AfterPurge
<1> QED BY <1>5, <1>6, <1>7, <1>8 DEF RevokeStep

THEOREM FlightInvStep ==
  ASSUME SingleFlight, TypeOK, RevocationInv, FlightInv, [Next]_vars
  PROVE  FlightInv'
<1>1. ASSUME NEW c \in Call, Acts(c) PROVE FlightInv'
  <2>1. CASE StartClient(c)
    BY <2>1, FlightStart
  <2>2. CASE IssueStep(c)
    BY <2>2, FlightIssue
  <2>3. CASE RefreshStep(c)
    BY <2>3, FlightFind, FlightRotate, FlightStamp, FlightRecheck, FlightElse DEF RefreshStep
  <2>4. CASE StartRevoker(c) \/ FindRefuses(c) \/ RevokeStep(c) \/ RevokeRowFails(c) \/ Fail(c)
    BY <2>4, FlightElse
  <2> QED BY <1>1, <2>1, <2>2, <2>3, <2>4 DEF Acts
<1>2. CASE (\E t \in Token : RevokeToken(t)) \/ Tick \/ UNCHANGED vars
  <2>1. Keeps /\ UNCHANGED <<row, minted, call, held, issued>>
    BY <1>2, IdleKeeps
  <2>2. LineInv'
    BY <2>1, LineQuiet DEF FlightInv
  <2>3. OneFlight'
    BY <2>1 DEF FlightInv, OneFlight
  <2>4. ASSUME NEW x \in Call PROVE Flies(call[x])'
    BY <2>1, FliesKept
  <2> QED BY <2>2, <2>3, <2>4 DEF FlightInv
<1> QED BY <1>1, <1>2, Actors

LEMMA FlightInit == Init => FlightInv
<1> SUFFICES ASSUME Init PROVE FlightInv
  OBVIOUS
<1>1. LineInv
  BY BoundsAssumption DEF Init, LineInv, Heirs, BlankRow
<1>2. OneFlight
  BY IdleBlank DEF Init, OneFlight
<1>3. ASSUME NEW c \in Call PROVE Flies(call[c])
  BY IdleBlank DEF Init, Flies, Idle
<1> QED BY <1>1, <1>2, <1>3 DEF FlightInv

\* The heads of a session are heirs, so there is at most one.
LEMMA HeadsAreHeirs == TypeOK /\ LineInv => OneHead
<1> SUFFICES ASSUME TypeOK, LineInv, NEW s \in Session PROVE Cardinality(Heads(s)) <= 1
  BY DEF OneHead
<1>1. Heads(s) \subseteq Heirs /\ \A t \in Heads(s) : row[t].sess = s
  BY DEF Heads, Heirs, Deliverable
<1>2. \A t, u \in Heads(s) : t = u
  BY <1>1 DEF LineInv
<1>3. CASE Heads(s) = {}
  BY <1>3, FS_EmptySet
<1>4. CASE Heads(s) # {}
  <2>1. PICK t : t \in Heads(s)
    BY <1>4
  <2>2. Heads(s) = {t}
    BY <1>2, <2>1
  <2>3. Cardinality({t}) = 1
    BY FS_Singleton, Zenon
  <2> QED BY <2>2, <2>3
<1> QED BY <1>3, <1>4

\* The invariant of rotation, when the clients of a session keep one refresh
\* in flight.
THEOREM RotationCorrect ==
  ASSUME SingleFlight
  PROVE  Spec => [](TypeOK /\ FlightInv)
<1>1. TypeOK /\ RevocationInv /\ FlightInv /\ [Next]_vars => FlightInv'
  BY FlightInvStep
<1> QED BY <1>1, FlightInit, InvCorrect, PTL DEF Spec

\* However often a session is refreshed, re-delivered within grace or retried
\* after a lost reply, and whatever fails, its clients never hold two refresh
\* tokens that each rotate on their own.
THEOREM OneSuccessorLine ==
  ASSUME SingleFlight
  PROVE  Spec => []OneHead
<1>1. TypeOK /\ FlightInv => OneHead
  BY HeadsAreHeirs DEF FlightInv
<1> QED BY <1>1, RotationCorrect, PTL

\* A token whose successor was already used or revoked when it was presented
\* yields nothing, even inside the grace window.
THEOREM SupersededYieldsNothing ==
  ASSUME SingleFlight
  PROVE  Spec => SupersededIsDead
<1>1. ASSUME FlightInv, NEW c \in Call, call[c].stale PROVE ~MintAccess(c) /\ ~GraceHit(c)
  <2>1. /\ call[c].pc \in {"find", "successor"} /\ Superseded(call[c].tok)
        /\ call[c].pc = "successor" => call[c].r = row[call[c].tok].succR
    BY <1>1 DEF FlightInv, Flies
  <2> QED BY <2>1 DEF MintAccess, GraceHit, SuccessorCurrent, Superseded
<1>2. FlightInv => [\A c \in Call : call[c].stale => ~MintAccess(c) /\ ~GraceHit(c)]_vars
  BY <1>1
<1> QED BY <1>2, RotationCorrect, PTL DEF SupersededIsDead
=============================================================================
