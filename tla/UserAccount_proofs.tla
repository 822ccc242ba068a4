-------------------------- MODULE UserAccount_proofs --------------------------
(***************************************************************************)
(* Proofs about UserAccount, for every value of its constants.             *)
(***************************************************************************)
EXTENDS UserAccount, FiniteSetTheorems, TLAPS

USE DEF Link, Window, Nonce, Methods

LEMMA Bounds ==
  /\ Threshold \in Nat \ {0} /\ Duration \in Nat \ {0} /\ MaxAttempts \in Nat \ {0}
  /\ MaxLink \in Nat /\ MaxWindow \in Nat
  /\ 0 \in Link /\ 0 \in Window /\ 0 \in Nonce /\ Link \subseteq Nonce
  BY AccountAssumption

LEMMA RowTypes ==
  /\ NoMethods \in Methods
  /\ Gone \in Account /\ Member \in Account
  /\ \A l \in Link : Invited(l) \in Account
  BY Bounds DEF NoMethods, Gone, Member, Invited, Account

LEMMA IdleType ==
  /\ Idle \in CallState
  /\ Idle.op = "none" /\ Idle.at = "idle" /\ Idle.next = "idle"
  /\ Idle.fresh = FALSE
  BY Bounds, RowTypes DEF Idle, CallState, Op, Stage, NoMethods

LEMMA CallFields ==
  ASSUME TypeOK, NEW p \in Proc
  PROVE  /\ call[p] \in CallState
         /\ call[p].op \in Op /\ call[p].at \in Stage /\ call[p].next \in Stage
         /\ call[p].failed \in Nat /\ call[p].window \in Window
         /\ call[p].link \in Link /\ call[p].mfa \in Methods
         /\ call[p].attempt \in 1..MaxAttempts /\ call[p].fresh \in BOOLEAN
  BY DEF TypeOK, CallState

LEMMA RowFields ==
  ASSUME TypeOK
  PROVE  /\ row \in Account
         /\ row.exists \in BOOLEAN /\ row.active \in BOOLEAN /\ row.locked \in BOOLEAN
         /\ row.lockEnds \in Nat /\ row.failed \in Nat /\ row.pending \in BOOLEAN
         /\ row.nonce \in Nonce /\ row.mfa \in Methods
         /\ row.mfa.totp \in {"none", "new", "on"} /\ row.mfa.last \in Window
  BY DEF TypeOK, Account

LEMMA LinksGrow ==
  ASSUME TypeOK
  PROVE  /\ lastLink \in Nat /\ lastLink <= lastLink /\ lastLink <= lastLink + 1
         /\ lastLink < MaxLink => lastLink + 1 \in Link
<1>1. lastLink \in 0..MaxLink /\ MaxLink \in Nat
  BY Bounds DEF TypeOK
<1> QED BY <1>1

LEMMA OneMore ==
  ASSUME NEW S, NEW f \in [S -> Nat], NEW x \in S
  PROVE  [f EXCEPT ![x] = f[x] + 1] \in [S -> Nat]
  OBVIOUS

\* Replacing one call, and the reads of all others becoming stale.
LEMMA ContinueType ==
  ASSUME TypeOK, NEW p \in Proc, NEW c \in CallState, Continue(p, c)
  PROVE  call' \in [Proc -> CallState]
  BY DEF Continue, TypeOK

LEMMA StaleType ==
  ASSUME NEW c \in CallState
  PROVE  [c EXCEPT !.fresh = FALSE] \in CallState
  BY DEF CallState

LEMMA TouchedType ==
  ASSUME TypeOK, NEW p \in Proc, NEW c \in CallState
  PROVE  Touched(p, c) \in [Proc -> CallState]
  BY StaleType, CallFields DEF Touched

LEMMA UpdateType ==
  ASSUME TypeOK, NEW p \in Proc, NEW c \in CallState, NEW r \in Account,
         Update(p, r, c)
  PROVE  row' \in Account /\ call' \in [Proc -> CallState]
  BY TouchedType DEF Update, TypeOK

LEMMA SignInType ==
  ASSUME TypeOK, NEW next \in Stage
  PROVE  SignIn(next) \in CallState
  BY IdleType DEF SignIn, Checked, CallState, Op, Stage

LEMMA WrongType == TypeOK => Wrong \in CallState
  BY SignInType, RowFields DEF Wrong, CallState, Stage

LEMMA LockTypes ==
  ASSUME TypeOK
  PROVE  /\ Unlocked \in Account
         /\ \A d \in {0, Duration} : LockEnd(d) \in Nat /\ LockedFor(d) \in Account
         /\ \A c \in CallState : Counted(c) \in Account
<1> USE RowFields, Bounds
<1>1. Unlocked \in Account
  BY DEF Unlocked, Account
<1>2. ASSUME NEW d \in {0, Duration} PROVE LockEnd(d) \in Nat
  BY DEF LockEnd, TypeOK
<1>3. ASSUME NEW d \in {0, Duration} PROVE LockedFor(d) \in Account
  BY <1>2 DEF LockedFor, Account
<1>4. ASSUME NEW c \in CallState PROVE Counted(c) \in Account
  BY DEF Counted, Account
<1> QED BY <1>1, <1>2, <1>3, <1>4
-----------------------------------------------------------------------------
(* Type correctness.                                                       *)

THEOREM TypeInit == Init => TypeOK
<1> SUFFICES ASSUME Init PROVE TypeOK
  OBVIOUS
<1>1. lastLink \in Link /\ row \in Account
  <2>1. "invited" \in Start => 1 \in Link
    BY AccountAssumption
  <2> QED BY <2>1, RowTypes, Bounds DEF Init
<1>2. call \in [Proc -> CallState]
  BY IdleType DEF Init
<1>3. wins \in [Link -> Nat] /\ spent \in [Window -> Nat]
  BY DEF Init
<1> QED BY <1>1, <1>2, <1>3 DEF Init, TypeOK

LEMMA SignInStepType ==
  ASSUME TypeOK, NEW p \in Proc,
         \/ LoginRight(p) \/ LoginWrong(p) \/ AssertCanSignIn(p)
         \/ VerifyMfaRight(p) \/ VerifyMfaWrong(p)
         \/ Lift(p) \/ RecordLogin(p) \/ Fail(p)
  PROVE  TypeOK'
<1> USE CallFields, RowFields
<1>1. CASE LoginRight(p) \/ AssertCanSignIn(p)
  <2>1. SignIn("record") \in CallState /\ SignIn("idle") \in CallState
    BY SignInType DEF Stage
  <2> QED BY <1>1, <2>1, ContinueType DEF LoginRight, AssertCanSignIn, TypeOK
<1>2. CASE LoginWrong(p) \/ VerifyMfaWrong(p)
  BY <1>2, WrongType, ContinueType DEF LoginWrong, VerifyMfaWrong, TypeOK
<1>3. CASE VerifyMfaRight(p)
  <2>1. PICK w \in Window :
          Continue(p, Checked([Idle EXCEPT !.op = "verifyMfa", !.next = "cas",
                                           !.window = w, !.failed = row.failed]))
    BY <1>3 DEF VerifyMfaRight
  <2>2. Checked([Idle EXCEPT !.op = "verifyMfa", !.next = "cas",
                             !.window = w, !.failed = row.failed]) \in CallState
    BY IdleType DEF Checked, CallState, Op, Stage
  <2> QED BY <1>3, <2>1, <2>2, ContinueType DEF VerifyMfaRight, TypeOK
<1>4. CASE Lift(p)
  <2>1. [call[p] EXCEPT !.at = call[p].next] \in CallState
    BY DEF CallState
  <2> QED BY <1>4, <2>1, IdleType, LockTypes, UpdateType DEF Lift, TypeOK
<1>5. CASE RecordLogin(p)
  <2>1. [row EXCEPT !.failed = 0] \in Account
    BY DEF Account
  <2> QED BY <1>5, <2>1, IdleType, UpdateType DEF RecordLogin, TypeOK
<1>6. CASE Fail(p)
  <2>1. \A d \in {0, Duration} :
           [Counted(call[p]) EXCEPT !.locked = TRUE, !.lockEnds = LockEnd(d)] \in Account
    BY LockTypes DEF Account
  <2>2. row' \in Account /\ call' \in [Proc -> CallState]
    BY <1>6, <2>1, IdleType, LockTypes, UpdateType DEF Fail
  <2>3. tries' \in Nat
    BY <1>6 DEF Fail, TypeOK
  <2> QED BY <1>6, <2>2, <2>3 DEF Fail, TypeOK
<1> QED BY <1>1, <1>2, <1>3, <1>4, <1>5, <1>6

LEMMA PatchedType ==
  ASSUME TypeOK, NEW p \in Proc, NEW op
  PROVE  Patched(p, op) \in Account
<1> USE CallFields, RowFields
<1>1. [row EXCEPT !.failed = 0,
                  !.mfa.last = IF row.mfa.totp = "on" THEN call[p].window
                               ELSE row.mfa.last] \in Account
  BY DEF Account
<1>2. [row EXCEPT !.pending = FALSE] \in Account /\ [row EXCEPT !.nonce = p] \in Account
  BY DEF Account
<1>3. [row EXCEPT !.mfa.totp = "new", !.mfa.last = 0] \in Account
  BY Bounds DEF Account
<1>4. [row EXCEPT !.mfa.totp = "on"] \in Account
  BY DEF Account
<1> QED BY <1>1, <1>2, <1>3, <1>4 DEF Patched

LEMMA CasStepType ==
  ASSUME TypeOK, NEW p \in Proc,
         \/ Accept(p) \/ Revoke(p) \/ AddTotp(p) \/ ConfirmTotp(p)
         \/ CasRead(p) \/ CasWrite(p) \/ CasMiss(p)
  PROVE  TypeOK'
<1> USE CallFields, RowFields, IdleType
<1>1. CASE Accept(p)
  <2>1. PICK l \in 0..lastLink : StartCas(p, [Idle EXCEPT !.op = "accept", !.link = l])
    BY <1>1 DEF Accept
  <2>2. l \in Link
    BY Bounds DEF TypeOK
  <2>3. [[Idle EXCEPT !.op = "accept", !.link = l] EXCEPT !.at = "cas"] \in CallState
    BY <2>2 DEF CallState, Op, Stage
  <2> QED BY <2>1, <2>3, ContinueType DEF StartCas, TypeOK
<1>2. CASE Revoke(p) \/ AddTotp(p) \/ ConfirmTotp(p)
  <2>1. \A op \in {"revoke", "add", "confirm"} :
           [[Idle EXCEPT !.op = op] EXCEPT !.at = "cas"] \in CallState
    BY DEF CallState, Op, Stage
  <2> QED BY <1>2, <2>1, ContinueType DEF Revoke, AddTotp, ConfirmTotp, StartCas, TypeOK
<1>3. CASE CasRead(p)
  <2>1. /\ [call[p] EXCEPT !.at = "write", !.fresh = TRUE] \in CallState
        /\ [call[p] EXCEPT !.at = "fail"] \in CallState
    BY DEF CallState, Stage
  <2> QED BY <1>3, <2>1, ContinueType DEF CasRead, TypeOK
<1>4. CASE CasWrite(p)
  <2>1. [Idle EXCEPT !.op = "revoke", !.at = "recheck"] \in CallState
    BY DEF CallState, Op, Stage
  <2>2. call' \in [Proc -> CallState]
    BY <1>4, <2>1, TouchedType DEF CasWrite
  <2>3. row' \in Account
    BY <1>4, PatchedType DEF CasWrite
  <2>4. wins \in [Link -> Nat] /\ spent \in [Window -> Nat]
    BY DEF TypeOK
  <2>6. wins' \in [Link -> Nat] /\ spent' \in [Window -> Nat]
    <3>1. wins' \in {wins, [wins EXCEPT ![call[p].link] = wins[call[p].link] + 1]}
      BY <1>4 DEF CasWrite
    <3>2. spent' \in {spent, [w \in Window |-> 0],
                      [spent EXCEPT ![call[p].window] = spent[call[p].window] + 1]}
      BY <1>4 DEF CasWrite
    <3>3. [w \in Window |-> 0] \in [Window -> Nat]
      OBVIOUS
    <3>4. [wins EXCEPT ![call[p].link] = wins[call[p].link] + 1] \in [Link -> Nat]
      BY <2>4, OneMore
    <3>5. [spent EXCEPT ![call[p].window] = spent[call[p].window] + 1] \in [Window -> Nat]
      BY <2>4, OneMore
    <3> QED BY <2>4, <3>1, <3>2, <3>3, <3>4, <3>5
  <2>5. tries' \in Nat
    BY <1>4 DEF CasWrite, TypeOK
  <2> QED BY <1>4, <2>2, <2>3, <2>5, <2>6 DEF CasWrite, TypeOK
<1>5. CASE CasMiss(p)
  <2>1. Retries(call[p]) =>
           [call[p] EXCEPT !.at = "cas", !.attempt = call[p].attempt + 1] \in CallState
    <3> SUFFICES ASSUME Retries(call[p])
                 PROVE  [call[p] EXCEPT !.at = "cas", !.attempt = call[p].attempt + 1]
                           \in CallState
      OBVIOUS
    <3>1. call[p].attempt + 1 \in 1..MaxAttempts
      BY Bounds DEF Retries
    <3> QED BY <3>1 DEF CallState, Stage
  <2> QED BY <1>5, <2>1, ContinueType DEF CasMiss, TypeOK
<1> QED BY <1>1, <1>2, <1>3, <1>4, <1>5

LEMMA OtherStepType ==
  ASSUME TypeOK, NEW p \in Proc,
         \/ Recheck(p) \/ DeleteClaimed(p) \/ Reinvite(p) \/ WriteInvite(p)
         \/ RemoveMethod(p) \/ WriteMethods(p)
  PROVE  TypeOK'
<1> USE CallFields, RowFields, IdleType
<1>1. CASE Recheck(p)
  <2>1. [call[p] EXCEPT !.at = "delete", !.fresh = TRUE] \in CallState
    BY DEF CallState, Stage
  <2> QED BY <1>1, <2>1, ContinueType DEF Recheck, TypeOK
<1>2. CASE DeleteClaimed(p)
  <2>1. row' \in Account /\ call' \in [Proc -> CallState] /\ revoked' \in BOOLEAN
    <3>1. CASE Deletes(p)
      BY <1>2, <3>1, RowTypes, TouchedType DEF DeleteClaimed
    <3>2. CASE ~Deletes(p)
      BY <1>2, <3>2, ContinueType DEF DeleteClaimed, TypeOK
    <3> QED BY <3>1, <3>2
  <2> QED BY <1>2, <2>1 DEF DeleteClaimed, TypeOK
<1>3. CASE Reinvite(p)
  <2>1. [Idle EXCEPT !.op = "reinvite", !.at = "set"] \in CallState
    BY DEF CallState, Op, Stage
  <2> QED BY <1>3, <2>1, ContinueType DEF Reinvite, TypeOK
<1>4. CASE WriteInvite(p)
  <2>1. lastLink + 1 \in Link
    BY <1>4, LinksGrow DEF WriteInvite
  <2>2. [row EXCEPT !.pending = TRUE, !.nonce = lastLink + 1] \in Account
    BY <2>1 DEF Account
  <2> QED BY <1>4, <2>1, <2>2, UpdateType DEF WriteInvite, TypeOK
<1>5. CASE RemoveMethod(p)
  <2>1. PICK rest \in {NoMethods, row.mfa} :
          Continue(p, [Idle EXCEPT !.op = "remove", !.at = "set", !.mfa = rest])
    BY <1>5 DEF RemoveMethod
  <2>0. rest \in Methods
    BY RowTypes
  <2>2. [Idle EXCEPT !.op = "remove", !.at = "set", !.mfa = rest] \in CallState
    BY <2>0 DEF CallState, Op, Stage
  <2> QED BY <1>5, <2>1, <2>2, ContinueType DEF RemoveMethod, TypeOK
<1>6. CASE WriteMethods(p)
  <2>1. [row EXCEPT !.mfa = call[p].mfa] \in Account
    BY DEF Account
  <2>2. row' \in Account /\ call' \in [Proc -> CallState]
    BY <1>6, <2>1, UpdateType DEF WriteMethods
  <2> QED BY <1>6, <2>2 DEF WriteMethods, TypeOK
<1> QED BY <1>1, <1>2, <1>3, <1>4, <1>5, <1>6

\* The operations of a single store write.
Single == \/ LockAccount \/ UnlockAccount \/ ActivateAccount \/ DeactivateAccount
          \/ DeleteUser \/ RecordPasswordless \/ OtherWrite

\* What such a write can make of the row.
LEMMA SinglePut ==
  ASSUME TypeOK, Single
  PROVE  \E r \in Account :
            /\ Put(r)
            /\ r.exists => /\ r.mfa = row.mfa /\ r.nonce = row.nonce /\ r.pending = row.pending
                           /\ (tries' = tries /\ r.failed = row.failed) \/ tries' = 0
                           /\ r.locked = row.locked \/ r.locked \/ tries' = 0
            /\ tries' \in {tries, 0}
<1> USE RowFields
<1>1. CASE LockAccount
  <2>1. PICK d \in {0, Duration} : Put(LockedFor(d)) /\ UNCHANGED tries
    BY <1>1 DEF LockAccount
  <2>2. LockedFor(d) \in Account
    BY LockTypes
  <2> QED BY <2>1, <2>2 DEF LockedFor, Account
<1>2. CASE UnlockAccount
  <2>1. [Unlocked EXCEPT !.failed = 0] \in Account
    BY DEF Unlocked, Account
  <2> QED BY <1>2, <2>1 DEF UnlockAccount, Unlocked, Account
<1>3. CASE ActivateAccount
  <2>1. [row EXCEPT !.active = TRUE] \in Account
    BY DEF Account
  <2> QED BY <1>3, <2>1 DEF ActivateAccount, Account
<1>4. CASE DeactivateAccount
  <2>1. [row EXCEPT !.active = FALSE] \in Account
    BY DEF Account
  <2> QED BY <1>4, <2>1 DEF DeactivateAccount, Account
<1>5. CASE DeleteUser
  BY <1>5, RowTypes DEF DeleteUser, Gone
<1>6. CASE RecordPasswordless
  <2>1. [row EXCEPT !.failed = 0] \in Account
    BY DEF Account
  <2> QED BY <1>6, <2>1 DEF RecordPasswordless, Account
<1>7. CASE OtherWrite
  BY <1>7 DEF OtherWrite
<1> QED BY <1>1, <1>2, <1>3, <1>4, <1>5, <1>6, <1>7 DEF Single

LEMMA SingleType == TypeOK /\ Single => TypeOK'
<1> SUFFICES ASSUME TypeOK, Single PROVE TypeOK'
  OBVIOUS
<1>1. PICK r \in Account : Put(r) /\ tries' \in {tries, 0}
  BY SinglePut
<1>2. call' \in [Proc -> CallState]
  BY <1>1, StaleType, CallFields DEF Put
<1> QED BY <1>1, <1>2 DEF Put, TypeOK

LEMMA TickType == TypeOK /\ Tick => TypeOK'
  BY DEF TypeOK, Tick

LEMMA TypeStep == TypeOK /\ [Next]_vars => TypeOK'
<1> SUFFICES ASSUME TypeOK, [Next]_vars PROVE TypeOK'
  OBVIOUS
<1>1. CASE \E p \in Proc : Step(p)
  BY <1>1, SignInStepType, CasStepType, OtherStepType DEF Step
<1>2. CASE Single
  BY <1>2, SingleType
<1>3. CASE Tick
  BY <1>3, TickType
<1>4. CASE UNCHANGED vars
  BY <1>4 DEF vars, TypeOK
<1> QED BY <1>1, <1>2, <1>3, <1>4 DEF Next, Single

\* TypeOK, for any number of calls, links and guesses: in particular a
\* compare-and-set never makes more than MaxAttempts attempts.
THEOREM TypeCorrect == Spec => []TypeOK
  BY TypeInit, TypeStep, PTL DEF Spec
-----------------------------------------------------------------------------
(* Calls in flight.                                                        *)

\* Declines, of any row.
DeclinesAt(c, r) ==
    \/ c.op = "verifyMfa" /\ r.mfa.totp = "on" /\ c.window <= r.mfa.last
    \/ c.op = "accept" /\ (~r.pending \/ r.nonce \notin {0, c.link})
    \/ c.op = "revoke" /\ ~r.pending
    \/ c.op = "confirm" /\ r.mfa.totp = "none"

LEMMA DeclinesRow == \A c : Declines(c) <=> DeclinesAt(c, row)
  BY DEF Declines, DeclinesAt

\* What a call in flight knows: a read that is still current says what it said
\* when it was made; a call that fails kept the counter it read; a link that is
\* being accepted was issued.
Fits(c, p, r, n) ==
    /\ c.at = "write" /\ c.fresh => r.exists /\ ~DeclinesAt(c, r)
    /\ c.at = "delete" /\ c.fresh => r.exists /\ r.pending /\ r.nonce = p
    /\ c.at \in {"lift", "fail"} => c.op \in {"signIn", "verifyMfa"}
    /\ c.at = "fail" => c.next = "fail" \/ c.op = "verifyMfa"
    /\ c.at = "lift" => c.next \in {"idle", "record", "fail", "cas"}
    /\ c.at \in {"cas", "write"} =>
          c.op \in {"verifyMfa", "accept", "revoke", "add", "confirm"}
    /\ c.op = "accept" => c.link <= n /\ c.at \in {"cas", "write"}
    /\ c.op = "signIn" => c.at \notin {"cas", "write"} /\ c.next # "cas"

CallInv == \A p \in Proc : Fits(call[p], p, row, lastLink)

LEMMA FitsIdle == \A p \in Proc : \A r, n : Fits(Idle, p, r, n)
  BY IdleType DEF Fits

\* A call that keeps its read of an unchanged row, or whose read went stale.
LEMMA FitsKept ==
  ASSUME TypeOK, NEW p \in Proc, NEW c \in CallState, Fits(c, p, row, lastLink),
         lastLink' \in Nat, lastLink <= lastLink'
  PROVE  /\ row' = row => Fits(c, p, row', lastLink')
         /\ Fits([c EXCEPT !.fresh = FALSE], p, row', lastLink')
<1>1. c.link \in Nat /\ lastLink \in Nat
  BY Bounds DEF CallState, TypeOK
<1>2. c.op = "accept" => c.link <= lastLink'
  BY <1>1 DEF Fits
<1>3. ASSUME row' = row PROVE Fits(c, p, row', lastLink')
  <2> QED BY <1>2, <1>3 DEF Fits
<1>4. Fits([c EXCEPT !.fresh = FALSE], p, row', lastLink')
  BY <1>2 DEF Fits, CallState
<1> QED BY <1>3, <1>4

LEMMA ContinueFits ==
  ASSUME TypeOK, TypeOK', CallInv, NEW p \in Proc, NEW c \in CallState,
         Continue(p, c), UNCHANGED <<row, lastLink>>, Fits(c, p, row', lastLink')
  PROVE  CallInv'
<1> SUFFICES ASSUME NEW q \in Proc PROVE Fits(call'[q], q, row', lastLink')
  BY DEF CallInv
<1>1. CASE q = p
  BY <1>1 DEF Continue, TypeOK
<1>2. CASE q # p
  <2>1. call'[q] = call[q] /\ call[q] \in CallState
    BY <1>2 DEF Continue, TypeOK
  <2>2. lastLink' \in Nat /\ lastLink <= lastLink'
    BY Bounds DEF TypeOK
  <2>3. Fits(call[q], q, row', lastLink')
    BY <2>1, <2>2, FitsKept DEF CallInv
  <2> QED BY <2>1, <2>3
<1> QED BY <1>1, <1>2

LEMMA TouchedFits ==
  ASSUME TypeOK, TypeOK', CallInv, NEW p \in Proc, NEW c \in CallState,
         call' = Touched(p, c), lastLink <= lastLink', Fits(c, p, row', lastLink')
  PROVE  CallInv'
<1> SUFFICES ASSUME NEW q \in Proc PROVE Fits(call'[q], q, row', lastLink')
  BY DEF CallInv
<1>1. CASE q = p
  BY <1>1 DEF Touched
<1>2. CASE q # p
  <2>1. call'[q] = [call[q] EXCEPT !.fresh = FALSE] /\ call[q] \in CallState
    BY <1>2 DEF Touched, TypeOK
  <2>2. lastLink' \in Nat
    BY Bounds DEF TypeOK
  <2>3. Fits([call[q] EXCEPT !.fresh = FALSE], q, row', lastLink')
    BY <2>1, <2>2, FitsKept DEF CallInv
  <2> QED BY <2>1, <2>3
<1> QED BY <1>1, <1>2

LEMMA UpdateFits ==
  ASSUME TypeOK, TypeOK', CallInv, NEW p \in Proc, NEW c \in CallState, NEW r,
         Update(p, r, c), lastLink <= lastLink', Fits(c, p, row', lastLink'),
         ~row.exists => lastLink' = lastLink
  PROVE  CallInv'
<1>1. CASE row.exists
  BY <1>1, TouchedFits DEF Update
<1>2. CASE ~row.exists
  BY <1>2, ContinueFits DEF Update, Continue
<1> QED BY <1>1, <1>2

LEMMA CallInit == Init => CallInv
  BY FitsIdle DEF Init, CallInv

LEMMA SignInFits ==
  ASSUME TypeOK, NEW p \in Proc, NEW next \in {"idle", "record", "fail"},
         NEW n \in Nat
  PROVE  /\ Fits(SignIn(next), p, row', lastLink')
         /\ Fits([SignIn(next) EXCEPT !.failed = n], p, row', lastLink')
<1>1. SignIn(next) = [[Idle EXCEPT !.op = "signIn", !.next = next]
                         EXCEPT !.at = IF row.locked THEN "lift" ELSE next]
  BY IdleType DEF SignIn, Checked, CallState
<1>2. /\ SignIn(next).op = "signIn" /\ SignIn(next).next = next
      /\ SignIn(next).at \in {"lift", next}
      /\ SignIn(next) \in CallState
  BY <1>1, IdleType, SignInType DEF CallState, Stage
<1>3. LET c == [SignIn(next) EXCEPT !.failed = n] IN
      c.op = "signIn" /\ c.next = next /\ c.at \in {"lift", next}
  BY <1>2 DEF CallState
<1> QED BY <1>2, <1>3 DEF Fits

LEMMA SignInStepCalls ==
  ASSUME TypeOK, TypeOK', CallInv, NEW p \in Proc,
         \/ LoginRight(p) \/ LoginWrong(p) \/ AssertCanSignIn(p)
         \/ VerifyMfaRight(p) \/ VerifyMfaWrong(p)
         \/ Lift(p) \/ RecordLogin(p) \/ Fail(p)
  PROVE  CallInv'
<1> USE CallFields, RowFields
<1>0. lastLink <= lastLink' /\ lastLink' = lastLink
  <2>1. lastLink' = lastLink
    BY DEF LoginRight, LoginWrong, AssertCanSignIn, VerifyMfaRight, VerifyMfaWrong,
           Lift, RecordLogin, Fail
  <2> QED BY <2>1, Bounds DEF TypeOK
<1>1. CASE LoginRight(p) \/ AssertCanSignIn(p)
  <2>1. \A n \in {"record", "idle"} : SignIn(n) \in CallState /\ Fits(SignIn(n), p, row', lastLink')
    BY SignInType, SignInFits DEF Stage
  <2> QED BY <1>1, <2>1, ContinueFits DEF LoginRight, AssertCanSignIn
<1>2. CASE LoginWrong(p) \/ VerifyMfaWrong(p)
  <2>1. Fits(Wrong, p, row', lastLink')
    BY SignInFits DEF Wrong
  <2> QED BY <1>2, <2>1, WrongType, ContinueFits DEF LoginWrong, VerifyMfaWrong
<1>3. CASE VerifyMfaRight(p)
  <2>1. PICK w \in Window :
          Continue(p, Checked([Idle EXCEPT !.op = "verifyMfa", !.next = "cas",
                                           !.window = w, !.failed = row.failed]))
    BY <1>3 DEF VerifyMfaRight
  <2> DEFINE c == Checked([Idle EXCEPT !.op = "verifyMfa", !.next = "cas",
                                       !.window = w, !.failed = row.failed])
  <2>2. c \in CallState /\ c.op = "verifyMfa" /\ c.next = "cas" /\ c.at \in {"lift", "cas"}
    BY IdleType DEF Checked, CallState, Op, Stage
  <2> HIDE DEF c
  <2>3. Fits(c, p, row', lastLink')
    BY <2>2 DEF Fits
  <2> QED BY <1>3, <2>1, <2>2, <2>3, ContinueFits DEF VerifyMfaRight, c
<1>4. CASE Lift(p)
  <2> DEFINE c == [call[p] EXCEPT !.at = call[p].next]
  <2>1. c \in CallState /\ c.at = call[p].next /\ c.next = call[p].next
        /\ c.op = call[p].op
    BY DEF CallState
  <2>2. /\ c.at \in {"idle", "record", "fail", "cas"}
        /\ c.op \in {"signIn", "verifyMfa"}
        /\ c.op = "signIn" => c.next # "cas"
    BY <1>4, <2>1 DEF Lift, At, CallInv, Fits
  <2> HIDE DEF c
  <2>3. Fits(c, p, row', lastLink')
    BY <2>1, <2>2 DEF Fits
  <2>4. CASE call[p].next = "idle"
    BY <1>0, <1>4, <2>4, IdleType, FitsIdle, UpdateFits DEF Lift
  <2>5. CASE call[p].next # "idle"
    BY <1>0, <1>4, <2>1, <2>3, <2>5, UpdateFits DEF Lift, c
  <2> QED BY <2>4, <2>5
<1>5. CASE RecordLogin(p)
  BY <1>0, <1>5, IdleType, FitsIdle, UpdateFits DEF RecordLogin
<1>6. CASE Fail(p)
  <2>1. PICK r : Update(p, r, Idle)
    BY <1>6 DEF Fail
  <2> QED BY <1>0, <1>6, <2>1, IdleType, FitsIdle, UpdateFits DEF Fail
<1> QED BY <1>1, <1>2, <1>3, <1>4, <1>5, <1>6

LEMMA CasStepCalls ==
  ASSUME TypeOK, TypeOK', CallInv, NEW p \in Proc,
         \/ Accept(p) \/ Revoke(p) \/ AddTotp(p) \/ ConfirmTotp(p)
         \/ CasRead(p) \/ CasWrite(p) \/ CasMiss(p)
  PROVE  CallInv'
<1> USE CallFields, RowFields, IdleType
<1>1. CASE Accept(p)
  <2>1. PICK l \in 0..lastLink : StartCas(p, [Idle EXCEPT !.op = "accept", !.link = l])
    BY <1>1 DEF Accept
  <2> DEFINE c == [[Idle EXCEPT !.op = "accept", !.link = l] EXCEPT !.at = "cas"]
  <2>2. l \in Link /\ l <= lastLink /\ lastLink' = lastLink
    BY <2>1, Bounds DEF TypeOK, StartCas
  <2>3. c \in CallState /\ c.op = "accept" /\ c.at = "cas" /\ c.link = l
    BY <2>2 DEF CallState, Op, Stage
  <2> HIDE DEF c
  <2>4. Fits(c, p, row', lastLink')
    BY <2>2, <2>3 DEF Fits
  <2> QED BY <2>1, <2>3, <2>4, ContinueFits DEF StartCas, c
<1>2. CASE Revoke(p) \/ AddTotp(p) \/ ConfirmTotp(p)
  <2>1. PICK op \in {"revoke", "add", "confirm"} : StartCas(p, [Idle EXCEPT !.op = op])
    BY <1>2 DEF Revoke, AddTotp, ConfirmTotp
  <2> DEFINE c == [[Idle EXCEPT !.op = op] EXCEPT !.at = "cas"]
  <2>2. c \in CallState /\ c.op = op /\ c.at = "cas"
    BY DEF CallState, Op, Stage
  <2> HIDE DEF c
  <2>3. Fits(c, p, row', lastLink')
    BY <2>2 DEF Fits
  <2> QED BY <2>1, <2>2, <2>3, ContinueFits DEF StartCas, c
<1>3. CASE CasRead(p)
  <2> DEFINE w == [call[p] EXCEPT !.at = "write", !.fresh = TRUE]
             f == [call[p] EXCEPT !.at = "fail"]
  <2>1. /\ w \in CallState /\ f \in CallState
        /\ w.at = "write" /\ w.op = call[p].op /\ w.link = call[p].link
        /\ w.window = call[p].window /\ w.next = call[p].next
        /\ f.at = "fail" /\ f.op = call[p].op
    BY DEF CallState, Stage
  <2>2. call[p].at = "cas" /\ Fits(call[p], p, row, lastLink) /\ row' = row /\ lastLink' = lastLink
    BY <1>3 DEF CasRead, At, CallInv
  <2> HIDE DEF w, f
  <2>3. row.exists /\ ~Declines(call[p]) => Fits(w, p, row', lastLink')
    <3>1. DeclinesAt(w, row) <=> Declines(call[p])
      BY <2>1, DeclinesRow DEF DeclinesAt
    <3>2. call[p].op \in {"verifyMfa", "accept", "revoke", "add", "confirm"}
      BY <2>2 DEF Fits
    <3>3. call[p].op = "accept" => call[p].link <= lastLink
      BY <2>2 DEF Fits
    <3> QED BY <2>1, <2>2, <3>1, <3>2, <3>3 DEF Fits
  <2>4. call[p].op = "verifyMfa" => Fits(f, p, row', lastLink')
    BY <2>1 DEF Fits
  <2> QED BY <1>3, <2>1, <2>2, <2>3, <2>4, FitsIdle, ContinueFits DEF CasRead, w, f
<1>4. CASE CasWrite(p)
  <2> DEFINE c == [Idle EXCEPT !.op = "revoke", !.at = "recheck"]
  <2>1. c \in CallState /\ c.op = "revoke" /\ c.at = "recheck"
    BY DEF CallState, Op, Stage
  <2> HIDE DEF c
  <2>2. Fits(c, p, row', lastLink')
    BY <2>1 DEF Fits
  <2>3. lastLink <= lastLink'
    BY <1>4, LinksGrow DEF CasWrite
  <2>4. call' = Touched(p, c) \/ call' = Touched(p, Idle)
    BY <1>4 DEF CasWrite, c
  <2> QED BY <2>1, <2>2, <2>3, <2>4, FitsIdle, TouchedFits
<1>5. CASE CasMiss(p)
  <2> DEFINE c == [call[p] EXCEPT !.at = "cas", !.attempt = call[p].attempt + 1]
  <2>1. call[p].at = "write" /\ Fits(call[p], p, row, lastLink) /\ row' = row /\ lastLink' = lastLink
    BY <1>5 DEF CasMiss, At, CallInv
  <2>2. /\ c.at = "cas" /\ c.op = call[p].op /\ c.link = call[p].link
        /\ c.next = call[p].next
    BY DEF CallState
  <2>3. Retries(call[p]) => c \in CallState
    <3>1. Retries(call[p]) => call[p].attempt + 1 \in 1..MaxAttempts
      BY Bounds DEF Retries
    <3> QED BY <3>1 DEF CallState, Stage
  <2>4. Fits(c, p, row', lastLink')
    <3> HIDE DEF c
    <3> QED BY <2>1, <2>2 DEF Fits
  <2>5. CASE Retries(call[p])
    BY <1>5, <2>1, <2>3, <2>4, <2>5, ContinueFits DEF CasMiss
  <2>6. CASE ~Retries(call[p])
    BY <1>5, <2>1, <2>6, FitsIdle, ContinueFits DEF CasMiss
  <2> QED BY <2>5, <2>6
<1> QED BY <1>1, <1>2, <1>3, <1>4, <1>5

LEMMA OtherStepCalls ==
  ASSUME TypeOK, TypeOK', CallInv, NEW p \in Proc,
         \/ Recheck(p) \/ DeleteClaimed(p) \/ Reinvite(p) \/ WriteInvite(p)
         \/ RemoveMethod(p) \/ WriteMethods(p)
  PROVE  CallInv'
<1> USE CallFields, RowFields, IdleType
<1>1. CASE Recheck(p)
  <2> DEFINE c == [call[p] EXCEPT !.at = "delete", !.fresh = TRUE]
  <2>1. /\ c \in CallState /\ c.at = "delete" /\ c.op = call[p].op
        /\ c.next = call[p].next
    BY DEF CallState, Stage
  <2>2. /\ call[p].op # "accept" /\ row' = row
        /\ call[p].op = "signIn" => call[p].next # "cas"
    BY <1>1 DEF Recheck, At, CallInv, Fits
  <2> HIDE DEF c
  <2>3. row.exists /\ row.pending /\ row.nonce = p => Fits(c, p, row', lastLink')
    BY <2>1, <2>2 DEF Fits
  <2> QED BY <1>1, <2>1, <2>3, FitsIdle, ContinueFits DEF Recheck, c
<1>2. CASE DeleteClaimed(p)
  <2>1. lastLink <= lastLink' /\ lastLink' = lastLink
    BY <1>2, LinksGrow DEF DeleteClaimed
  <2>2. CASE Deletes(p)
    BY <1>2, <2>1, <2>2, FitsIdle, TouchedFits DEF DeleteClaimed
  <2>3. CASE ~Deletes(p)
    BY <1>2, <2>1, <2>3, FitsIdle, ContinueFits DEF DeleteClaimed
  <2> QED BY <2>2, <2>3
<1>3. CASE Reinvite(p)
  <2>1. LET c == [Idle EXCEPT !.op = "reinvite", !.at = "set"] IN
        c \in CallState /\ Fits(c, p, row', lastLink')
    BY DEF CallState, Op, Stage, Fits
  <2> QED BY <1>3, <2>1, ContinueFits DEF Reinvite
<1>4. CASE WriteInvite(p)
  <2>1. lastLink <= lastLink' /\ (~row.exists => lastLink' = lastLink)
    BY <1>4, LinksGrow DEF WriteInvite
  <2> QED BY <1>4, <2>1, FitsIdle, UpdateFits DEF WriteInvite
<1>5. CASE RemoveMethod(p)
  <2>1. PICK rest \in {NoMethods, row.mfa} :
          Continue(p, [Idle EXCEPT !.op = "remove", !.at = "set", !.mfa = rest])
    BY <1>5 DEF RemoveMethod
  <2> DEFINE c == [Idle EXCEPT !.op = "remove", !.at = "set", !.mfa = rest]
  <2>0. rest \in Methods
    BY RowTypes
  <2>2. c \in CallState /\ c.op = "remove" /\ c.at = "set"
    BY <2>0 DEF CallState, Op, Stage
  <2> HIDE DEF c
  <2>3. Fits(c, p, row', lastLink')
    BY <2>2 DEF Fits
  <2> QED BY <1>5, <2>1, <2>2, <2>3, ContinueFits DEF RemoveMethod, c
<1>6. CASE WriteMethods(p)
  <2>1. lastLink <= lastLink' /\ lastLink' = lastLink
    BY <1>6, LinksGrow DEF WriteMethods
  <2> QED BY <1>6, <2>1, FitsIdle, UpdateFits DEF WriteMethods
<1> QED BY <1>1, <1>2, <1>3, <1>4, <1>5, <1>6

LEMMA SingleCalls ==
  ASSUME TypeOK, TypeOK', CallInv, Single
  PROVE  CallInv'
<1>1. PICK r \in Account : Put(r)
  BY SinglePut
<1> SUFFICES ASSUME NEW q \in Proc PROVE Fits(call'[q], q, row', lastLink')
  BY DEF CallInv
<1>2. lastLink' \in Nat /\ lastLink <= lastLink'
  BY <1>1, Bounds DEF Put, TypeOK
<1>3. call'[q] = [call[q] EXCEPT !.fresh = FALSE]
  BY <1>1 DEF Put
<1> QED BY <1>2, <1>3, FitsKept, CallFields DEF CallInv

LEMMA CallStep ==
  ASSUME TypeOK, TypeOK', CallInv, [Next]_vars
  PROVE  CallInv'
<1>1. CASE \E p \in Proc : Step(p)
  BY <1>1, SignInStepCalls, CasStepCalls, OtherStepCalls DEF Step
<1>2. CASE Single
  BY <1>2, SingleCalls
<1>3. CASE UNCHANGED <<row, call, lastLink>>
  <2> SUFFICES ASSUME NEW q \in Proc PROVE Fits(call[q], q, row', lastLink')
    BY <1>3 DEF CallInv
  <2>1. lastLink' \in Nat /\ lastLink <= lastLink'
    BY <1>3, Bounds DEF TypeOK
  <2> QED BY <1>3, <2>1, FitsKept, CallFields DEF CallInv
<1> QED BY <1>1, <1>2, <1>3 DEF Next, Single, Tick, vars
-----------------------------------------------------------------------------
(* One-time codes.                                                         *)

\* No code newer than the last one used was accepted since the last edit.
CodeInv ==
    /\ row.exists => \A w \in Window : w > row.mfa.last => spent[w] = 0
    /\ OneWinnerPerCode

LEMMA CodeInit == Init => CodeInv
  BY DEF Init, CodeInv, OneWinnerPerCode

LEMMA CodeQuiet ==
  ASSUME CodeInv, spent' = spent,
         row'.exists => row.exists /\ row'.mfa = row.mfa
  PROVE  CodeInv'
  BY DEF CodeInv, OneWinnerPerCode

\* An edit of the list forgets.
LEMMA CodeForgotten ==
  ASSUME spent' = [w \in Window |-> 0]
  PROVE  CodeInv'
  BY DEF CodeInv, OneWinnerPerCode

LEMMA CodeCas ==
  ASSUME TypeOK, CallInv, CodeInv, NEW p \in Proc, CasWrite(p)
  PROVE  CodeInv'
<1> USE RowFields, CallFields
<1>1. row.exists /\ ~Declines(call[p])
  BY DeclinesRow DEF CasWrite, CasApplies, At, CallInv, Fits
<1>2. row' = Patched(p, call[p].op)
  BY DEF CasWrite
<1>3. CASE call[p].op = "verifyMfa" /\ row.mfa.totp = "on"
  <2>1. row'.mfa.last = call[p].window
    BY <1>2, <1>3 DEF Patched, Account
  <2>2. call[p].window > row.mfa.last
    BY <1>1, <1>3, Bounds DEF Declines
  <2>3. spent' = [spent EXCEPT ![call[p].window] = spent[call[p].window] + 1]
    BY <1>3 DEF CasWrite
  <2>4. spent[call[p].window] = 0
    BY <1>1, <2>2 DEF CodeInv
  <2>5. ASSUME NEW w \in Window, w # call[p].window PROVE spent'[w] = spent[w]
    BY <2>3, <2>5 DEF TypeOK
  <2>6. spent'[call[p].window] = 1
    BY <2>3, <2>4 DEF TypeOK
  <2>7. OneWinnerPerCode'
    BY <2>5, <2>6 DEF CodeInv, OneWinnerPerCode
  <2>8. ASSUME NEW w \in Window, w > call[p].window PROVE spent'[w] = 0
    <3>1. w > row.mfa.last /\ w # call[p].window
      BY <2>2, <2>8, Bounds
    <3> QED BY <1>1, <2>5, <3>1 DEF CodeInv
  <2> QED BY <2>1, <2>7, <2>8 DEF CodeInv
<1>4. CASE call[p].op = "verifyMfa" /\ row.mfa.totp # "on"
  <2>1. row'.mfa = row.mfa
    BY <1>2, <1>4 DEF Patched, Account
  <2>2. spent' = spent
    BY <1>4 DEF CasWrite
  <2> QED BY <1>1, <2>1, <2>2, CodeQuiet
<1>5. CASE call[p].op = "add"
  <2>1. spent' = [w \in Window |-> 0]
    BY <1>5 DEF CasWrite
  <2> QED BY <2>1, CodeForgotten
<1>6. CASE call[p].op \notin {"verifyMfa", "add"}
  <2>1. spent' = spent
    BY <1>6 DEF CasWrite
  <2>2. row'.mfa.last = row.mfa.last
    BY <1>2, <1>6 DEF Patched, Account
  <2> QED BY <1>1, <2>1, <2>2 DEF CodeInv, OneWinnerPerCode
<1> QED BY <1>3, <1>4, <1>5, <1>6

\* A plain update that leaves the list alone.
LEMMA UpdateRow ==
  ASSUME NEW p \in Proc, NEW c, NEW r, Update(p, r, c)
  PROVE  /\ row.exists => row' = r /\ call' = Touched(p, c)
         /\ ~row.exists => row' = row
  BY DEF Update

\* The sign-in writes touch neither the factors nor the invitation.
LEMMA SignInRow ==
  ASSUME TypeOK, NEW p \in Proc, Lift(p) \/ RecordLogin(p) \/ Fail(p)
  PROVE  \E r, c : /\ Update(p, r, c)
                  /\ r.mfa = row.mfa /\ r.nonce = row.nonce /\ r.pending = row.pending
<1> USE RowFields
<1>1. CASE Lift(p)
  <2>1. Unlocked.mfa = row.mfa /\ Unlocked.nonce = row.nonce /\ Unlocked.pending = row.pending
    BY DEF Unlocked, Account
  <2> QED BY <1>1, <2>1 DEF Lift
<1>2. CASE RecordLogin(p)
  <2> DEFINE r == [row EXCEPT !.failed = 0]
  <2>1. r.mfa = row.mfa /\ r.nonce = row.nonce /\ r.pending = row.pending
    BY DEF Account
  <2>2. Update(p, r, Idle)
    BY <1>2 DEF RecordLogin
  <2> HIDE DEF r
  <2> QED BY <2>1, <2>2
<1>3. CASE Fail(p)
  <2> DEFINE k == Counted(call[p])
             l(d) == [k EXCEPT !.locked = TRUE, !.lockEnds = LockEnd(d)]
  <2>1. k.mfa = row.mfa /\ k.nonce = row.nonce /\ k.pending = row.pending /\ k \in Account
    BY CallFields, LockTypes DEF Counted, Account
  <2>2. \A d : l(d).mfa = row.mfa /\ l(d).nonce = row.nonce /\ l(d).pending = row.pending
    BY <2>1 DEF Account
  <2>3. Update(p, k, Idle) \/ \E d \in {0, Duration} : Update(p, l(d), Idle)
    BY <1>3 DEF Fail
  <2> HIDE DEF k, l
  <2> QED BY <2>1, <2>2, <2>3
<1> QED BY <1>1, <1>2, <1>3

LEMMA CodeStep ==
  ASSUME TypeOK, CallInv, CodeInv, [Next]_vars
  PROVE  CodeInv'
<1> USE RowFields
<1>1. CASE UNCHANGED <<row, spent>>
  BY <1>1, CodeQuiet
<1>2. ASSUME NEW p \in Proc, Lift(p) \/ RecordLogin(p) \/ Fail(p)
      PROVE  CodeInv'
  <2>1. PICK r, c : Update(p, r, c) /\ r.mfa = row.mfa
    BY <1>2, SignInRow
  <2>2. spent' = spent
    BY <1>2 DEF Lift, RecordLogin, Fail
  <2> QED BY <2>1, <2>2, UpdateRow, CodeQuiet
<1>3. ASSUME NEW p \in Proc, WriteInvite(p)
      PROVE  CodeInv'
  <2>1. [row EXCEPT !.pending = TRUE, !.nonce = lastLink + 1].mfa = row.mfa
    BY DEF Account
  <2> QED BY <1>3, <2>1, UpdateRow, CodeQuiet DEF WriteInvite
<1>4. ASSUME NEW p \in Proc, DeleteClaimed(p)
      PROVE  CodeInv'
  BY <1>4, CodeQuiet DEF DeleteClaimed, Gone
<1>5. ASSUME NEW p \in Proc, WriteMethods(p)
      PROVE  CodeInv'
  BY <1>5, CodeForgotten DEF WriteMethods
<1>6. CASE Single
  <2>1. PICK r \in Account : Put(r) /\ (r.exists => r.mfa = row.mfa)
    BY <1>6, SinglePut
  <2> QED BY <2>1, CodeQuiet DEF Put
<1>7. ASSUME NEW p \in Proc, Step(p)
      PROVE  CodeInv'
  <2>1. \/ UNCHANGED <<row, spent>> \/ CasWrite(p)
        \/ Lift(p) \/ RecordLogin(p) \/ WriteInvite(p) \/ Fail(p)
        \/ DeleteClaimed(p) \/ WriteMethods(p)
    BY <1>7 DEF Step, LoginRight, LoginWrong, AssertCanSignIn, VerifyMfaRight,
                VerifyMfaWrong, Accept, Revoke, AddTotp, ConfirmTotp, StartCas,
                CasRead, CasMiss, Recheck, Reinvite, RemoveMethod
  <2> QED BY <2>1, <1>1, <1>2, <1>3, <1>4, <1>5, CodeCas
<1> QED BY <1>1, <1>6, <1>7 DEF Next, Single, Tick, vars

\* One-time codes are accepted once as long as the list of factors is not
\* edited, for any number of concurrent verifications.
THEOREM CodesAreSpent == Spec => []OneWinnerPerCode
<1>1. Init => TypeOK /\ CallInv /\ CodeInv
  BY TypeInit, CallInit, CodeInit
<1>2. TypeOK /\ CallInv /\ CodeInv /\ [Next]_vars => (TypeOK /\ CallInv /\ CodeInv)'
  BY TypeStep, CallStep, CodeStep
<1>3. TypeOK /\ CallInv /\ CodeInv => OneWinnerPerCode
  BY DEF CodeInv
<1> QED BY <1>1, <1>2, <1>3, PTL DEF Spec
-----------------------------------------------------------------------------
(* Invitations.                                                            *)

\* The link a pending row asks for was never accepted.
LinkInv ==
    /\ \A l \in Link : l > lastLink => wins[l] = 0
    /\ row.exists /\ row.nonce \in Link => row.nonce <= lastLink
    /\ row.exists /\ row.pending =>
          \A l \in Link : row.nonce \in {0, l} => wins[l] = 0
    /\ LinkAcceptedOnce

LEMMA LinkInit == Init => LinkInv
<1> SUFFICES ASSUME Init PROVE LinkInv
  OBVIOUS
<1>1. \A l \in Link : wins[l] = 0
  BY DEF Init
<1>2. row.nonce = lastLink /\ lastLink \in Nat
  <2>1. CASE row = Member /\ lastLink = 0
    BY <2>1 DEF Member, Gone
  <2>2. CASE lastLink \in {0, 1} /\ row = Invited(lastLink)
    BY <2>2 DEF Invited, Gone
  <2> QED BY <2>1, <2>2 DEF Init
<1>3. row.nonce <= lastLink
  BY <1>2
<1> QED BY <1>1, <1>3 DEF LinkInv, LinkAcceptedOnce

LEMMA LinkQuiet ==
  ASSUME LinkInv, wins' = wins, lastLink' = lastLink,
         row'.exists => /\ row.exists /\ row'.nonce = row.nonce
                        /\ row'.pending => row.pending
  PROVE  LinkInv'
  BY DEF LinkInv, LinkAcceptedOnce

\* The acceptance itself, and the other compare-and-set writes.
LEMMA LinkCas ==
  ASSUME TypeOK, CallInv, LinkInv, NEW p \in Proc, CasWrite(p)
  PROVE  LinkInv'
<1> USE RowFields, CallFields
<1>1. row.exists /\ ~Declines(call[p])
  BY DeclinesRow DEF CasWrite, CasApplies, At, CallInv, Fits
<1>2. row' = Patched(p, call[p].op) /\ lastLink' = lastLink
  BY DEF CasWrite
<1>3. CASE call[p].op = "accept"
  <2>1. row'.pending = FALSE /\ row'.nonce = row.nonce
    BY <1>2, <1>3 DEF Patched, Account
  <2>2. wins' = [wins EXCEPT ![call[p].link] = wins[call[p].link] + 1]
    BY <1>3 DEF CasWrite
  <2>3. call[p].link <= lastLink
    BY <1>3 DEF CallInv, Fits
  <2>4. row.pending /\ row.nonce \in {0, call[p].link}
    BY <1>1, <1>3 DEF Declines
  <2>5. wins[call[p].link] = 0
    BY <1>1, <2>4 DEF LinkInv
  <2>6. \A l \in Link : wins'[l] = IF l = call[p].link THEN 1 ELSE wins[l]
    BY <2>2, <2>5 DEF TypeOK
  <2>7. \A l \in Link : l > lastLink' => wins'[l] = 0
    <3> SUFFICES ASSUME NEW l \in Link, l > lastLink PROVE wins'[l] = 0
      BY <1>2
    <3>1. l # call[p].link
      BY <2>3, Bounds DEF TypeOK
    <3> QED BY <2>6, <3>1 DEF LinkInv
  <2> QED BY <1>1, <1>2, <2>1, <2>6, <2>7 DEF LinkInv, LinkAcceptedOnce
<1>4. CASE call[p].op = "revoke"
  <2>1. row'.nonce = p /\ wins' = wins
    BY <1>2, <1>4 DEF Patched, Account, CasWrite
  <2>2. p \notin Link
    BY AccountAssumption
  <2>3. \A l \in Link : row'.nonce \notin {0, l}
    BY <2>1, <2>2, Bounds
  <2> QED BY <1>2, <2>1, <2>2, <2>3 DEF LinkInv, LinkAcceptedOnce
<1>5. CASE call[p].op \notin {"accept", "revoke"}
  <2>1. row'.nonce = row.nonce /\ row'.pending = row.pending
    BY <1>2, <1>5 DEF Patched, Account
  <2>2. wins' = wins
    BY <1>5 DEF CasWrite
  <2> QED BY <1>1, <1>2, <2>1, <2>2, LinkQuiet
<1> QED BY <1>3, <1>4, <1>5

LEMMA LinkInvite ==
  ASSUME TypeOK, LinkInv, NEW p \in Proc, WriteInvite(p)
  PROVE  LinkInv'
<1> USE RowFields
<1>1. CASE ~row.exists
  BY <1>1, LinkQuiet DEF WriteInvite, Update
<1>2. CASE row.exists
  <2>1. row'.nonce = lastLink + 1 /\ lastLink' = lastLink + 1 /\ wins' = wins
    BY <1>2 DEF WriteInvite, Update, Account
  <2>2. lastLink + 1 \in Link /\ lastLink \in Nat
    BY LinksGrow DEF WriteInvite
  <2>3. \A l \in Link : l > lastLink' => wins'[l] = 0
    BY <2>1, <2>2, Bounds DEF LinkInv
  <2>4. \A l \in Link : row'.nonce \in {0, l} => wins'[l] = 0
    BY <2>1, <2>2, Bounds DEF LinkInv
  <2> QED BY <2>1, <2>2, <2>3, <2>4 DEF LinkInv, LinkAcceptedOnce
<1> QED BY <1>1, <1>2

LEMMA LinkStep ==
  ASSUME TypeOK, CallInv, LinkInv, [Next]_vars
  PROVE  LinkInv'
<1> USE RowFields
<1>1. CASE UNCHANGED <<row, wins, lastLink>>
  BY <1>1, LinkQuiet
<1>2. ASSUME NEW p \in Proc, Lift(p) \/ RecordLogin(p) \/ Fail(p)
      PROVE  LinkInv'
  <2>1. PICK r, c : Update(p, r, c) /\ r.nonce = row.nonce /\ r.pending = row.pending
    BY <1>2, SignInRow
  <2>2. wins' = wins /\ lastLink' = lastLink
    BY <1>2 DEF Lift, RecordLogin, Fail
  <2> QED BY <2>1, <2>2, UpdateRow, LinkQuiet
<1>3. ASSUME NEW p \in Proc, WriteMethods(p)
      PROVE  LinkInv'
  <2> DEFINE r == [row EXCEPT !.mfa = call[p].mfa]
  <2>1. r.nonce = row.nonce /\ r.pending = row.pending
    BY DEF Account
  <2>2. Update(p, r, Idle) /\ wins' = wins /\ lastLink' = lastLink
    BY <1>3 DEF WriteMethods
  <2> HIDE DEF r
  <2> QED BY <2>1, <2>2, UpdateRow, LinkQuiet
<1>4. ASSUME NEW p \in Proc, DeleteClaimed(p)
      PROVE  LinkInv'
  BY <1>4, LinkQuiet DEF DeleteClaimed, Gone
<1>5. CASE Single
  <2>1. PICK r \in Account :
           Put(r) /\ (r.exists => r.nonce = row.nonce /\ r.pending = row.pending)
    BY <1>5, SinglePut
  <2> QED BY <2>1, LinkQuiet DEF Put
<1>6. ASSUME NEW p \in Proc, Step(p)
      PROVE  LinkInv'
  <2>1. \/ UNCHANGED <<row, wins, lastLink>> \/ CasWrite(p)
        \/ Lift(p) \/ RecordLogin(p) \/ WriteMethods(p) \/ Fail(p)
        \/ DeleteClaimed(p) \/ WriteInvite(p)
    BY <1>6 DEF Step, LoginRight, LoginWrong, AssertCanSignIn, VerifyMfaRight,
                VerifyMfaWrong, Accept, Revoke, AddTotp, ConfirmTotp, StartCas,
                CasRead, CasMiss, Recheck, Reinvite, RemoveMethod
  <2> QED BY <2>1, <1>1, <1>2, <1>3, <1>4, LinkCas, LinkInvite
<1> QED BY <1>1, <1>5, <1>6 DEF Next, Single, Tick, vars

\* An invitation link is accepted at most once, whatever re-invites, other
\* acceptances and revocations run beside it.
THEOREM LinksAreSingleUse == Spec => []LinkAcceptedOnce
<1>1. Init => TypeOK /\ CallInv /\ LinkInv
  BY TypeInit, CallInit, LinkInit
<1>2. TypeOK /\ CallInv /\ LinkInv /\ [Next]_vars => (TypeOK /\ CallInv /\ LinkInv)'
  BY TypeStep, CallStep, LinkStep
<1>3. TypeOK /\ CallInv /\ LinkInv => LinkAcceptedOnce
  BY DEF LinkInv
<1> QED BY <1>1, <1>2, <1>3, PTL DEF Spec

\* What an acceptance and a revocation found when they wrote.
LEMMA InviteSteps ==
  ASSUME TypeOK, CallInv, [Next]_vars
  PROVE  /\ \A l \in Link : wins'[l] > wins[l] => row.pending /\ row.nonce \in {0, l}
         /\ revoked' # revoked => row.exists /\ row.pending /\ row.nonce \in Proc
<1>1. CASE wins' = wins /\ revoked' = revoked
  BY <1>1 DEF TypeOK
<1>2. ASSUME NEW p \in Proc, CasWrite(p), wins' # wins
      PROVE  \A l \in Link : wins'[l] > wins[l] => row.pending /\ row.nonce \in {0, l}
  <2>1. call[p].op = "accept" /\ ~Declines(call[p])
    BY <1>2, DeclinesRow DEF CasWrite, CasApplies, At, CallInv, Fits
  <2>2. row.pending /\ row.nonce \in {0, call[p].link}
    BY <2>1 DEF Declines
  <2>3. \A l \in Link : l # call[p].link => wins'[l] = wins[l]
    BY <1>2, <2>1 DEF CasWrite, TypeOK
  <2> QED BY <2>2, <2>3 DEF TypeOK
<1>3. ASSUME NEW p \in Proc, CasWrite(p) PROVE revoked' = revoked
  BY <1>3 DEF CasWrite
<1>4. ASSUME NEW p \in Proc, DeleteClaimed(p), revoked' # revoked
      PROVE  wins' = wins /\ row.exists /\ row.pending /\ row.nonce \in Proc
  BY <1>4 DEF DeleteClaimed, Deletes, At, CallInv, Fits
<1>5. ASSUME NEW p \in Proc, Step(p)
      PROVE  (wins' = wins /\ revoked' = revoked) \/ CasWrite(p) \/ DeleteClaimed(p)
  BY <1>5 DEF Step, LoginRight, LoginWrong, AssertCanSignIn, VerifyMfaRight,
              VerifyMfaWrong, Lift, RecordLogin, Fail, Accept, Revoke, AddTotp,
              ConfirmTotp, StartCas, CasRead, CasMiss, Recheck, Reinvite,
              WriteInvite, RemoveMethod, WriteMethods
<1>6. ASSUME Single PROVE wins' = wins /\ revoked' = revoked
  BY <1>6, SinglePut DEF Put
<1>7. ASSUME NEW p \in Proc, DeleteClaimed(p) PROVE wins' = wins
  BY <1>7 DEF DeleteClaimed
<1>8. CASE \E p \in Proc : Step(p)
  <2>1. PICK p \in Proc : Step(p)
    BY <1>8
  <2>2. CASE CasWrite(p)
    <3>1. CASE wins' = wins
      BY <1>1, <1>3, <2>2, <3>1
    <3>2. CASE wins' # wins
      BY <1>2, <1>3, <2>2, <3>2
    <3> QED BY <3>1, <3>2
  <2>3. CASE DeleteClaimed(p)
    <3>1. CASE revoked' = revoked
      BY <1>1, <1>7, <2>3, <3>1
    <3>2. CASE revoked' # revoked
      <4>1. wins' = wins /\ row.exists /\ row.pending /\ row.nonce \in Proc
        BY <1>4, <2>3, <3>2
      <4> QED BY <4>1 DEF TypeOK
    <3> QED BY <3>1, <3>2
  <2> QED BY <1>1, <1>5, <2>1, <2>2, <2>3
<1>9. CASE Single
  BY <1>1, <1>6, <1>9
<1>10. CASE wins' = wins /\ revoked' = revoked
  BY <1>1, <1>10
<1> QED BY <1>8, <1>9, <1>10 DEF Next, Single, Tick, vars

\* An acceptance finds the invitation pending and asks for the current link, and
\* revokeInvitation deletes only a row it claimed and that is still pending.
THEOREM InvitationsEndClaimed == Spec => InvitationsAreClaimed
<1>1. Init => TypeOK /\ CallInv
  BY TypeInit, CallInit
<1>2. TypeOK /\ CallInv /\ [Next]_vars => (TypeOK /\ CallInv)'
  BY TypeStep, CallStep
<1>3. TypeOK /\ CallInv /\ [Next]_vars => [AcceptsCurrentLink /\ RevokesPendingOnly]_vars
  BY InviteSteps DEF AcceptsCurrentLink, RevokesPendingOnly
<1> QED BY <1>1, <1>2, <1>3, PTL DEF Spec, InvitationsAreClaimed
-----------------------------------------------------------------------------
(* Wrong guesses and the lock.                                             *)

\* A call that may still count a wrong guess without setting the lock.
SoftCall(c) ==
    /\ c.at \in {"lift", "fail", "cas", "write"}
    /\ c.op = "verifyMfa" \/ c.next = "fail"
    /\ ~Trips(c)

Soft == {p \in Proc : SoftCall(call[p])}

\* The guesses that can still come without a lock are those of the soft calls.
GuessInv ==
    /\ NoGuessLost
    /\ row.exists /\ ~row.locked /\ Threshold > 1 =>
          tries + Cardinality(Soft) <= Threshold + Cardinality(Proc) - 2

LEMMA SoftSize ==
  ASSUME NEW S \in SUBSET Proc
  PROVE  /\ IsFiniteSet(S)
         /\ Cardinality(S) \in Nat /\ Cardinality(Proc) \in Nat
         /\ Cardinality(S) <= Cardinality(Proc)
         /\ \A T \in SUBSET S : Cardinality(T) \in Nat /\ Cardinality(T) <= Cardinality(S)
  BY AccountAssumption, FS_Subset, FS_CardinalityType

LEMMA SoftProc == Soft \in SUBSET Proc /\ Soft' \in SUBSET Proc
  BY DEF Soft

LEMMA NotSoft == ~SoftCall(Idle)
  BY IdleType DEF SoftCall

\* A step of p makes no call soft but perhaps p's.
LEMMA SoftKept ==
  ASSUME TypeOK, NEW p \in Proc, NEW c, SoftCall(c) => SoftCall(call[p]),
         call' = Touched(p, c) \/ Continue(p, c)
  PROVE  Soft' \subseteq Soft
<1> SUFFICES ASSUME NEW q \in Proc, SoftCall(call'[q]) PROVE SoftCall(call[q])
  BY DEF Soft
<1>1. CASE q = p
  BY <1>1 DEF Touched, Continue, TypeOK
<1>2. CASE q # p
  <2>1. call'[q] \in {call[q], [call[q] EXCEPT !.fresh = FALSE]}
    BY <1>2 DEF Touched, Continue, TypeOK
  <2>2. SoftCall([call[q] EXCEPT !.fresh = FALSE]) => SoftCall(call[q])
    BY CallFields DEF SoftCall, Trips, CallState
  <2> QED BY <2>1, <2>2
<1> QED BY <1>1, <1>2

LEMMA GuessInit == Init => GuessInv
<1> SUFFICES ASSUME Init PROVE GuessInv
  OBVIOUS
<1>1. row \in Account /\ row.failed \in Nat /\ tries = 0
  BY TypeInit, RowFields DEF Init
<1> QED BY <1>1, SoftProc, SoftSize, Bounds DEF GuessInv, NoGuessLost

\* Nothing counted, nothing unlocked, no call soft that was not.
LEMMA GuessQuiet ==
  ASSUME TypeOK, GuessInv, Soft' \subseteq Soft, tries' = tries,
         row'.exists => /\ row.exists /\ row'.failed = row.failed
                        /\ ~row'.locked => ~row.locked
  PROVE  GuessInv'
<1>1. NoGuessLost'
  BY DEF GuessInv, NoGuessLost
<1>2. /\ Cardinality(Soft') \in Nat /\ Cardinality(Soft) \in Nat
      /\ Cardinality(Proc) \in Nat /\ Cardinality(Soft') <= Cardinality(Soft)
  BY SoftProc, SoftSize
<1> QED BY <1>1, <1>2, Bounds DEF GuessInv, TypeOK

\* A reset, or a row that was read while its counter was low.
LEMMA GuessLow ==
  ASSUME TypeOK', tries' <= 0 \/ tries' <= Threshold - 2, NoGuessLost'
  PROVE  GuessInv'
<1>1. /\ Cardinality(Soft') \in Nat /\ Cardinality(Proc) \in Nat
      /\ Cardinality(Soft') <= Cardinality(Proc)
  BY SoftProc, SoftSize
<1>2. tries' \in Nat
  BY DEF TypeOK
<1> QED BY <1>1, <1>2, Bounds DEF GuessInv

LEMMA GuessReset ==
  ASSUME TypeOK', tries' = 0
  PROVE  GuessInv'
<1>1. NoGuessLost'
  BY DEF NoGuessLost, TypeOK, Account
<1> QED BY <1>1, GuessLow

\* The reads: a call becomes soft only if the counter it reads is low.
LEMMA GuessRead ==
  ASSUME TypeOK, TypeOK', GuessInv, NEW p \in Proc,
         \/ LoginRight(p) \/ LoginWrong(p) \/ AssertCanSignIn(p)
         \/ VerifyMfaRight(p) \/ VerifyMfaWrong(p)
  PROVE  GuessInv'
<1> USE RowFields, Bounds
<1>1. row' = row /\ tries' = tries /\ row.exists
  BY DEF LoginRight, LoginWrong, AssertCanSignIn, VerifyMfaRight, VerifyMfaWrong, MaySignIn
<1>2. PICK c : Continue(p, c) /\ (SoftCall(c) => c.failed = row.failed)
  <2>1. \A n \in {"record", "idle"} : ~SoftCall(SignIn(n))
    BY IdleType, SignInType DEF SignIn, Checked, SoftCall, CallState, Stage
  <2>2. Wrong.failed = row.failed
    BY SignInType DEF Wrong, CallState, Stage
  <2>3. \A w : Checked([Idle EXCEPT !.op = "verifyMfa", !.next = "cas",
                                    !.window = w, !.failed = row.failed]).failed = row.failed
    BY IdleType DEF Checked, CallState
  <2> QED BY <2>1, <2>2, <2>3 DEF LoginRight, LoginWrong, AssertCanSignIn,
                                  VerifyMfaRight, VerifyMfaWrong
<1>3. CASE SoftCall(c)
  <2>1. row.failed <= Threshold - 2
    BY <1>2, <1>3 DEF SoftCall, Trips
  <2>2. NoGuessLost' /\ tries' <= row.failed /\ tries' \in Nat
    BY <1>1 DEF GuessInv, NoGuessLost, TypeOK
  <2> QED BY <2>1, <2>2, GuessLow
<1>4. CASE ~SoftCall(c)
  BY <1>1, <1>2, <1>4, SoftKept, GuessQuiet
<1> QED BY <1>3, <1>4

\* A counted guess uses up its call, or sets the lock.
LEMMA GuessFail ==
  ASSUME TypeOK, TypeOK', CallInv, GuessInv, NEW p \in Proc, Fail(p)
  PROVE  GuessInv'
<1> USE RowFields, CallFields
<1>1. CASE ~row.exists
  BY <1>1 DEF Fail, Update, GuessInv, NoGuessLost
<1>2. CASE row.exists
  <2>1. tries' = tries + 1 /\ call' = Touched(p, Idle)
    BY <1>2 DEF Fail, Update
  <2>2. row'.failed = row.failed + 1 /\ (Trips(call[p]) => row'.locked)
        /\ (~Trips(call[p]) => row'.locked = row.locked)
    <3>1. Counted(call[p]).failed = row.failed + 1
          /\ Counted(call[p]).locked = row.locked /\ Counted(call[p]) \in Account
      BY LockTypes DEF Counted, Account
    <3>2. CASE Trips(call[p])
      <4>1. PICK d \in {0, Duration} :
              row' = [Counted(call[p]) EXCEPT !.locked = TRUE, !.lockEnds = LockEnd(d)]
        BY <1>2, <3>2 DEF Fail, Update
      <4> QED BY <3>1, <3>2, <4>1 DEF Account
    <3>3. CASE ~Trips(call[p])
      BY <1>2, <3>1, <3>3 DEF Fail, Update
    <3> QED BY <3>2, <3>3
  <2>3. NoGuessLost'
    BY <1>2, <2>1, <2>2 DEF GuessInv, NoGuessLost, TypeOK
  <2>4. CASE Trips(call[p])
    BY <2>2, <2>3, <2>4 DEF GuessInv
  <2>5. CASE ~Trips(call[p])
    <3>1. p \in Soft
      BY <2>5 DEF Soft, SoftCall, Fail, At, CallInv, Fits
    <3>2. Soft' \subseteq Soft /\ p \notin Soft'
      BY <2>1, NotSoft, SoftKept DEF Soft, Touched
    <3>3. Soft' \in SUBSET (Soft \ {p}) /\ Soft \ {p} \in SUBSET Proc
      BY <3>2, SoftProc
    <3>4. Cardinality(Soft \ {p}) = Cardinality(Soft) - 1
      BY <3>1, SoftProc, SoftSize, FS_RemoveElement
    <3>5. /\ Cardinality(Soft') <= Cardinality(Soft) - 1
          /\ Cardinality(Soft') \in Nat /\ Cardinality(Soft) \in Nat
          /\ Cardinality(Proc) \in Nat
      BY <3>3, <3>4, SoftProc, SoftSize
    <3>6. tries \in Nat /\ tries' + Cardinality(Soft') <= tries + Cardinality(Soft)
      BY <2>1, <3>5 DEF TypeOK
    <3>7. tries' + Cardinality(Soft') \in Nat
      BY <2>1, <3>5, <3>6
    <3>8. row'.locked = row.locked
      BY <2>2, <2>5
    <3>9. ~row'.locked /\ Threshold > 1 =>
             tries + Cardinality(Soft) <= Threshold + Cardinality(Proc) - 2
      BY <1>2, <3>8 DEF GuessInv
    <3> QED BY <2>3, <3>5, <3>6, <3>7, <3>9, Bounds DEF GuessInv
  <2> QED BY <2>4, <2>5
<1> QED BY <1>1, <1>2

\* The steps of a compare-and-set.
LEMMA GuessCas ==
  ASSUME TypeOK, TypeOK', CallInv, GuessInv, NEW p \in Proc,
         \/ Accept(p) \/ Revoke(p) \/ AddTotp(p) \/ ConfirmTotp(p)
         \/ CasRead(p) \/ CasWrite(p) \/ CasMiss(p)
  PROVE  GuessInv'
<1> USE RowFields, CallFields, IdleType
<1>1. CASE Accept(p) \/ Revoke(p) \/ AddTotp(p) \/ ConfirmTotp(p)
  <2>1. PICK op \in {"accept", "revoke", "add", "confirm"}, l \in Link :
           Continue(p, [[Idle EXCEPT !.op = op, !.link = l] EXCEPT !.at = "cas"])
    <3>1. \A op : [Idle EXCEPT !.op = op] = [Idle EXCEPT !.op = op, !.link = Idle.link]
      BY DEF CallState
    <3>2. Idle.link \in Link /\ 0..lastLink \subseteq Link
      BY Bounds DEF CallState, TypeOK
    <3> QED BY <1>1, <3>1, <3>2 DEF Accept, Revoke, AddTotp, ConfirmTotp, StartCas
  <2>2. ~SoftCall([[Idle EXCEPT !.op = op, !.link = l] EXCEPT !.at = "cas"])
    BY DEF SoftCall, CallState
  <2>3. row' = row /\ tries' = tries
    BY <1>1 DEF Accept, Revoke, AddTotp, ConfirmTotp, StartCas
  <2> QED BY <2>1, <2>2, <2>3, SoftKept, GuessQuiet
<1>2. CASE CasRead(p) \/ CasMiss(p)
  <2>1. /\ SoftCall([call[p] EXCEPT !.at = "write", !.fresh = TRUE]) => SoftCall(call[p])
        /\ SoftCall([call[p] EXCEPT !.at = "fail"]) => SoftCall(call[p])
        /\ SoftCall([call[p] EXCEPT !.at = "cas", !.attempt = call[p].attempt + 1])
              => SoftCall(call[p])
    BY <1>2 DEF CasRead, CasMiss, At, SoftCall, Trips, CallState
  <2>2. PICK c : Continue(p, c) /\ (SoftCall(c) => SoftCall(call[p]))
    BY <1>2, <2>1, NotSoft DEF CasRead, CasMiss
  <2>3. row' = row /\ tries' = tries
    BY <1>2 DEF CasRead, CasMiss
  <2> QED BY <2>2, <2>3, SoftKept, GuessQuiet
<1>3. CASE CasWrite(p)
  <2>1. CASE call[p].op = "verifyMfa"
    BY <1>3, <2>1, GuessReset DEF CasWrite
  <2>2. CASE call[p].op # "verifyMfa"
    <3>1. tries' = tries /\ row.exists
      BY <1>3, <2>2 DEF CasWrite, CasApplies, At, CallInv, Fits
    <3>2. row'.failed = row.failed /\ row'.locked = row.locked
      BY <1>3, <2>2 DEF CasWrite, Patched, Account
    <3>3. ~SoftCall([Idle EXCEPT !.op = "revoke", !.at = "recheck"])
      BY DEF SoftCall, CallState
    <3>4. Soft' \subseteq Soft
      BY <1>3, <3>3, NotSoft, SoftKept DEF CasWrite
    <3> QED BY <3>1, <3>2, <3>4, GuessQuiet
  <2> QED BY <2>1, <2>2
<1> QED BY <1>1, <1>2, <1>3

\* The other calls neither count nor unlock.
LEMMA GuessOther ==
  ASSUME TypeOK, TypeOK', GuessInv, NEW p \in Proc,
         \/ Recheck(p) \/ DeleteClaimed(p) \/ Reinvite(p) \/ WriteInvite(p)
         \/ RemoveMethod(p) \/ WriteMethods(p)
  PROVE  GuessInv'
<1> USE RowFields, CallFields, IdleType
<1>1. tries' = tries
  BY DEF Recheck, DeleteClaimed, Reinvite, WriteInvite, RemoveMethod, WriteMethods
<1>2. row'.exists => row.exists /\ row'.failed = row.failed /\ row'.locked = row.locked
  <2>1. CASE WriteInvite(p) \/ WriteMethods(p)
    <3> DEFINE i == [row EXCEPT !.pending = TRUE, !.nonce = lastLink + 1]
               m == [row EXCEPT !.mfa = call[p].mfa]
    <3>1. /\ i.exists = row.exists /\ i.failed = row.failed /\ i.locked = row.locked
          /\ m.exists = row.exists /\ m.failed = row.failed /\ m.locked = row.locked
      BY DEF Account
    <3>2. row' = row \/ row' = i \/ row' = m
      BY <2>1 DEF WriteInvite, WriteMethods, Update
    <3> HIDE DEF i, m
    <3> QED BY <3>1, <3>2
  <2>2. CASE ~(WriteInvite(p) \/ WriteMethods(p))
    <3>1. row' = row \/ row' = Gone
      BY <2>2 DEF Recheck, DeleteClaimed, Reinvite, RemoveMethod
    <3> QED BY <3>1 DEF Gone
  <2> QED BY <2>1, <2>2
<1>3. PICK c : ~SoftCall(c) /\ (call' = Touched(p, c) \/ Continue(p, c))
  <2>1. /\ ~SoftCall([call[p] EXCEPT !.at = "delete", !.fresh = TRUE])
        /\ ~SoftCall([Idle EXCEPT !.op = "reinvite", !.at = "set"])
        /\ \A m : ~SoftCall([Idle EXCEPT !.op = "remove", !.at = "set", !.mfa = m])
    BY DEF SoftCall, CallState
  <2> QED BY <2>1, NotSoft DEF Recheck, DeleteClaimed, Reinvite, WriteInvite,
                               RemoveMethod, WriteMethods, Update, Continue
<1> QED BY <1>1, <1>2, <1>3, SoftKept, GuessQuiet

LEMMA GuessSingle ==
  ASSUME TypeOK, TypeOK', GuessInv, Single
  PROVE  GuessInv'
<1>1. PICK r \in Account :
         /\ Put(r)
         /\ r.exists => /\ (tries' = tries /\ r.failed = row.failed) \/ tries' = 0
                        /\ r.locked = row.locked \/ r.locked \/ tries' = 0
         /\ tries' \in {tries, 0}
  BY SinglePut
<1>2. CASE tries' = 0
  BY <1>2, GuessReset
<1>3. CASE tries' # 0
  <2>1. \A q \in Proc : SoftCall([call[q] EXCEPT !.fresh = FALSE]) => SoftCall(call[q])
    BY CallFields DEF SoftCall, Trips, CallState
  <2>2. Soft' \subseteq Soft
    BY <1>1, <2>1 DEF Soft, Put
  <2> QED BY <1>1, <1>3, <2>2, GuessQuiet DEF Put
<1> QED BY <1>2, <1>3

LEMMA GuessStep ==
  ASSUME TypeOK, TypeOK', CallInv, GuessInv, [Next]_vars
  PROVE  GuessInv'
<1>1. CASE UNCHANGED <<row, call, tries>>
  <2>1. Soft' = Soft
    BY <1>1 DEF Soft
  <2> QED BY <1>1, <2>1, GuessQuiet
<1>2. ASSUME NEW p \in Proc, Lift(p)
      PROVE  GuessInv'
  BY <1>2, GuessReset DEF Lift, Update, GuessInv, NoGuessLost
<1>3. ASSUME NEW p \in Proc, RecordLogin(p)
      PROVE  GuessInv'
  BY <1>3, GuessReset DEF RecordLogin
<1>4. ASSUME NEW p \in Proc, Step(p)
      PROVE  GuessInv'
  BY <1>2, <1>3, <1>4, GuessRead, GuessFail, GuessCas, GuessOther DEF Step
<1> QED BY <1>1, <1>4, GuessSingle DEF Next, Single, Tick, vars

LEMMA GuessAlways == Spec => []GuessInv
<1>1. Init => TypeOK /\ CallInv /\ GuessInv
  BY TypeInit, CallInit, GuessInit
<1>2. TypeOK /\ CallInv /\ GuessInv /\ [Next]_vars => (TypeOK /\ CallInv /\ GuessInv)'
  BY TypeStep, CallStep, GuessStep
<1> QED BY <1>1, <1>2, PTL DEF Spec

\* No wrong guess since the last reset is lost, for any number of concurrent
\* sign-ins.
THEOREM GuessesAreCounted == Spec => []NoGuessLost
<1>1. GuessInv => NoGuessLost
  BY DEF GuessInv
<1> QED BY <1>1, GuessAlways, PTL

\* The lock is late by at most one guess per call in flight, for any threshold
\* and any number of calls.
THEOREM LockIsInTime == Spec => []LockComesInTime
<1>1. TypeOK /\ GuessInv => LockComesInTime
  BY SoftProc, SoftSize, Bounds DEF GuessInv, LockComesInTime, TypeOK
<1> QED BY <1>1, TypeCorrect, GuessAlways, PTL
=============================================================================
