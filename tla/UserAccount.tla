------------------------------ MODULE UserAccount ------------------------------
(***************************************************************************)
(* One user account of @aooth/user under concurrent UserService calls:     *)
(* password and one-time-code sign-in with their shared failure counter    *)
(* and lock, invitations, and the list of second factors.                  *)
(*                                                                         *)
(* A call reads the row, awaits (a hash, a store reply) and writes.  The   *)
(* code writes in three ways, and what is safe depends on which:           *)
(*   - plainly, a constant or an increment (recordLogin, the lock, the     *)
(*     lift of an expired lock);                                           *)
(*   - plainly, a value computed from the row read before (removal of a    *)
(*     second factor, the renewal of an invitation);                       *)
(*   - under compare-and-set (withCas, the delete of a revocation).        *)
(* The row's version is only ever compared for equality with the one read, *)
(* so a call keeps whether the row is unchanged since its read (`fresh`).  *)
(***************************************************************************)
EXTENDS Integers, FiniteSets

CONSTANTS
    Proc,         \* slots for calls in flight
    Threshold,    \* lockout.threshold
    Duration,     \* lockout.duration, in ticks
    MaxAttempts,  \* withCas maxAttempts (2 in the code)
    Start,        \* how the account was created: "member", "invited" or both
    MaxLink,      \* bound: invitation links
    MaxWindow,    \* bound: counters of one-time codes
    MaxFailed,    \* bound: no wrong guess starts beyond this count
    MaxClock      \* bound: clock ticks

ASSUME AccountAssumption ==
    /\ IsFiniteSet(Proc)
    /\ Proc \intersect (0..MaxLink) = {}
    /\ Threshold \in Nat \ {0}
    /\ Duration \in Nat \ {0}
    /\ MaxAttempts \in Nat \ {0}
    /\ MaxLink \in Nat
    /\ Start \subseteq {"member", "invited"}
    /\ "invited" \in Start => MaxLink > 0
    /\ MaxWindow \in Nat
    /\ MaxFailed \in Nat
    /\ MaxClock \in Nat \ {0}

VARIABLES
    row,       \* the stored account
    call,      \* the calls in flight
    clock,
    lastLink,  \* invitation links issued so far
    wins,      \* how often each link was accepted
    spent,     \* how often each code was accepted since the factors were edited
    tries,     \* wrong guesses counted since the last reset or unlock
    revoked    \* revokeInvitation has deleted the account

vars == <<row, call, clock, lastLink, wins, spent, tries, revoked>>

(* -------------------------------- The row ------------------------------- *)
Link == 0..MaxLink      \* 0: no nonce (rows and links written before 0.2)
Window == 0..MaxWindow  \* 0: no code accepted yet / a code that matches nothing
Nonce == Link \union Proc  \* revokeInvitation's nonce is in nobody's link

\* mfa.methods: the totp method with its lastUsedWindow. Of the others only the
\* writing of the list matters.
Methods == [totp : {"none", "new", "on"}, last : Window]
NoMethods == [totp |-> "none", last |-> 0]

Account == [exists : BOOLEAN, active : BOOLEAN, locked : BOOLEAN, lockEnds : Nat,
            failed : Nat, pending : BOOLEAN, nonce : Nonce, mfa : Methods]

Gone == [exists |-> FALSE, active |-> FALSE, locked |-> FALSE, lockEnds |-> 0,
         failed |-> 0, pending |-> FALSE, nonce |-> 0, mfa |-> NoMethods]

\* An account in use, with a confirmed second factor.
Member == [Gone EXCEPT !.exists = TRUE, !.active = TRUE,
                       !.mfa = [totp |-> "on", last |-> 0]]

\* An invited account whose link is l, or that has no nonce.
Invited(l) == [Gone EXCEPT !.exists = TRUE, !.pending = TRUE, !.nonce = l]

Expired == row.lockEnds > 0 /\ row.lockEnds < clock
LockEnd(d) == IF d = 0 THEN 0 ELSE clock + d
Unlocked == [row EXCEPT !.locked = FALSE, !.lockEnds = 0]
LockedFor(d) == [row EXCEPT !.locked = TRUE, !.lockEnds = LockEnd(d)]

(* --------------------------------- Calls -------------------------------- *)
Op == {"none", "signIn", "verifyMfa", "accept", "revoke", "reinvite",
       "add", "confirm", "remove"}
Stage == {"idle", "lift", "record", "fail", "cas", "write", "recheck",
          "delete", "set"}

CallState ==
    [op : Op, at : Stage, next : Stage, failed : Nat, window : Window,
     link : Link, mfa : Methods, attempt : 1..MaxAttempts, fresh : BOOLEAN]

Idle == [op |-> "none", at |-> "idle", next |-> "idle", failed |-> 0,
         window |-> 0, link |-> 0, mfa |-> NoMethods, attempt |-> 1,
         fresh |-> FALSE]

At(p, stage) == call[p].at = stage
Continue(p, c) == call' = [call EXCEPT ![p] = c]

\* A write that was applied: the version moves, nobody else's read is current.
Touched(p, c) == [q \in Proc |-> IF q = p THEN c
                                 ELSE [call[q] EXCEPT !.fresh = FALSE]]

\* store.update without expectedVersion; on a missing row it writes nothing.
Update(p, r, c) ==
    /\ row' = IF row.exists THEN r ELSE row
    /\ call' = IF row.exists THEN Touched(p, c) ELSE [call EXCEPT ![p] = c]

(* ------------------------- Signing in: the checks ----------------------- *)
\* NOT_FOUND, INACTIVE and LOCKED end a call without a write.
MaySignIn == row.exists /\ row.active /\ (row.locked => Expired)

\* The call that passed the checks: it first lifts the lock it found expired.
Checked(c) == [c EXCEPT !.at = IF row.locked THEN "lift" ELSE c.next]

SignIn(next) == Checked([Idle EXCEPT !.op = "signIn", !.next = next])

\* A wrong guess keeps the counter it read.
Wrong == [SignIn("fail") EXCEPT !.failed = row.failed]

\* login with the right password.
LoginRight(p) ==
    /\ At(p, "idle")
    /\ MaySignIn
    /\ Continue(p, SignIn("record"))
    /\ UNCHANGED <<row, clock, lastLink, wins, spent, tries, revoked>>

\* login with a wrong one.
LoginWrong(p) ==
    /\ At(p, "idle")
    /\ MaySignIn
    /\ row.failed < MaxFailed
    /\ Continue(p, Wrong)
    /\ UNCHANGED <<row, clock, lastLink, wins, spent, tries, revoked>>

\* assertCanSignIn writes only when it lifts a lock; so does a verifyMfa that
\* then finds no confirmed totp (MFA_NOT_CONFIGURED).
AssertCanSignIn(p) ==
    /\ At(p, "idle")
    /\ MaySignIn
    /\ row.locked
    /\ Continue(p, SignIn("idle"))
    /\ UNCHANGED <<row, clock, lastLink, wins, spent, tries, revoked>>

\* verifyMfa with a wrong or already used code ...
VerifyMfaWrong(p) ==
    /\ At(p, "idle")
    /\ MaySignIn /\ row.mfa.totp = "on"
    /\ row.failed < MaxFailed
    /\ Continue(p, Wrong)
    /\ UNCHANGED <<row, clock, lastLink, wins, spent, tries, revoked>>

\* ... and with one that is newer than the last one used.
VerifyMfaRight(p) ==
    /\ At(p, "idle")
    /\ MaySignIn /\ row.mfa.totp = "on"
    /\ \E w \in Window :
          /\ w > row.mfa.last
          /\ Continue(p, Checked([Idle EXCEPT !.op = "verifyMfa", !.next = "cas",
                                              !.window = w, !.failed = row.failed]))
    /\ UNCHANGED <<row, clock, lastLink, wins, spent, tries, revoked>>

\* ensureNotLockedOrThrow: a plain write, whatever the lock is by now.
Lift(p) ==
    /\ At(p, "lift")
    /\ Update(p, Unlocked,
              IF call[p].next = "idle" THEN Idle
              ELSE [call[p] EXCEPT !.at = call[p].next])
    /\ tries' = IF row.exists THEN 0 ELSE tries
    /\ UNCHANGED <<clock, lastLink, wins, spent, revoked>>

\* recordLogin: the reset of the counter (lastLogin is not modelled).
RecordLogin(p) ==
    /\ At(p, "record")
    /\ Update(p, [row EXCEPT !.failed = 0], Idle)
    /\ tries' = 0
    /\ UNCHANGED <<clock, lastLink, wins, spent, revoked>>

\* Mutant: the threshold is passed, not reached.
TripsLate(c) == c.failed + 1 > Threshold

\* incrementAndMaybeLock decides from the row read before the check ...
Trips(c) == c.failed + 1 >= Threshold

\* Mutant: the counter is written back from the row read before the check.
CountedStale(c) == [row EXCEPT !.failed = c.failed + 1]

\* ... and increments the stored one; the lock's duration is the configured one
\* or, by lockoutOverride, none. (An override of the threshold is not modelled.)
Counted(c) == [row EXCEPT !.failed = row.failed + 1]

Fail(p) ==
    LET c == call[p] IN
    /\ At(p, "fail")
    /\ \/ /\ ~Trips(c)
          /\ Update(p, Counted(c), Idle)
       \/ /\ Trips(c)
          /\ \E d \in {0, Duration} :
                Update(p, [Counted(c) EXCEPT !.locked = TRUE, !.lockEnds = LockEnd(d)], Idle)
    /\ tries' = IF row.exists THEN tries + 1 ELSE tries
    /\ UNCHANGED <<clock, lastLink, wins, spent, revoked>>

(* ---------------------------- Compare-and-set --------------------------- *)
\* Calls that start with withCas: nothing is read before it.
StartCas(p, c) ==
    /\ At(p, "idle")
    /\ Continue(p, [c EXCEPT !.at = "cas"])
    /\ UNCHANGED <<row, clock, lastLink, wins, spent, tries, revoked>>

Accept(p) == \E l \in 0..lastLink : StartCas(p, [Idle EXCEPT !.op = "accept", !.link = l])
Revoke(p) == StartCas(p, [Idle EXCEPT !.op = "revoke"])
AddTotp(p) == StartCas(p, [Idle EXCEPT !.op = "add"])
ConfirmTotp(p) == StartCas(p, [Idle EXCEPT !.op = "confirm"])

\* Mutant: the code is not compared with lastUsedWindow again.
DeclinesNoCode(c) ==
    \/ c.op = "accept" /\ (~row.pending \/ row.nonce \notin {0, c.link})
    \/ c.op = "revoke" /\ ~row.pending
    \/ c.op = "confirm" /\ row.mfa.totp = "none"

\* Mutant: a link is judged by its nonce alone.
DeclinesByNonce(c) ==
    \/ c.op = "verifyMfa" /\ row.mfa.totp = "on" /\ c.window <= row.mfa.last
    \/ c.op = "accept" /\ row.nonce \notin {0, c.link}
    \/ c.op = "revoke" /\ ~row.pending
    \/ c.op = "confirm" /\ row.mfa.totp = "none"

\* The mutator returns null, or throws: nothing to write.
Declines(c) ==
    \/ c.op = "verifyMfa" /\ row.mfa.totp = "on" /\ c.window <= row.mfa.last
    \/ c.op = "accept" /\ (~row.pending \/ row.nonce \notin {0, c.link})
    \/ c.op = "revoke" /\ ~row.pending
    \/ c.op = "confirm" /\ row.mfa.totp = "none"

\* The row with the mutator's patch. A code of a method that is not confirmed
\* any more is accepted without being recorded.
Patched(p, op) ==
    CASE op = "verifyMfa" -> [row EXCEPT !.failed = 0,
                                !.mfa.last = IF row.mfa.totp = "on" THEN call[p].window
                                             ELSE row.mfa.last]
      [] op = "accept"    -> [row EXCEPT !.pending = FALSE]
      [] op = "revoke"    -> [row EXCEPT !.nonce = p]
      [] op = "add"       -> [row EXCEPT !.mfa.totp = "new", !.mfa.last = 0]
      [] OTHER            -> [row EXCEPT !.mfa.totp = "on"]

CasRead(p) ==
    LET c == call[p] IN
    /\ At(p, "cas")
    /\ \/ /\ row.exists /\ ~Declines(c)
          /\ Continue(p, [c EXCEPT !.at = "write", !.fresh = TRUE])
       \/ /\ ~row.exists
          /\ Continue(p, Idle)
       \/ /\ row.exists /\ Declines(c)
          /\ Continue(p, IF c.op = "verifyMfa" THEN [c EXCEPT !.at = "fail"] ELSE Idle)
    /\ UNCHANGED <<row, clock, lastLink, wins, spent, tries, revoked>>

\* Mutant: the version is not compared.
CasAppliesBlind(p) == row.exists

CasApplies(p) == call[p].fresh

CasWrite(p) ==
    LET c == call[p] IN
    /\ At(p, "write")
    /\ CasApplies(p)
    /\ row' = Patched(p, c.op)
    /\ call' = Touched(p, IF c.op = "revoke" THEN [Idle EXCEPT !.op = "revoke", !.at = "recheck"]
                          ELSE Idle)
    /\ wins' = IF c.op = "accept" THEN [wins EXCEPT ![c.link] = wins[c.link] + 1] ELSE wins
    /\ spent' = CASE c.op = "verifyMfa" /\ row.mfa.totp = "on" ->
                         [spent EXCEPT ![c.window] = spent[c.window] + 1]
                  [] c.op = "add" -> [w \in Window |-> 0]
                  [] OTHER -> spent
    /\ tries' = IF c.op = "verifyMfa" THEN 0 ELSE tries
    /\ UNCHANGED <<clock, lastLink, revoked>>

Retries(c) == c.attempt < MaxAttempts

\* The version moved: read again, or give up with CAS_EXHAUSTED.
CasMiss(p) ==
    LET c == call[p] IN
    /\ At(p, "write")
    /\ ~CasApplies(p)
    /\ Continue(p, IF Retries(c) THEN [c EXCEPT !.at = "cas", !.attempt = c.attempt + 1]
                   ELSE Idle)
    /\ UNCHANGED <<row, clock, lastLink, wins, spent, tries, revoked>>

(* ------------------------------ Invitations ----------------------------- *)
\* revokeInvitation has rotated the nonce: is the row still the one it claimed?
Recheck(p) ==
    /\ At(p, "recheck")
    /\ Continue(p, IF row.exists /\ row.pending /\ row.nonce = p
                   THEN [call[p] EXCEPT !.at = "delete", !.fresh = TRUE]
                   ELSE Idle)
    /\ UNCHANGED <<row, clock, lastLink, wins, spent, tries, revoked>>

\* Mutant: the delete does not compare the version.
DeletesAlways(p) == row.exists

Deletes(p) == call[p].fresh

DeleteClaimed(p) ==
    /\ At(p, "delete")
    /\ IF Deletes(p)
       THEN /\ row' = Gone
            /\ call' = Touched(p, Idle)
            /\ revoked' = TRUE
       ELSE /\ Continue(p, Idle)
            /\ UNCHANGED <<row, revoked>>
    /\ UNCHANGED <<clock, lastLink, wins, spent, tries>>

\* The invite workflow's create-user step on an invited address: if the row it
\* reads is still pending ...
Reinvite(p) ==
    /\ At(p, "idle")
    /\ row.exists /\ row.pending
    /\ Continue(p, [Idle EXCEPT !.op = "reinvite", !.at = "set"])
    /\ UNCHANGED <<row, clock, lastLink, wins, spent, tries, revoked>>

\* ... a fresh nonce is written plainly; its link is sent only afterwards.
WriteInvite(p) ==
    /\ At(p, "set")
    /\ call[p].op = "reinvite"
    /\ lastLink < MaxLink
    /\ Update(p, [row EXCEPT !.pending = TRUE, !.nonce = lastLink + 1], Idle)
    /\ lastLink' = IF row.exists THEN lastLink + 1 ELSE lastLink
    /\ UNCHANGED <<clock, wins, spent, tries, revoked>>

(* -------------------------- Second factors: removal --------------------- *)
\* removeMfaMethod of totp or of another method ...
RemoveMethod(p) ==
    /\ At(p, "idle")
    /\ row.exists
    /\ \E rest \in {NoMethods, row.mfa} :
          Continue(p, [Idle EXCEPT !.op = "remove", !.at = "set", !.mfa = rest])
    /\ UNCHANGED <<row, clock, lastLink, wins, spent, tries, revoked>>

\* ... writes back what is left of the list it read.
WriteMethods(p) ==
    /\ At(p, "set")
    /\ call[p].op = "remove"
    /\ Update(p, [row EXCEPT !.mfa = call[p].mfa], Idle)
    /\ spent' = [w \in Window |-> 0]
    /\ UNCHANGED <<clock, lastLink, wins, tries, revoked>>

(* ------------------- Operations of a single store write ----------------- *)
Put(r) ==
    /\ row.exists
    /\ row' = r
    /\ call' = [q \in Proc |-> [call[q] EXCEPT !.fresh = FALSE]]
    /\ UNCHANGED <<clock, lastLink, wins, spent, revoked>>

LockAccount == \E d \in {0, Duration} : Put(LockedFor(d)) /\ UNCHANGED tries
UnlockAccount == Put([Unlocked EXCEPT !.failed = 0]) /\ tries' = 0
ActivateAccount == Put([row EXCEPT !.active = TRUE]) /\ UNCHANGED tries
DeactivateAccount == Put([row EXCEPT !.active = FALSE]) /\ UNCHANGED tries
DeleteUser == Put(Gone) /\ UNCHANGED tries

\* recordLogin after a sign-in without a password.
RecordPasswordless == Put([row EXCEPT !.failed = 0]) /\ tries' = 0

\* Writes to the rest of the row (profile, password, devices, default method).
OtherWrite == Put(row) /\ UNCHANGED tries

Tick ==
    /\ clock < MaxClock
    /\ clock' = clock + 1
    /\ UNCHANGED <<row, call, lastLink, wins, spent, tries, revoked>>

(* ---------------------------- Specification ----------------------------- *)
Init ==
    /\ \/ "member" \in Start /\ row = Member /\ lastLink = 0
       \/ "invited" \in Start /\ lastLink \in {0, 1} /\ row = Invited(lastLink)
    /\ call = [p \in Proc |-> Idle]
    /\ clock = 1
    /\ wins = [l \in Link |-> 0]
    /\ spent = [w \in Window |-> 0]
    /\ tries = 0
    /\ revoked = FALSE

Step(p) ==
    \/ LoginRight(p) \/ LoginWrong(p) \/ AssertCanSignIn(p)
    \/ VerifyMfaRight(p) \/ VerifyMfaWrong(p)
    \/ Lift(p) \/ RecordLogin(p) \/ Fail(p)
    \/ Accept(p) \/ Revoke(p) \/ AddTotp(p) \/ ConfirmTotp(p)
    \/ CasRead(p) \/ CasWrite(p) \/ CasMiss(p)
    \/ Recheck(p) \/ DeleteClaimed(p) \/ Reinvite(p) \/ WriteInvite(p)
    \/ RemoveMethod(p) \/ WriteMethods(p)

Next ==
    \/ \E p \in Proc : Step(p)
    \/ LockAccount \/ UnlockAccount \/ ActivateAccount \/ DeactivateAccount
    \/ DeleteUser \/ RecordPasswordless \/ OtherWrite \/ Tick

Spec == Init /\ [][Next]_vars

(* ------------------------------ Properties ------------------------------ *)
\* Types; in particular a compare-and-set makes at most MaxAttempts attempts.
TypeOK ==
    /\ row \in Account
    /\ call \in [Proc -> CallState]
    /\ clock \in Nat
    /\ lastLink \in Link
    /\ wins \in [Link -> Nat]
    /\ spent \in [Window -> Nat]
    /\ tries \in Nat
    /\ revoked \in BOOLEAN

\* verifyMfa: while the list of second factors is not edited, a one-time code
\* signs in once, however many calls present it together.
OneWinnerPerCode == \A w \in Window : spent[w] <= 1

\* incrementAndMaybeLock increments the stored counter: no wrong guess made
\* since the last reset is lost, whatever the calls read before.
NoGuessLost == row.exists => row.failed >= tries

\* The lock comes late by at most the calls in flight: an unlocked account has
\* taken fewer wrong guesses than the threshold plus one per concurrent call.
LockComesInTime ==
    row.exists /\ ~row.locked /\ Threshold > 1 =>
        tries <= Threshold + Cardinality(Proc) - 2

\* acceptInvitation: an invitation link is accepted once.
LinkAcceptedOnce == \A l \in Link : wins[l] <= 1

\* acceptInvitation: what is accepted is a pending invitation by the link the
\* row names, or by any link if the row names none.
AcceptsCurrentLink ==
    \A l \in Link : wins'[l] > wins[l] => row.pending /\ row.nonce \in {0, l}

\* revokeInvitation deletes a row only while its invitation is pending and the
\* nonce is the one a revocation wrote.
RevokesPendingOnly ==
    revoked' # revoked => row.exists /\ row.pending /\ row.nonce \in Proc

\* Both: an invitation ends only while it is pending, and only by who holds it:
\* the link the row names, or the revocation that claimed it.
InvitationsAreClaimed == [][AcceptsCurrentLink /\ RevokesPendingOnly]_vars

\* The documentation of revokeInvitation: it deletes nothing when the invitation
\* was already accepted. (Violated: a re-invite that read the row before the
\* acceptance makes it pending again.)
AcceptedNeverRevoked == revoked => \A l \in Link : wins[l] = 0
=============================================================================
