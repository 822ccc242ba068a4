----------------------------- MODULE Accounts_proofs -----------------------------
(***************************************************************************)
(* Proofs about what UserService keeps of an account besides its sign-in   *)
(* state: the password with its history, the snapshots of the row, and the *)
(* lists of devices.  They hold for any number of calls and scopes, any    *)
(* history length, any cap of the ledger and any time a device is          *)
(* remembered.                                                             *)
(*                                                                         *)
(* DeviceInv, of the passwords and the snapshots, assumes nothing of the   *)
(* lists.  LedgerInv is about the lists; it rests on what the operators of *)
(* SeenDevices make of one, which comes before it: a filter has the        *)
(* records it takes and no other, a sort has every record once, and a      *)
(* ledger over its cap keeps as many as it may have, which end last.       *)
(***************************************************************************)
EXTENDS Accounts, SeenDevices, FiniteSetTheorems, Sequences, TLAPS

(* ------------------------------ The invariant ---------------------------- *)
\* Calls and rows have the fields they are made with.  Of the lists in them
\* nothing is said: the writes the snapshots are about are any writes.
DeviceIsCall(k) ==
    k = [op |-> k.op, at |-> k.at, device |-> k.device, list |-> k.list, hash |-> k.hash,
         past |-> k.past, version |-> k.version, attempt |-> k.attempt, wrote |-> k.wrote,
         dead |-> k.dead, calm |-> k.calm]
DeviceIsRow(r) ==
    /\ r = [version |-> r.version, trusted |-> r.trusted, seen |-> r.seen, hash |-> r.hash, past |-> r.past]
    /\ r.version \in Nat
DeviceSnapshot == [at : {"none", "asked", "read"}, epoch : Nat, version : Nat]

DeviceFormsHold ==
    /\ setup \in DeviceSetups /\ epoch \in Nat /\ done \in Nat
    /\ DeviceIsRow(account)
    /\ busy = [c \in DeviceCalls |-> busy[c]] /\ \A c \in DeviceCalls : DeviceIsCall(busy[c])
    /\ kept \in [Scopes -> DeviceSnapshot]

\* A version that was written, or reported written, is not ahead of the row's; and a
\* snapshot of this epoch was read after the last report.
DeviceWroteHolds(k) ==
    /\ k.at = "write" => k.op \in {"distrust", "forget", "password", "other"}
    /\ k.wrote \in Nat /\ k.wrote <= account.version
DeviceSnapshotsHold ==
    /\ done <= account.version
    /\ \A s \in Scopes : /\ kept[s].epoch <= epoch
                         /\ kept[s].at = "read" /\ kept[s].epoch = epoch => kept[s].version >= done
DeviceCallsHold == \A c \in DeviceCalls : DeviceWroteHolds(busy[c])

\* The row has the last password and the ones before it, newest first, and the one
\* change that may be on its way was compared with all of these.
DeviceKept == Len(worn) - 1
DevicePastHolds ==
    /\ worn \in Seq(Int) /\ Len(worn) > 0 /\ account.hash = worn[Len(worn)]
    /\ account.past \in Seq(Int)
    /\ Len(account.past) = IF setup.historyLength <= DeviceKept THEN setup.historyLength ELSE DeviceKept
    /\ \A i \in DOMAIN account.past : account.past[i] = worn[Len(worn) - i]
DeviceChangeHolds(k) ==
    k.op = "password" /\ k.at = "write" =>
        /\ k.hash \in Int /\ k.hash \notin {account.hash} \cup Devices!ToSet(account.past)
        /\ k.past = Devices!History(account)
DevicePasswordsHold ==
    apart =>
        /\ DevicePastHolds
        /\ \A c \in DeviceCalls : DeviceChangeHolds(busy[c])
        /\ \A c, d \in Devices!Running("password") : c = d
        /\ Devices!PasswordsAreFresh

DeviceStoresHold == DeviceFormsHold /\ DeviceSnapshotsHold
DeviceInv == DeviceStoresHold /\ DeviceCallsHold /\ DevicePasswordsHold

(* ------------------------------- Sequences ------------------------------- *)
LEMMA DeviceMinOfTwo == ASSUME NEW a \in Int, NEW b \in Int PROVE Devices!Min({a, b}) = IF a <= b THEN a ELSE b
  BY DEF Devices!Min

LEMMA DeviceMaxOfTwo == ASSUME NEW a \in Int, NEW b \in Int PROVE Devices!Max({a, b}) = IF a >= b THEN a ELSE b
  BY DEF Devices!Max

\* The history that goes with a change: the password of the row before those it remembers.
LEMMA DeviceHistoryIs ==
  ASSUME Devices!DeploymentsHold, setup \in DeviceSetups, account.past \in Seq(Int),
         account.hash \in Int,
         NEW n \in Nat, n = IF setup.historyLength <= Len(account.past) + 1 THEN setup.historyLength
                                                                        ELSE Len(account.past) + 1
  PROVE  /\ Devices!History(account) \in Seq(Int) /\ Len(Devices!History(account)) = n
         /\ \A i \in 1 .. n : Devices!History(account)[i] = IF i = 1 THEN account.hash ELSE account.past[i - 1]
<1>1. Devices!Min({setup.historyLength, Len(account.past) + 1}) = n
  BY DeviceMinOfTwo DEF Devices!DeploymentsHold
<1>2. PICK all : all = <<account.hash>> \o account.past
  OBVIOUS
<1>3. /\ all \in Seq(Int) /\ Len(all) = Len(account.past) + 1
      /\ \A i \in 1 .. Len(all) : all[i] = IF i = 1 THEN account.hash ELSE account.past[i - 1]
  BY <1>2
<1>4. Devices!History(account) = SubSeq(all, 1, n)
  BY <1>1, <1>2 DEF Devices!History
<1>5. n <= Len(all)
  BY <1>3 DEF Devices!DeploymentsHold
<1>6. /\ SubSeq(all, 1, n) \in Seq(Int) /\ Len(SubSeq(all, 1, n)) = n
      /\ \A i \in 1 .. n : SubSeq(all, 1, n)[i] = all[i]
  BY <1>3, <1>5
<1> QED BY <1>3, <1>4, <1>5, <1>6

(* -------------------------------- Any step -------------------------------- *)
\* A call goes on: the others stay as they are.
LEMMA DeviceCallsMove ==
  ASSUME DeviceInv, NEW c \in DeviceCalls, NEW k, Devices!Goes(c, k), DeviceIsCall(k)
  PROVE  /\ busy' = [d \in DeviceCalls |-> busy'[d]] /\ busy'[c] = k
         /\ \A d \in DeviceCalls : d # c => busy'[d] = busy[d]
         /\ \A d \in DeviceCalls : DeviceIsCall(busy'[d])
  BY DEF DeviceInv, DeviceStoresHold, DeviceFormsHold, Devices!Goes

\* The same for a step of a call that leaves the row's password and the clock of the
\* snapshots as they are, or moves them on.
DeviceQuiet == account'.hash = account.hash /\ account'.past = account.past /\ UNCHANGED <<setup, worn>>

LEMMA DeviceCallStep ==
  ASSUME DeviceInv, NEW c \in DeviceCalls, NEW k, Devices!Goes(c, k), DeviceIsCall(k),
         DeviceWroteHolds(k)',
         DeviceIsRow(account'), account.version <= account'.version,
         epoch' \in Nat, epoch <= epoch', UNCHANGED <<kept, done, setup>>
  PROVE  DeviceStoresHold' /\ DeviceCallsHold'
<1>1. /\ busy' = [d \in DeviceCalls |-> busy'[d]] /\ busy'[c] = k
      /\ \A d \in DeviceCalls : d # c => busy'[d] = busy[d]
      /\ \A d \in DeviceCalls : DeviceIsCall(busy'[d])
  BY DeviceCallsMove
<1>2. DeviceFormsHold'
  BY <1>1 DEF DeviceInv, DeviceStoresHold, DeviceFormsHold
<1>3. DeviceSnapshotsHold'
  BY DEF DeviceInv, DeviceStoresHold, DeviceFormsHold, DeviceSnapshotsHold, DeviceIsRow,
         DeviceSnapshot
<1>4. DeviceCallsHold'
  <2> SUFFICES ASSUME NEW d \in DeviceCalls PROVE DeviceWroteHolds(busy[d])'
    BY DEF DeviceCallsHold
  <2>1. CASE d = c
    BY <1>1, <2>1
  <2>2. CASE d # c
    BY <1>1, <2>2 DEF DeviceInv, DeviceCallsHold, DeviceWroteHolds, DeviceStoresHold,
                      DeviceFormsHold, DeviceIsRow
  <2> QED BY <2>1, <2>2
<1> QED BY <1>2, <1>3, <1>4 DEF DeviceStoresHold

\* A step of a call other than a change of the password.
LEMMA DeviceOtherStep ==
  ASSUME DeviceInv, NEW c \in DeviceCalls, NEW k, Devices!Goes(c, k), DeviceIsCall(k), DeviceQuiet,
         apart' = apart,
         k.op = "password" => busy[c].op = "password" /\ k.at # "write"
  PROVE  DevicePasswordsHold'
<1>1. /\ busy'[c] = k /\ \A d \in DeviceCalls : d # c => busy'[d] = busy[d]
  BY DeviceCallsMove
<1> SUFFICES ASSUME apart PROVE /\ DevicePastHolds' /\ (\A d \in DeviceCalls : DeviceChangeHolds(busy[d])')
                                /\ (\A d, e \in Devices!Running("password")' : d = e) /\ Devices!PasswordsAreFresh'
  BY DEF DevicePasswordsHold
<1>2. DevicePastHolds' /\ Devices!PasswordsAreFresh'
  BY DEF DeviceInv, DevicePasswordsHold, DevicePastHolds, Devices!PasswordsAreFresh, DeviceQuiet,
         DeviceKept
<1>3. ASSUME NEW d \in DeviceCalls PROVE DeviceChangeHolds(busy[d])'
  <2>1. Devices!History(account)' = Devices!History(account)
    BY DEF Devices!History, DeviceQuiet
  <2>2. CASE d = c
    BY <1>1, <2>2 DEF DeviceChangeHolds
  <2>3. CASE d # c
    BY <1>1, <2>1, <2>3 DEF DeviceChangeHolds, DeviceInv, DevicePasswordsHold, DeviceQuiet
  <2> QED BY <2>2, <2>3
<1>4. Devices!Running("password")' \subseteq Devices!Running("password")
  BY <1>1 DEF Devices!Running
<1> QED BY <1>2, <1>3, <1>4 DEF DeviceInv, DevicePasswordsHold

\* A step of a call that writes nothing.
LEMMA DeviceQuietStep ==
  ASSUME DeviceInv, NEW c \in DeviceCalls, NEW k, Devices!Goes(c, k), DeviceIsCall(k),
         k.wrote \in {0, busy[c].wrote},
         k.at = "write" => k.op \in {"distrust", "forget", "other"},
         k.op = "password" => busy[c].op = "password" /\ k.at # "write",
         epoch' \in {epoch, epoch + 1}, UNCHANGED <<account, kept, done, setup, worn, apart>>
  PROVE  DeviceInv'
<1>1. /\ epoch \in Nat /\ epoch' \in Nat /\ epoch <= epoch' /\ account.version \in Nat
      /\ DeviceIsRow(account)' /\ account.version <= account'.version
  BY DEF DeviceInv, DeviceStoresHold, DeviceFormsHold, DeviceIsRow
<1>2. DeviceWroteHolds(busy[c])
  BY DEF DeviceInv, DeviceCallsHold
<1>3. DeviceWroteHolds(k)'
  BY <1>1, <1>2 DEF DeviceWroteHolds
<1>4. DeviceStoresHold' /\ DeviceCallsHold'
  BY <1>1, <1>3, DeviceCallStep
<1>5. DevicePasswordsHold'
  BY DeviceOtherStep DEF DeviceQuiet
<1> QED BY <1>4, <1>5 DEF DeviceInv

LEMMA DeviceCallIs == ASSUME DeviceInv, NEW c \in DeviceCalls PROVE DeviceIsCall(busy[c]) /\ DeviceWroteHolds(busy[c])
  BY DEF DeviceInv, DeviceStoresHold, DeviceFormsHold, DeviceCallsHold

(* -------------------------------- The steps ------------------------------- *)
LEMMA DeviceTrustStep ==
  ASSUME DeviceInv, NEW c \in DeviceCalls, Devices!Trust(c)
  PROVE  DeviceInv'
<1>1. PICK k : /\ Devices!Goes(c, k) /\ epoch' = epoch + 1
               /\ \E list : k = [Devices!Idle EXCEPT !.op = "trust", !.at = "read", !.list = list]
  BY DEF Devices!Trust, Devices!Starts
<1>2. DeviceIsCall(k) /\ k.op = "trust" /\ k.at = "read" /\ k.wrote = 0
  BY <1>1 DEF DeviceIsCall, Devices!Idle
<1>3. UNCHANGED <<account, kept, done, setup, worn, apart>>
  BY DEF Devices!Trust, Devices!ghosts
<1> QED BY <1>1, <1>2, <1>3, DeviceQuietStep

LEMMA DeviceRecognitionStep ==
  ASSUME DeviceInv, NEW c \in DeviceCalls, NEW d,
         Devices!DeviceRecognition(c, d) \/ Devices!Unrecognized(c)
  PROVE  DeviceInv'
<1>1. PICK k : /\ Devices!Goes(c, k) /\ epoch' = epoch + 1
               /\ \/ \E list : k = [Devices!Idle EXCEPT !.op = "see", !.at = "read", !.list = list]
                  \/ k = [Devices!Idle EXCEPT !.op = "slide", !.at = "read", !.device = d]
  BY DEF Devices!DeviceRecognition, Devices!Unrecognized, Devices!Starts
<1>2. DeviceIsCall(k) /\ k.op \in {"see", "slide"} /\ k.at = "read" /\ k.wrote = 0
  BY <1>1 DEF DeviceIsCall, Devices!Idle
<1>3. UNCHANGED <<account, kept, done, setup, worn, apart>>
  BY DEF Devices!DeviceRecognition, Devices!Unrecognized, Devices!ghosts
<1> QED BY <1>1, <1>2, <1>3, DeviceQuietStep

LEMMA DevicePlainStep ==
  ASSUME DeviceInv, NEW c \in DeviceCalls,
         Devices!RevokeSeenDevices(c) \/ Devices!WriteElse(c) \/ Devices!Fail(c)
  PROVE  DeviceInv'
<1>1. PICK k : /\ Devices!Goes(c, k) /\ epoch' \in {epoch, epoch + 1}
               /\ \/ k = [Devices!Idle EXCEPT !.op = "forget", !.at = "write"]
                  \/ k = [Devices!Idle EXCEPT !.op = "other", !.at = "write"]
                  \/ k = [Devices!Idle EXCEPT !.at = "end"]
  BY DEF Devices!RevokeSeenDevices, Devices!WriteElse, Devices!Fail, Devices!Starts
<1>2. /\ DeviceIsCall(k) /\ k.op \in {"forget", "other", "none"} /\ k.wrote = 0
      /\ k.op = "none" => k.at = "end"
  BY <1>1 DEF DeviceIsCall, Devices!Idle
<1>3. UNCHANGED <<account, kept, done, setup, worn, apart>>
  BY DEF Devices!RevokeSeenDevices, Devices!WriteElse, Devices!Fail, Devices!ghosts
<1> QED BY <1>1, <1>2, <1>3, DeviceQuietStep

LEMMA DeviceCasReadStep ==
  ASSUME DeviceInv, NEW c \in DeviceCalls, Devices!CasRead(c)
  PROVE  DeviceInv'
<1>1. PICK q : q = busy[c] /\ DeviceIsCall(q) /\ q.at = "read"
  BY DeviceCallIs DEF Devices!CasRead, Devices!At
<1>2. PICK k : /\ Devices!Goes(c, k)
               /\ \/ k = [q EXCEPT !.at = "end"]
                  \/ \E list : k = [q EXCEPT !.at = "cas", !.version = account.version, !.past = list]
  BY <1>1 DEF Devices!CasRead
<1>3. DeviceIsCall(k) /\ k.op = q.op /\ k.at # "write" /\ k.wrote = q.wrote
  BY <1>1, <1>2 DEF DeviceIsCall
<1>4. UNCHANGED <<account, kept, done, setup, worn, apart, epoch>>
  BY DEF Devices!CasRead, Devices!ghosts
<1> QED BY <1>1, <1>2, <1>3, <1>4, DeviceQuietStep

\* The rows a write makes.
DeviceWrote(n, r, hash, past) == DeviceIsRow(n) /\ n.version = r.version + 1 /\ n.hash = hash /\ n.past = past
LEMMA DeviceWrittenRow ==
  ASSUME NEW r, DeviceIsRow(r), NEW x, NEW y
  PROVE  /\ DeviceWrote(Devices!Applied([r EXCEPT !.trusted = x]), r, r.hash, r.past)
         /\ DeviceWrote(Devices!Applied([r EXCEPT !.seen = x]), r, r.hash, r.past)
         /\ DeviceWrote(Devices!Applied([r EXCEPT !.hash = x, !.past = y]), r, x, y)
         /\ DeviceWrote(Devices!Applied(r), r, r.hash, r.past)
<1>1. PICK v, t, s, h, l :
         v \in Nat /\ r = [version |-> v, trusted |-> t, seen |-> s, hash |-> h, past |-> l]
  BY DEF DeviceIsRow
<1>2. PICK w \in Nat : w = v + 1
  BY <1>1
<1>3. r.version + 1 = w /\ r.hash = h /\ r.past = l
  BY <1>1, <1>2
<1>4. ASSUME NEW a, NEW b, NEW c, NEW d
      PROVE  DeviceWrote(Devices!Applied([version |-> v, trusted |-> a, seen |-> b, hash |-> c, past |-> d]), r, c, d)
  <2>1. Devices!Applied([version |-> v, trusted |-> a, seen |-> b, hash |-> c, past |-> d])
           = [version |-> w, trusted |-> a, seen |-> b, hash |-> c, past |-> d]
    BY <1>2 DEF Devices!Applied
  <2> QED BY <1>3, <2>1 DEF DeviceWrote, DeviceIsRow
<1>5. [r EXCEPT !.trusted = x] = [version |-> v, trusted |-> x, seen |-> s, hash |-> h, past |-> l]
  BY <1>1
<1>6. [r EXCEPT !.seen = x] = [version |-> v, trusted |-> t, seen |-> x, hash |-> h, past |-> l]
  BY <1>1
<1>7. [r EXCEPT !.hash = x, !.past = y]
         = [version |-> v, trusted |-> t, seen |-> s, hash |-> x, past |-> y]
  <2>1. PICK z : z = [version |-> v, trusted |-> t, seen |-> s, hash |-> x, past |-> l]
    OBVIOUS
  <2>2. [r EXCEPT !.hash = x] = z
    BY <1>1, <2>1
  <2>3. [z EXCEPT !.past = y] = [version |-> v, trusted |-> t, seen |-> s, hash |-> x, past |-> y]
    BY <2>1
  <2>4. [r EXCEPT !.hash = x, !.past = y] = [[r EXCEPT !.hash = x] EXCEPT !.past = y]
    BY <1>1
  <2> QED BY <2>2, <2>3, <2>4
<1> QED BY <1>1, <1>3, <1>4, <1>5, <1>6, <1>7

LEMMA DeviceCasWriteStep ==
  ASSUME DeviceInv, NEW c \in DeviceCalls, Devices!CasWrite(c)
  PROVE  DeviceInv'
<1>1. PICK q : q = busy[c] /\ DeviceIsCall(q) /\ q.at = "cas"
  BY DeviceCallIs DEF Devices!CasWrite, Devices!At
<1>2. UNCHANGED <<kept, done, setup, worn, apart, epoch>>
  BY DEF Devices!CasWrite, Devices!ghosts
<1>3. CASE Devices!CasApplies(q)
  <2>1. PICK list : account' = Devices!Applied([account EXCEPT !.trusted = list]) \/ account' = Devices!Applied([account EXCEPT !.seen = list])
    BY <1>1, <1>3 DEF Devices!CasWrite
  <2>2. DeviceIsRow(account) /\ epoch \in Nat
    BY DEF DeviceInv, DeviceStoresHold, DeviceFormsHold
  <2>3. /\ DeviceIsRow(account') /\ account'.version = account.version + 1
        /\ account'.hash = account.hash /\ account'.past = account.past
    <3>1. DeviceWrote(account', account, account.hash, account.past)
      BY <2>1, <2>2, DeviceWrittenRow
    <3> QED BY <3>1 DEF DeviceWrote
  <2>4. PICK k : Devices!Goes(c, k) /\ k = [q EXCEPT !.at = "end", !.wrote = account'.version]
    BY <1>1, <1>3 DEF Devices!CasWrite
  <2>5. DeviceIsCall(k) /\ k.op = q.op /\ k.at = "end" /\ k.wrote = account'.version
    BY <1>1, <2>4 DEF DeviceIsCall
  <2>6. DeviceWroteHolds(k)'
    BY <2>2, <2>3, <2>5 DEF DeviceWroteHolds, DeviceIsRow
  <2>7. account.version <= account'.version
    BY <2>2, <2>3 DEF DeviceIsRow
  <2>8. DeviceStoresHold' /\ DeviceCallsHold'
    BY <1>2, <2>2, <2>3, <2>4, <2>5, <2>6, <2>7, DeviceCallStep
  <2>9. DevicePasswordsHold'
    BY <1>1, <1>2, <2>3, <2>4, <2>5, DeviceOtherStep DEF DeviceQuiet
  <2> QED BY <2>8, <2>9 DEF DeviceInv
<1>4. CASE ~Devices!CasApplies(q)
  <2>1. PICK k : /\ Devices!Goes(c, k)
                 /\ \/ k = [q EXCEPT !.at = "read", !.attempt = q.attempt + 1, !.past = <<>>, !.version = 0]
                    \/ k = [q EXCEPT !.at = "end"]
    BY <1>1, <1>4 DEF Devices!CasWrite
  <2>2. DeviceIsCall(k) /\ k.op = q.op /\ k.at # "write" /\ k.wrote = q.wrote
    BY <1>1, <2>1 DEF DeviceIsCall
  <2>3. UNCHANGED account
    BY <1>1, <1>4 DEF Devices!CasWrite
  <2> QED BY <1>1, <1>2, <2>1, <2>2, <2>3, DeviceQuietStep
<1> QED BY <1>3, <1>4

LEMMA DeviceUpdateStep ==
  ASSUME Devices!DeploymentsHold, DeviceInv, NEW c \in DeviceCalls, Devices!Update(c)
  PROVE  DeviceInv'
<1>1. PICK q : q = busy[c] /\ DeviceIsCall(q) /\ DeviceWroteHolds(q) /\ q.at = "write"
  BY DeviceCallIs DEF Devices!Update, Devices!At
<1>2. UNCHANGED <<kept, done, setup, apart, epoch>>
  BY DEF Devices!Update
<1>3. q.op \in {"distrust", "forget", "password", "other"}
  BY <1>1 DEF DeviceWroteHolds
<1>4. DeviceIsRow(account) /\ epoch \in Nat /\ setup \in DeviceSetups
  BY DEF DeviceInv, DeviceStoresHold, DeviceFormsHold
<1>5. account' = Devices!Applied(Devices!Written(q, account))
  BY <1>1 DEF Devices!Update
<1>6. /\ DeviceIsRow(account') /\ account'.version = account.version + 1
      /\ q.op # "password" => account'.hash = account.hash /\ account'.past = account.past
      /\ q.op = "password" => account'.hash = q.hash /\ account'.past = q.past
  <2>1. CASE q.op = "distrust"
    <3>1. account' = Devices!Applied([account EXCEPT !.trusted = q.list])
      BY <1>5, <2>1 DEF Devices!Written
    <3>2. DeviceWrote(account', account, account.hash, account.past)
      BY <1>4, <3>1, DeviceWrittenRow
    <3> QED BY <2>1, <3>2 DEF DeviceWrote
  <2>2. CASE q.op = "forget"
    <3>1. account' = Devices!Applied([account EXCEPT !.seen = <<>>])
      BY <1>5, <2>2 DEF Devices!Written
    <3>2. DeviceWrote(account', account, account.hash, account.past)
      BY <1>4, <3>1, DeviceWrittenRow
    <3> QED BY <2>2, <3>2 DEF DeviceWrote
  <2>3. CASE q.op = "password"
    <3>1. account' = Devices!Applied([account EXCEPT !.hash = q.hash, !.past = q.past])
      BY <1>5, <2>3 DEF Devices!Written
    <3>2. DeviceWrote(account', account, q.hash, q.past)
      BY <1>4, <3>1, DeviceWrittenRow
    <3> QED BY <2>3, <3>2 DEF DeviceWrote
  <2>4. CASE q.op = "other"
    BY <1>4, <1>5, <2>4, DeviceWrittenRow DEF Devices!Written, DeviceWrote
  <2> QED BY <1>3, <2>1, <2>2, <2>3, <2>4
<1>7. PICK k : /\ Devices!Goes(c, k)
               /\ \E dead : k = [q EXCEPT !.at = "end", !.wrote = account'.version, !.dead = dead]
  BY <1>1 DEF Devices!Update
<1>8. DeviceIsCall(k) /\ k.op = q.op /\ k.at = "end" /\ k.wrote = account'.version
  BY <1>1, <1>7 DEF DeviceIsCall
<1>9. DeviceWroteHolds(k)'
  BY <1>4, <1>6, <1>8 DEF DeviceWroteHolds, DeviceIsRow
<1>10. account.version <= account'.version
  BY <1>4, <1>6 DEF DeviceIsRow
<1>11. DeviceStoresHold' /\ DeviceCallsHold'
  BY <1>2, <1>4, <1>6, <1>7, <1>8, <1>9, <1>10, DeviceCallStep
<1>12. CASE q.op # "password"
  <2>1. worn' = worn
    BY <1>1, <1>12 DEF Devices!Update
  <2>2. DevicePasswordsHold'
    BY <1>1, <1>2, <1>6, <1>7, <1>8, <1>12, <2>1, DeviceOtherStep DEF DeviceQuiet
  <2> QED BY <1>11, <2>2 DEF DeviceInv
<1>13. CASE q.op = "password"
  <2> SUFFICES ASSUME apart PROVE DevicePasswordsHold'
    BY <1>2, <1>11 DEF DeviceInv, DevicePasswordsHold
  <2>1. worn' = Append(worn, q.hash)
    BY <1>1, <1>13 DEF Devices!Update
  <2>2. DevicePastHolds /\ DeviceChangeHolds(q) /\ Devices!PasswordsAreFresh /\ \A d \in Devices!Running("password") : d = c
    BY <1>1, <1>13 DEF DeviceInv, DevicePasswordsHold, Devices!Running
  <2>3. /\ q.hash \in Int /\ q.hash \notin {account.hash} \cup Devices!ToSet(account.past)
        /\ q.past = Devices!History(account)
    BY <1>1, <1>13, <2>2 DEF DeviceChangeHolds
  <2>4. PICK len \in Nat : /\ len = Len(worn) /\ len > 0 /\ worn \in Seq(Int)
                           /\ account.hash = worn[len] /\ account.hash \in Int
    BY <2>2 DEF DevicePastHolds
  <2>5. PICK h \in Nat : h = setup.historyLength
    BY <1>4 DEF Devices!DeploymentsHold
  <2>6. PICK past \in Seq(Int) : past = account.past
    BY <2>2 DEF DevicePastHolds
  <2>7. PICK m \in Nat : m = Len(past)
    BY <2>6
  <2>8. m = (IF h <= len - 1 THEN h ELSE len - 1) /\ \A i \in 1 .. m : past[i] = worn[len - i]
    <3>1. DeviceKept = len - 1
      BY <2>4 DEF DeviceKept
    <3>2. m = IF h <= len - 1 THEN h ELSE len - 1
      BY <2>2, <2>5, <2>6, <2>7, <3>1 DEF DevicePastHolds
    <3>3. \A i \in DOMAIN past : past[i] = worn[Len(worn) - i]
      BY <2>2, <2>6 DEF DevicePastHolds
    <3>4. DOMAIN past = 1 .. m
      BY <2>6, <2>7
    <3> QED BY <2>4, <3>2, <3>3, <3>4
  <2>9. /\ worn' \in Seq(Int) /\ Len(worn') = len + 1 /\ worn'[len + 1] = q.hash
        /\ \A i \in 1 .. len : worn'[i] = worn[i]
    BY <2>1, <2>3, <2>4
  <2>10. DevicePastHolds'
    <3>1. PICK n \in Nat : n = IF h <= m + 1 THEN h ELSE m + 1
      BY <2>5
    <3>2. /\ Devices!History(account) \in Seq(Int) /\ Len(Devices!History(account)) = n
          /\ \A i \in 1 .. n : Devices!History(account)[i] = IF i = 1 THEN account.hash ELSE account.past[i - 1]
      BY <1>4, <2>4, <2>5, <2>6, <2>7, <3>1, DeviceHistoryIs
    <3>3. PICK new \in Seq(Int) : new = account'.past
      BY <1>6, <1>13, <2>3, <3>2
    <3>4. Len(new) = n /\ \A i \in 1 .. n : new[i] = IF i = 1 THEN worn[len] ELSE past[i - 1]
      BY <1>6, <1>13, <2>3, <2>4, <2>6, <3>2, <3>3, SMTT(20)
    <3>5. n = IF h <= len THEN h ELSE len
      BY <2>8, <3>1
    <3>6. \A i \in 1 .. n : new[i] = worn'[len + 1 - i]
      <4> SUFFICES ASSUME NEW i \in 1 .. n PROVE new[i] = worn'[len + 1 - i]
        OBVIOUS
      <4>1. CASE i = 1
        BY <2>4, <2>9, <3>4, <4>1
      <4>2. CASE i # 1
        <5>1. i - 1 \in 1 .. m /\ len - (i - 1) \in 1 .. len
          BY <2>4, <2>8, <3>1, <4>2
        <5>2. new[i] = worn[len - (i - 1)]
          BY <2>8, <3>4, <4>2, <5>1
        <5>3. len - (i - 1) = len + 1 - i
          OBVIOUS
        <5> QED BY <2>9, <5>1, <5>2, <5>3
      <4> QED BY <4>1, <4>2
    <3>7. account'.hash = worn'[len + 1]
      BY <1>6, <1>13, <2>9
    <3>8. DeviceKept' = len /\ setup'.historyLength = h
      BY <1>2, <2>5, <2>9 DEF DeviceKept
    <3>9. DOMAIN new = 1 .. n
      BY <3>3, <3>4
    <3>10. \A i \in DOMAIN account'.past : account'.past[i] = worn'[Len(worn') - i]
      <4> SUFFICES ASSUME NEW i \in 1 .. n PROVE new[i] = worn'[Len(worn') - i]
        BY <3>3, <3>9
      <4>1. Len(worn') - i = len + 1 - i
        BY <2>9
      <4> QED BY <3>6, <4>1
    <3>11. Len(account'.past) = IF setup'.historyLength <= DeviceKept' THEN setup'.historyLength ELSE DeviceKept'
      BY <3>3, <3>4, <3>5, <3>8
    <3>12. worn' \in Seq(Int) /\ Len(worn') > 0 /\ account'.hash = worn'[Len(worn')] /\ account'.past \in Seq(Int)
      BY <2>9, <3>3, <3>7
    <3> QED BY <3>10, <3>11, <3>12 DEF DevicePastHolds
  <2>11. \A d \in DeviceCalls : DeviceChangeHolds(busy[d])' /\ (d \in Devices!Running("password")' => d = c)
    <3>1. busy'[c] = k /\ \A d \in DeviceCalls : d # c => busy'[d] = busy[d]
      BY <1>7, <1>8, DeviceCallsMove
    <3>2. \A d \in DeviceCalls : d # c => busy[d].op # "password"
      BY <2>2 DEF Devices!Running
    <3> SUFFICES ASSUME NEW d \in DeviceCalls
                 PROVE  DeviceChangeHolds(busy[d])' /\ (d \in Devices!Running("password")' => d = c)
      OBVIOUS
    <3>3. CASE d = c
      BY <1>8, <3>1, <3>3 DEF DeviceChangeHolds
    <3>4. CASE d # c
      BY <3>1, <3>2, <3>4 DEF DeviceChangeHolds, Devices!Running
    <3> QED BY <3>3, <3>4
  <2>12. Devices!PasswordsAreFresh'
    <3> SUFFICES ASSUME NEW i \in 1 .. len + 1, NEW j \in 1 .. len + 1, i < j, j - i <= h + 1
                 PROVE  worn'[i] # worn'[j]
      BY <1>2, <2>5, <2>9 DEF Devices!PasswordsAreFresh
    <3>1. CASE j <= len
      <4>1. i \in 1 .. len /\ j \in 1 .. len
        BY <3>1
      <4>2. worn[i] # worn[j]
        <5>1. i \in DOMAIN worn /\ j \in DOMAIN worn
          BY <2>4, <4>1
        <5> QED BY <2>2, <2>5, <5>1 DEF Devices!PasswordsAreFresh
      <4> QED BY <2>9, <4>1, <4>2
    <3>2. CASE j = len + 1 /\ i = len
      BY <2>3, <2>4, <2>9, <3>2
    <3>3. CASE j = len + 1 /\ i < len
      <4>1. PICK d \in 1 .. m : d = len - i
        BY <2>8, <3>3
      <4>2. past[d] = worn[i]
        BY <2>8, <4>1
      <4>3. worn[i] \in Devices!ToSet(account.past)
        BY <2>6, <2>7, <4>1, <4>2 DEF Devices!ToSet
      <4> QED BY <2>3, <2>9, <3>3, <4>3
    <3> QED BY <3>1, <3>2, <3>3
  <2> QED BY <2>10, <2>11, <2>12 DEF DevicePasswordsHold, Devices!Running
<1> QED BY <1>12, <1>13

\* A revocation of a trusted device also marks the others that run.
LEMMA DeviceRevokeTrustedStep ==
  ASSUME DeviceInv, NEW c \in DeviceCalls, NEW d, Devices!RevokeTrustedDevice(c, d)
  PROVE  DeviceInv'
<1>1. UNCHANGED <<account, kept, done, setup, worn, apart>> /\ epoch' = epoch + 1
  BY DEF Devices!RevokeTrustedDevice, Devices!ghosts
<1>2. PICK k : /\ \E list, calm : k = [Devices!Idle EXCEPT !.op = "distrust", !.at = "write", !.device = d,
                                                  !.list = list, !.calm = calm]
               /\ busy' = [p \in DeviceCalls |-> IF p = c THEN k
                              ELSE [busy[p] EXCEPT !.calm = busy[p].calm /\ busy[p].op # "distrust"]]
  BY DEF Devices!RevokeTrustedDevice
<1>3. DeviceIsCall(k) /\ k.op = "distrust" /\ k.at = "write" /\ k.wrote = 0
  BY <1>2 DEF DeviceIsCall, Devices!Idle
<1>4. ASSUME NEW p \in DeviceCalls, p # c
      PROVE  /\ DeviceIsCall(busy'[p]) /\ busy'[p].op = busy[p].op /\ busy'[p].at = busy[p].at
             /\ busy'[p].wrote = busy[p].wrote /\ busy'[p].hash = busy[p].hash
             /\ busy'[p].past = busy[p].past
  <2>1. DeviceIsCall(busy[p])
    BY DeviceCallIs
  <2>2. busy'[p] = [busy[p] EXCEPT !.calm = busy[p].calm /\ busy[p].op # "distrust"]
    BY <1>2, <1>4
  <2> QED BY <2>1, <2>2 DEF DeviceIsCall
<1>5. busy'[c] = k
  BY <1>2
<1>6. DeviceFormsHold'
  <2>1. busy' = [p \in DeviceCalls |-> busy'[p]]
    BY <1>2
  <2>2. \A p \in DeviceCalls : DeviceIsCall(busy'[p])
    BY <1>3, <1>4, <1>5
  <2>3. DeviceIsRow(account') /\ epoch' \in Nat /\ done' \in Nat /\ setup' \in DeviceSetups
        /\ kept' \in [Scopes -> DeviceSnapshot]
    BY <1>1 DEF DeviceInv, DeviceStoresHold, DeviceFormsHold
  <2> QED BY <2>1, <2>2, <2>3 DEF DeviceFormsHold
<1>7. DeviceSnapshotsHold'
  BY <1>1 DEF DeviceInv, DeviceStoresHold, DeviceFormsHold, DeviceSnapshotsHold, DeviceIsRow,
              DeviceSnapshot
<1>8. DeviceCallsHold'
  <2> SUFFICES ASSUME NEW p \in DeviceCalls PROVE DeviceWroteHolds(busy[p])'
    BY DEF DeviceCallsHold
  <2>1. account.version \in Nat /\ account' = account
    BY <1>1 DEF DeviceInv, DeviceStoresHold, DeviceFormsHold, DeviceIsRow
  <2>2. CASE p = c
    BY <1>3, <1>5, <2>1, <2>2 DEF DeviceWroteHolds
  <2>3. CASE p # c
    BY <1>4, <2>1, <2>3, DeviceCallIs DEF DeviceWroteHolds
  <2> QED BY <2>2, <2>3
<1>9. DevicePasswordsHold'
  <2> SUFFICES ASSUME apart PROVE DevicePasswordsHold'
    BY <1>1 DEF DevicePasswordsHold
  <2>1. DevicePastHolds' /\ Devices!PasswordsAreFresh' /\ Devices!History(account)' = Devices!History(account)
    BY <1>1 DEF DeviceInv, DevicePasswordsHold, DevicePastHolds, Devices!PasswordsAreFresh,
                DeviceKept, Devices!History
  <2>2. ASSUME NEW p \in DeviceCalls PROVE DeviceChangeHolds(busy[p])'
    <3>1. CASE p = c
      BY <1>3, <1>5, <3>1 DEF DeviceChangeHolds
    <3>2. CASE p # c
      BY <1>1, <1>4, <2>1, <3>2 DEF DeviceChangeHolds, DeviceInv, DevicePasswordsHold
    <3> QED BY <3>1, <3>2
  <2>3. Devices!Running("password")' \subseteq Devices!Running("password")
    BY <1>3, <1>4, <1>5 DEF Devices!Running
  <2> QED BY <2>1, <2>2, <2>3 DEF DeviceInv, DevicePasswordsHold
<1> QED BY <1>6, <1>7, <1>8, <1>9 DEF DeviceInv, DeviceStoresHold

LEMMA DeviceChangeStep ==
  ASSUME DeviceInv, NEW c \in DeviceCalls, NEW new \in Int, Devices!ApplyPasswordChange(c, new)
  PROVE  DeviceInv'
<1>1. UNCHANGED <<account, kept, done, setup, worn>> /\ epoch' = epoch + 1
  BY DEF Devices!ApplyPasswordChange, Devices!Starts
<1>2. PICK k : /\ Devices!Goes(c, k)
               /\ k = [Devices!Idle EXCEPT !.op = "password", !.at = "write", !.hash = new, !.past = Devices!History(account)]
  BY DEF Devices!ApplyPasswordChange, Devices!Starts
<1>3. /\ DeviceIsCall(k) /\ k.op = "password" /\ k.at = "write" /\ k.wrote = 0
      /\ k.hash = new /\ k.past = Devices!History(account)
  BY <1>2 DEF DeviceIsCall, Devices!Idle
<1>4. /\ epoch \in Nat /\ epoch' \in Nat /\ epoch <= epoch' /\ account.version \in Nat
      /\ DeviceIsRow(account)' /\ account.version <= account'.version
  BY <1>1 DEF DeviceInv, DeviceStoresHold, DeviceFormsHold, DeviceIsRow
<1>5. DeviceWroteHolds(k)'
  BY <1>1, <1>3, <1>4 DEF DeviceWroteHolds
<1>6. DeviceStoresHold' /\ DeviceCallsHold'
  BY <1>1, <1>2, <1>3, <1>4, <1>5, DeviceCallStep
<1>7. DevicePasswordsHold'
  <2>1. apart' <=> apart /\ Devices!Running("password") = {}
    BY DEF Devices!ApplyPasswordChange
  <2> SUFFICES ASSUME apart, Devices!Running("password") = {} PROVE DevicePasswordsHold'
    BY <2>1 DEF DevicePasswordsHold
  <2>2. DevicePastHolds' /\ Devices!PasswordsAreFresh' /\ Devices!History(account)' = Devices!History(account)
    BY <1>1 DEF DeviceInv, DevicePasswordsHold, DevicePastHolds, Devices!PasswordsAreFresh,
                DeviceKept, Devices!History
  <2>3. busy'[c] = k /\ \A d \in DeviceCalls : d # c => busy'[d] = busy[d]
    BY <1>2, <1>3, DeviceCallsMove
  <2>4. new \notin {account.hash} \cup Devices!ToSet(account.past)
    BY DEF Devices!ApplyPasswordChange
  <2>5. \A d \in DeviceCalls : d # c => busy[d].op # "password"
    BY DEF Devices!Running
  <2>6. ASSUME NEW d \in DeviceCalls
        PROVE  DeviceChangeHolds(busy[d])' /\ (d \in Devices!Running("password")' => d = c)
    <3>1. CASE d = c
      BY <1>1, <1>3, <2>2, <2>3, <2>4, <3>1 DEF DeviceChangeHolds
    <3>2. CASE d # c
      BY <2>3, <2>5, <3>2 DEF DeviceChangeHolds, Devices!Running
    <3> QED BY <3>1, <3>2
  <2> QED BY <2>2, <2>6 DEF DevicePasswordsHold, Devices!Running
<1> QED BY <1>6, <1>7 DEF DeviceInv

LEMMA DeviceEndStep ==
  ASSUME DeviceInv, NEW c \in DeviceCalls, Devices!End(c)
  PROVE  DeviceInv'
<1>1. UNCHANGED <<account, kept, setup, worn, apart>> /\ epoch' = epoch + 1
  BY DEF Devices!End, Devices!Ends
<1>2. PICK k : Devices!Goes(c, k) /\ (k = Devices!Idle \/ k = [Devices!Idle EXCEPT !.at = "unknown"])
  BY DEF Devices!End
<1>3. DeviceIsCall(k) /\ k.op = "none" /\ k.at # "write" /\ k.wrote = 0
  BY <1>2 DEF DeviceIsCall, Devices!Idle
<1>4. /\ epoch \in Nat /\ done \in Nat /\ DeviceIsRow(account) /\ account.version \in Nat /\ done <= account.version
      /\ DeviceWroteHolds(busy[c])
  BY DEF DeviceInv, DeviceStoresHold, DeviceFormsHold, DeviceSnapshotsHold, DeviceCallsHold,
         DeviceIsRow
<1>5. done' \in Nat /\ done' <= account.version
  <2>1. done' = Devices!Max({done, busy[c].wrote})
    BY DEF Devices!End
  <2> QED BY <1>4, <2>1, DeviceMaxOfTwo DEF DeviceWroteHolds
<1>6. /\ busy' = [d \in DeviceCalls |-> busy'[d]] /\ busy'[c] = k
      /\ \A d \in DeviceCalls : d # c => busy'[d] = busy[d]
      /\ \A d \in DeviceCalls : DeviceIsCall(busy'[d])
  BY <1>2, <1>3, DeviceCallsMove
<1>7. DeviceFormsHold'
  BY <1>1, <1>4, <1>5, <1>6 DEF DeviceInv, DeviceStoresHold, DeviceFormsHold
<1>8. DeviceSnapshotsHold'
  <2>1. \A s \in Scopes : kept[s].epoch \in Nat /\ kept[s].epoch <= epoch
    BY DEF DeviceInv, DeviceStoresHold, DeviceFormsHold, DeviceSnapshotsHold, DeviceSnapshot
  <2>2. \A s \in Scopes : kept'[s].epoch <= epoch' /\ kept'[s].epoch # epoch'
    BY <1>1, <1>4, <2>1
  <2> QED BY <1>1, <1>5, <2>2 DEF DeviceSnapshotsHold
<1>9. DeviceCallsHold'
  <2> SUFFICES ASSUME NEW d \in DeviceCalls PROVE DeviceWroteHolds(busy[d])'
    BY DEF DeviceCallsHold
  <2>1. CASE d = c
    BY <1>1, <1>3, <1>4, <1>6, <2>1 DEF DeviceWroteHolds
  <2>2. CASE d # c
    BY <1>1, <1>6, <2>2, DeviceCallIs DEF DeviceWroteHolds
  <2> QED BY <2>1, <2>2
<1>10. DevicePasswordsHold'
  BY <1>1, <1>2, <1>3, DeviceOtherStep DEF DeviceQuiet
<1> QED BY <1>7, <1>8, <1>9, <1>10 DEF DeviceInv, DeviceStoresHold

LEMMA DeviceSnapshotStep ==
  ASSUME DeviceInv, NEW s \in Scopes,
         Devices!GetUserSnapshot(s) \/ Devices!SnapshotReads(s) \/ Devices!SnapshotFails(s)
  PROVE  DeviceInv'
<1>1. UNCHANGED <<account, epoch, busy, setup, done, worn, apart>>
  BY DEF Devices!GetUserSnapshot, Devices!SnapshotReads, Devices!SnapshotFails, Devices!ghosts
<1>2. /\ kept \in [Scopes -> DeviceSnapshot] /\ epoch \in Nat /\ account.version \in Nat
      /\ done \in Nat /\ done <= account.version /\ kept[s] \in DeviceSnapshot
      /\ kept[s].epoch <= epoch
  BY DEF DeviceInv, DeviceStoresHold, DeviceFormsHold, DeviceSnapshotsHold, DeviceIsRow
<1>3. PICK n \in DeviceSnapshot : /\ kept' = [kept EXCEPT ![s] = n] /\ n.epoch <= epoch
                                  /\ n.at = "read" => n.version >= done
  <2>1. CASE Devices!GetUserSnapshot(s)
    <3>1. PICK n : n = [at |-> "asked", epoch |-> epoch, version |-> 0]
      OBVIOUS
    <3>2. n \in DeviceSnapshot /\ n.epoch = epoch /\ n.at = "asked"
      BY <1>2, <3>1 DEF DeviceSnapshot
    <3>3. kept' = [kept EXCEPT ![s] = n]
      BY <2>1, <3>1 DEF Devices!GetUserSnapshot
    <3>4. n.epoch <= epoch /\ n.at # "read"
      BY <1>2, <3>2
    <3> QED BY <3>2, <3>3, <3>4
  <2>2. CASE Devices!SnapshotReads(s)
    <3>1. kept' = [kept EXCEPT ![s] = [kept[s] EXCEPT !.at = "read", !.version = account.version]]
      BY <1>2, <2>2 DEF Devices!SnapshotReads
    <3>2. PICK n : n = [kept[s] EXCEPT !.at = "read", !.version = account.version]
      OBVIOUS
    <3>3. n \in DeviceSnapshot /\ n.epoch = kept[s].epoch /\ n.version = account.version
      BY <1>2, <3>2 DEF DeviceSnapshot
    <3> QED BY <1>2, <3>1, <3>2, <3>3
  <2>3. CASE Devices!SnapshotFails(s)
    <3>1. Devices!NoSnapshot \in DeviceSnapshot /\ Devices!NoSnapshot.epoch = 0 /\ Devices!NoSnapshot.at = "none"
      BY DEF Devices!NoSnapshot, DeviceSnapshot
    <3>2. kept' = [kept EXCEPT ![s] = Devices!NoSnapshot]
      BY <2>3 DEF Devices!SnapshotFails
    <3>3. Devices!NoSnapshot.epoch <= epoch /\ Devices!NoSnapshot.at # "read"
      BY <1>2, <3>1
    <3> QED BY <3>1, <3>2, <3>3
  <2> QED BY <2>1, <2>2, <2>3
<1>4. kept' \in [Scopes -> DeviceSnapshot] /\ \A z \in Scopes : kept'[z] = IF z = s THEN n ELSE kept[z]
  BY <1>2, <1>3
<1>5. DeviceStoresHold'
  BY <1>1, <1>3, <1>4 DEF DeviceInv, DeviceStoresHold, DeviceFormsHold, DeviceSnapshotsHold
<1>6. DeviceCallsHold'
  BY <1>1 DEF DeviceInv, DeviceCallsHold, DeviceWroteHolds
<1>7. DevicePasswordsHold'
  BY <1>1 DEF DeviceInv, DevicePasswordsHold, DevicePastHolds, Devices!PasswordsAreFresh,
              DeviceKept, Devices!History, DeviceChangeHolds, Devices!Running
<1> QED BY <1>5, <1>6, <1>7 DEF DeviceInv

LEMMA DeviceIdleStep ==
  ASSUME DeviceInv, UNCHANGED <<setup, account, epoch, kept, busy, done, worn, apart>>
  PROVE  DeviceInv'
<1>1. DeviceStoresHold' /\ DeviceCallsHold'
  BY DEF DeviceInv, DeviceStoresHold, DeviceFormsHold, DeviceSnapshotsHold, DeviceCallsHold,
         DeviceWroteHolds
<1>2. DevicePasswordsHold'
  BY DEF DeviceInv, DevicePasswordsHold, DevicePastHolds, Devices!PasswordsAreFresh, DeviceKept,
         Devices!History, DeviceChangeHolds, Devices!Running
<1> QED BY <1>1, <1>2 DEF DeviceInv

(* -------------------------------- Theorems -------------------------------- *)
LEMMA DeviceInvInit == Devices!DeploymentsHold /\ Devices!Init => DeviceInv
<1> SUFFICES ASSUME Devices!DeploymentsHold, Devices!Init PROVE DeviceInv
  OBVIOUS
<1>1. /\ setup \in DeviceSetups /\ epoch = 0 /\ done = 0 /\ worn = <<1>> /\ apart
      /\ account = [version |-> 0, trusted |-> <<>>, seen |-> <<>>, hash |-> 1, past |-> <<>>]
      /\ kept = [s \in Scopes |-> Devices!NoSnapshot] /\ busy = [c \in DeviceCalls |-> Devices!Idle]
  BY DEF Devices!Init
<1>2. DeviceIsRow(account) /\ account.version = 0 /\ account.hash = 1 /\ account.past = <<>>
  BY <1>1 DEF DeviceIsRow
<1>3. DeviceIsCall(Devices!Idle) /\ Devices!Idle.wrote = 0 /\ Devices!Idle.op = "none" /\ Devices!Idle.at = "idle"
  BY DEF DeviceIsCall, Devices!Idle
<1>4. Devices!NoSnapshot \in DeviceSnapshot /\ Devices!NoSnapshot.at = "none" /\ Devices!NoSnapshot.epoch = 0
  BY DEF Devices!NoSnapshot, DeviceSnapshot
<1>5. DeviceFormsHold
  BY <1>1, <1>2, <1>3, <1>4 DEF DeviceFormsHold
<1>6. DeviceSnapshotsHold
  BY <1>1, <1>2, <1>4 DEF DeviceSnapshotsHold
<1>7. DeviceCallsHold
  BY <1>1, <1>2, <1>3 DEF DeviceCallsHold, DeviceWroteHolds
<1>8. DevicePasswordsHold
  <2>1. worn \in Seq(Int) /\ Len(worn) = 1 /\ worn[1] = 1
    BY <1>1
  <2>2. DevicePastHolds
    <3>1. account.past \in Seq(Int) /\ Len(account.past) = 0 /\ DOMAIN account.past = {} /\ DeviceKept = 0
      BY <1>2, <2>1 DEF DeviceKept
    <3>2. setup.historyLength \in Nat
      BY <1>1 DEF Devices!DeploymentsHold
    <3>3. Len(account.past) = IF setup.historyLength <= DeviceKept THEN setup.historyLength ELSE DeviceKept
      BY <3>1, <3>2
    <3> QED BY <1>2, <2>1, <3>1, <3>3 DEF DevicePastHolds
  <2>3. Devices!PasswordsAreFresh
    BY <2>1 DEF Devices!PasswordsAreFresh
  <2> QED BY <1>1, <1>3, <2>2, <2>3 DEF DevicePasswordsHold, DeviceChangeHolds, Devices!Running
<1> QED BY <1>5, <1>6, <1>7, <1>8 DEF DeviceInv, DeviceStoresHold

LEMMA DeviceInvStep == Devices!DeploymentsHold /\ DeviceInv /\ [Devices!Next]_Devices!vars => DeviceInv'
<1> SUFFICES ASSUME Devices!DeploymentsHold, DeviceInv, [Devices!Next]_Devices!vars PROVE DeviceInv'
  OBVIOUS
<1>1. ASSUME NEW c \in DeviceCalls,
             \/ Devices!Trust(c) \/ Devices!RevokeSeenDevices(c) \/ Devices!WriteElse(c) \/ Devices!Update(c) \/ Devices!CasRead(c)
             \/ Devices!CasWrite(c) \/ Devices!End(c) \/ Devices!Unrecognized(c) \/ Devices!Fail(c)
      PROVE  DeviceInv'
  BY <1>1, DeviceTrustStep, DevicePlainStep, DeviceUpdateStep, DeviceCasReadStep,
     DeviceCasWriteStep, DeviceEndStep, DeviceRecognitionStep
<1>2. ASSUME NEW c \in DeviceCalls, NEW d,
             Devices!RevokeTrustedDevice(c, d) \/ Devices!DeviceRecognition(c, d) PROVE DeviceInv'
  BY <1>2, DeviceRevokeTrustedStep, DeviceRecognitionStep
<1>3. ASSUME NEW c \in DeviceCalls, NEW new \in 1 .. MaxPassword,
             Devices!ApplyPasswordChange(c, new) PROVE DeviceInv'
  BY <1>3, DeviceChangeStep
<1>4. ASSUME NEW s \in Scopes,
             Devices!GetUserSnapshot(s) \/ Devices!SnapshotReads(s) \/ Devices!SnapshotFails(s) PROVE DeviceInv'
  BY <1>4, DeviceSnapshotStep
<1>5. CASE Devices!Tick \/ UNCHANGED Devices!vars
  BY <1>5, DeviceIdleStep DEF Devices!Tick, Devices!vars, Devices!ghosts
<1> QED BY <1>1, <1>2, <1>3, <1>4, <1>5 DEF Devices!Next

LEMMA DeviceInvGives == DeviceInv => Devices!SnapshotsAreCurrent /\ Devices!PasswordsAreFresh
<1>1. DeviceInv => Devices!SnapshotsAreCurrent
  BY DEF DeviceInv, DeviceStoresHold, DeviceSnapshotsHold, Devices!SnapshotsAreCurrent, Devices!Hit
<1>2. DeviceInv => Devices!PasswordsAreFresh
  BY DEF DeviceInv, DevicePasswordsHold, Devices!PasswordsAreFresh
<1> QED BY <1>1, <1>2

(* ---------------------------- Devices in Accounts ------------------------- *)
LEMMA DevicesBegin == AccountsInit => (start = "devices" => DeviceInv)
<1> SUFFICES ASSUME AccountsInit, start = "devices" PROVE DeviceInv
  OBVIOUS
<1>1. Devices!Init
  BY DEF AccountsInit
<1> QED BY <1>1, DeviceInvInit, DeviceAssumption

LEMMA DevicesGoOn ==
  (start = "devices" => DeviceInv) /\ [AccountsNext]_accountsVars => (start = "devices" => DeviceInv)'
<1> SUFFICES ASSUME start = "devices" => DeviceInv, [AccountsNext]_accountsVars, start' = "devices"
             PROVE  DeviceInv'
  OBVIOUS
<1>1. start = "devices" /\ [Devices!Next]_Devices!vars
  <2>1. CASE UNCHANGED accountsVars
    BY <2>1 DEF accountsVars, deviceVars, Devices!vars
  <2>2. CASE AccountsNext
    BY <2>2 DEF AccountsNext
  <2> QED BY <2>1, <2>2
<1>2. DeviceInv /\ [Devices!Next]_Devices!vars => DeviceInv'
  BY DeviceInvStep, DeviceAssumption
<1> QED BY <1>1, <1>2

\* The inductive invariant: no version that was written is ahead of the row's; and while
\* changes of the password do not overlap, the row remembers the last passwords, newest
\* first, and the change on its way was compared with all of them.
THEOREM DeviceInvCorrect == AccountsSpec => [](start = "devices" => DeviceInv)
  BY DevicesBegin, DevicesGoOn, PTL DEF AccountsSpec

\* A snapshot that a request may still be served was read after every write of this
\* process that had been reported done, whatever calls run, fail or retry beside it
\* (getUserSnapshot and the write epoch of observeWrites).
THEOREM SnapshotsStayCurrent == AccountsSpec => []SnapshotsAreCurrent
<1>1. (start = "devices" => DeviceInv) => SnapshotsAreCurrent
  BY DeviceInvGives DEF SnapshotsAreCurrent
<1> QED BY <1>1, DeviceInvCorrect, PTL

\* While changes of the password do not overlap, a password is none of the historyLength
\* before it, nor the one it replaces, whatever other writes of the row land in between
\* (changePassword, setPassword, and the history that goes with the hash).
THEOREM PasswordsStayFresh == AccountsSpec => []PasswordsAreFresh
<1>1. (start = "devices" => DeviceInv) => PasswordsAreFresh
  BY DeviceInvGives DEF PasswordsAreFresh
<1> QED BY <1>1, DeviceInvCorrect, PTL

(* --------------------------------- Orders -------------------------------- *)
\* R is a strict linear order on S; Under(R, S, i) are those before i.
Orders(R, S) ==
    /\ \A i \in S : <<i, i>> \notin R
    /\ \A i, j \in S : i # j => <<i, j>> \in R \/ <<j, i>> \in R
    /\ \A i, j, k \in S : <<i, j>> \in R /\ <<j, k>> \in R => <<i, k>> \in R
Under(R, S, i) == {j \in S : <<j, i>> \in R}

\* The first of two has fewer before it.
LEMMA RanksDiffer ==
  ASSUME NEW S, IsFiniteSet(S), NEW R, Orders(R, S), NEW i \in S, NEW j \in S, <<i, j>> \in R
  PROVE  Cardinality(Under(R, S, i)) < Cardinality(Under(R, S, j))
<1>1. Under(R, S, i) \subseteq Under(R, S, j)
  BY DEF Orders, Under
<1>2. i \in Under(R, S, j) /\ i \notin Under(R, S, i)
  BY DEF Orders, Under
<1>3. IsFiniteSet(Under(R, S, j)) /\ IsFiniteSet(Under(R, S, i))
  BY FS_Subset DEF Under
<1>4. Cardinality(Under(R, S, j)) \in Nat /\ Cardinality(Under(R, S, i)) \in Nat
  BY <1>3, FS_CardinalityType
<1>5. Cardinality(Under(R, S, i)) <= Cardinality(Under(R, S, j))
  BY <1>1, <1>3, FS_Subset
<1>6. Cardinality(Under(R, S, i)) # Cardinality(Under(R, S, j))
  BY <1>1, <1>2, <1>3, FS_Subset
<1> QED BY <1>4, <1>5, <1>6

\* The numbers of members before a member run from 0 to the size of the set less one, and
\* are met once each.
LEMMA Ranks ==
  ASSUME NEW S, IsFiniteSet(S), NEW R, Orders(R, S)
  PROVE  /\ Cardinality(S) \in Nat
         /\ \A i \in S : Cardinality(Under(R, S, i)) \in 0 .. Cardinality(S) - 1
         /\ \A i, j \in S : Cardinality(Under(R, S, i)) = Cardinality(Under(R, S, j)) => i = j
         /\ \A n \in 1 .. Cardinality(S) : \E i \in S : Cardinality(Under(R, S, i)) = n - 1
<1> DEFINE N == Cardinality(S)
           rank == [i \in S |-> Cardinality(Under(R, S, i)) + 1]
<1>1. N \in Nat
  BY FS_CardinalityType
<1>2. ASSUME NEW i \in S PROVE Cardinality(Under(R, S, i)) \in 0 .. N - 1
  <2>1. Under(R, S, i) \subseteq S \ {i}
    BY DEF Orders, Under
  <2>2. IsFiniteSet(S \ {i}) /\ Cardinality(S \ {i}) = N - 1
    BY FS_RemoveElement
  <2>3. IsFiniteSet(Under(R, S, i)) /\ Cardinality(Under(R, S, i)) <= N - 1
    BY <2>1, <2>2, FS_Subset
  <2>4. Cardinality(Under(R, S, i)) \in Nat
    BY <2>3, FS_CardinalityType
  <2> QED BY <1>1, <2>3, <2>4
<1>3. \A i, j \in S : Cardinality(Under(R, S, i)) = Cardinality(Under(R, S, j)) => i = j
  <2> SUFFICES ASSUME NEW i \in S, NEW j \in S, i # j,
                      Cardinality(Under(R, S, i)) = Cardinality(Under(R, S, j))
               PROVE  FALSE
    OBVIOUS
  <2>1. Cardinality(Under(R, S, i)) \in Int /\ Cardinality(Under(R, S, j)) \in Int
    BY <1>1, <1>2
  <2>2. <<i, j>> \in R \/ <<j, i>> \in R
    BY DEF Orders
  <2>3. CASE <<i, j>> \in R
    BY <2>1, <2>3, RanksDiffer
  <2>4. CASE <<j, i>> \in R
    BY <2>1, <2>4, RanksDiffer
  <2> QED BY <2>2, <2>3, <2>4
<1>4. \A i \in S : rank[i] = Cardinality(Under(R, S, i)) + 1 /\ rank[i] \in 1 .. N
  BY <1>1, <1>2
<1>5. rank \in [S -> 1 .. N] /\ DOMAIN rank = S
  BY <1>4
<1> HIDE DEF rank
<1>6. \A i, j \in S : rank[i] = rank[j] => i = j
  BY <1>1, <1>2, <1>3, <1>4
<1>7. rank \in Injection(S, 1 .. N)
  <2>1. IsInjective(rank)
    BY <1>5, <1>6 DEF IsInjective
  <2> QED BY <1>5, <2>1 DEF Injection
<1>8. IsFiniteSet(1 .. N) /\ Cardinality(1 .. N) = N
  BY <1>1, FS_Interval
<1>9. rank \in Surjection(S, 1 .. N)
  BY <1>7, <1>8, FS_Injection
<1>10. ASSUME NEW n \in 1 .. N PROVE \E i \in S : Cardinality(Under(R, S, i)) = n - 1
  <2>1. PICK i \in S : rank[i] = n
    BY <1>9 DEF Surjection
  <2> QED BY <1>1, <1>2, <1>4, <2>1
<1> QED BY <1>1, <1>2, <1>3, <1>10

\* The places InOrder gives: every member has one, and they go with the relation.
LEMMA InOrderIs ==
  ASSUME NEW S, IsFiniteSet(S), NEW R, Orders(R, S)
  PROVE  /\ \A n \in 1 .. Cardinality(S) : InOrder(S, R)[n] \in S
         /\ \A i \in S : \E n \in 1 .. Cardinality(S) : InOrder(S, R)[n] = i
         /\ \A m, n \in 1 .. Cardinality(S) : m < n => <<InOrder(S, R)[m], InOrder(S, R)[n]>> \in R
<1> DEFINE N == Cardinality(S)
<1>1. PICK order : order = InOrder(S, R)
  OBVIOUS
<1>2. N \in Nat
  BY Ranks
<1>3. ASSUME NEW n \in 1 .. N PROVE order[n] \in S /\ Cardinality(Under(R, S, order[n])) = n - 1
  <2>1. order[n] = CHOOSE i \in S : Cardinality(Under(R, S, i)) = n - 1
    BY <1>1 DEF InOrder, Under
  <2>2. \E i \in S : Cardinality(Under(R, S, i)) = n - 1
    BY Ranks
  <2> QED BY <2>1, <2>2
<1>4. ASSUME NEW i \in S PROVE \E n \in 1 .. N : order[n] = i
  <2>1. Cardinality(Under(R, S, i)) \in 0 .. N - 1
    BY Ranks
  <2>2. PICK n \in 1 .. N : n - 1 = Cardinality(Under(R, S, i))
    BY <1>2, <2>1
  <2>3. order[n] \in S /\ Cardinality(Under(R, S, order[n])) = Cardinality(Under(R, S, i))
    BY <1>3, <2>2
  <2> QED BY <2>3, Ranks
<1>5. ASSUME NEW m \in 1 .. N, NEW n \in 1 .. N, m < n PROVE <<order[m], order[n]>> \in R
  <2>1. /\ order[m] \in S /\ order[n] \in S
        /\ Cardinality(Under(R, S, order[m])) < Cardinality(Under(R, S, order[n]))
    BY <1>2, <1>3, <1>5
  <2>2. order[m] # order[n] /\ ~(Cardinality(Under(R, S, order[n])) < Cardinality(Under(R, S, order[m])))
    BY <1>2, <1>3, <1>5
  <2>3. <<order[n], order[m]>> \notin R
    BY <2>1, <2>2, RanksDiffer
  <2> QED BY <2>1, <2>2, <2>3 DEF Orders
<1> QED BY <1>1, <1>3, <1>4, <1>5

LEMMA JoinedIs ==
  ASSUME NEW Rec, NEW a \in Seq(Rec), NEW b \in Seq(Rec)
  PROVE  a \o b \in Seq(Rec) /\ Ids(a \o b) = Ids(a) \cup Ids(b)
<1>1. PICK M \in Nat, N \in Nat : M = Len(a) /\ N = Len(b) /\ DOMAIN a = 1 .. M /\ DOMAIN b = 1 .. N
  OBVIOUS
<1>2. PICK new : new = a \o b
  OBVIOUS
<1>3. /\ new \in Seq(Rec) /\ DOMAIN new = 1 .. (M + N)
      /\ \A i \in 1 .. (M + N) : new[i] = IF i <= M THEN a[i] ELSE b[i - M]
  BY <1>1, <1>2
<1>4. ASSUME NEW x \in Ids(new) PROVE x \in Ids(a) \cup Ids(b)
  <2>1. PICK i \in 1 .. (M + N) : x = new[i].id
    BY <1>3 DEF Ids
  <2>2. CASE i <= M
    <3>1. i \in DOMAIN a /\ new[i] = a[i]
      BY <1>1, <1>3, <2>2
    <3> QED BY <2>1, <3>1 DEF Ids
  <2>3. CASE i > M
    <3>1. i - M \in DOMAIN b /\ new[i] = b[i - M]
      BY <1>1, <1>3, <2>3
    <3> QED BY <2>1, <3>1 DEF Ids
  <2> QED BY <1>1, <2>2, <2>3
<1>5. ASSUME NEW i \in 1 .. M PROVE a[i].id \in Ids(new)
  <2>1. i \in DOMAIN new /\ new[i] = a[i]
    BY <1>1, <1>3
  <2> QED BY <2>1 DEF Ids
<1>6. ASSUME NEW i \in 1 .. N PROVE b[i].id \in Ids(new)
  <2>1. M + i \in DOMAIN new /\ new[M + i] = b[i]
    <3>1. M + i \in 1 .. (M + N) /\ ~(M + i <= M) /\ (M + i) - M = i
      BY <1>1
    <3> QED BY <1>3, <3>1
  <2> QED BY <2>1 DEF Ids
<1>7. Ids(a) \subseteq Ids(new) /\ Ids(b) \subseteq Ids(new)
  BY <1>1, <1>5, <1>6 DEF Ids
<1> QED BY <1>2, <1>3, <1>4, <1>7

(* --------------------------------- Filters ------------------------------- *)
LEMMA FilteredIs ==
  ASSUME NEW Rec, NEW list \in Seq(Rec), NEW S \in SUBSET DOMAIN list
  PROVE  /\ Filtered(list, S) \in Seq(Rec)
         /\ \A n \in DOMAIN Filtered(list, S) : \E i \in S : Filtered(list, S)[n] = list[i]
         /\ \A i \in S : \E n \in DOMAIN Filtered(list, S) : Filtered(list, S)[n] = list[i]
         /\ Ids(Filtered(list, S)) = {list[i].id : i \in S}
<1> DEFINE R == {p \in S \X S : p[1] < p[2]}
           order == InOrder(S, R)
           new == Filtered(list, S)
<1>1. PICK N \in Nat : N = Len(list) /\ DOMAIN list = 1 .. N /\ S \in SUBSET (1 .. N)
  OBVIOUS
<1>2. IsFiniteSet(S)
  <2>1. IsFiniteSet(1 .. N)
    BY <1>1, FS_Interval
  <2> QED BY <1>1, <2>1, FS_Subset
<1>3. PICK M \in Nat : M = Cardinality(S)
  BY <1>2, FS_CardinalityType
<1>4. Orders(R, S)
  BY <1>1 DEF Orders
<1>5. new = [n \in 1 .. M |-> list[order[n]]]
  BY <1>3 DEF Filtered
<1> HIDE DEF R
<1>6. \A n \in 1 .. M : order[n] \in S
  BY <1>2, <1>3, <1>4, InOrderIs
<1>7. \A i \in S : \E n \in 1 .. M : order[n] = i
  BY <1>2, <1>3, <1>4, InOrderIs
<1> HIDE DEF order
<1> HIDE DEF new
<1>8. DOMAIN new = 1 .. M /\ \A n \in 1 .. M : order[n] \in S /\ new[n] = list[order[n]]
  BY <1>5, <1>6
<1>9. new \in Seq(Rec)
  <2>1. \A n \in 1 .. M : list[order[n]] \in Rec
    BY <1>1, <1>8
  <2> QED BY <1>5, <2>1
<1>10. /\ \A n \in DOMAIN new : \E i \in S : new[n] = list[i]
       /\ \A i \in S : \E n \in DOMAIN new : new[n] = list[i]
  <2>1. ASSUME NEW i \in S PROVE \E n \in DOMAIN new : new[n] = list[i]
    BY <1>7, <1>8
  <2> QED BY <1>8, <2>1
<1>11. Ids(new) = {list[i].id : i \in S}
  BY <1>10 DEF Ids
<1> QED BY <1>9, <1>10, <1>11 DEF new

LEMMA WithoutIs ==
  ASSUME NEW Rec, NEW list \in Seq(Rec), NEW d
  PROVE  Without(list, d) \in Seq(Rec) /\ Ids(Without(list, d)) = Ids(list) \ {d}
<1> DEFINE S == {i \in DOMAIN list : list[i].id # d}
<1>1. S \in SUBSET DOMAIN list /\ {list[i].id : i \in S} = Ids(list) \ {d}
  BY DEF Ids
<1>2. Without(list, d) = Filtered(list, S)
  BY DEF Without
<1> HIDE DEF S
<1> QED BY <1>1, <1>2, FilteredIs

LEMMA UnexpiredIs ==
  ASSUME NEW Rec, NEW list \in Seq(Rec), NEW time
  PROVE  /\ Unexpired(list, time) \in Seq(Rec)
         /\ Ids(Unexpired(list, time)) \subseteq Ids(list)
         /\ \A i \in DOMAIN list : list[i].until > time =>
               \E n \in DOMAIN Unexpired(list, time) : Unexpired(list, time)[n] = list[i]
<1> DEFINE S == {i \in DOMAIN list : list[i].until > time}
<1>1. /\ S \in SUBSET DOMAIN list /\ {list[i].id : i \in S} \subseteq Ids(list)
      /\ \A i \in DOMAIN list : list[i].until > time => i \in S
  BY DEF Ids
<1>2. Unexpired(list, time) = Filtered(list, S)
  BY DEF Unexpired
<1> HIDE DEF S
<1> QED BY <1>1, <1>2, FilteredIs

(* --------------------------------- The cap ------------------------------- *)
LEMMA EvictedIs ==
  ASSUME NEW Rec, \A r \in Rec : r.until \in Int,
         NEW list \in Seq(Rec), NEW cap \in Nat, Len(list) > cap
  PROVE  /\ Evicted(list, cap) \in Seq(Rec) /\ Len(Evicted(list, cap)) = cap
         /\ Ids(Evicted(list, cap)) \subseteq Ids(list)
         /\ \A i \in DOMAIN list : list[i].id \notin Ids(Evicted(list, cap)) =>
               \A j \in DOMAIN Evicted(list, cap) : Evicted(list, cap)[j].until >= list[i].until
<1>1. PICK N \in Nat : N = Len(list) /\ DOMAIN list = 1 .. N /\ N > cap
  OBVIOUS
<1> DEFINE D == 1 .. N
           R == EndsBefore(list)
           order == InOrder(D, R)
           byEnd == ByEnd(list)
           new == Evicted(list, cap)
<1>2. \A i \in D : list[i] \in Rec /\ list[i].until \in Int
  BY <1>1
<1>3. \A i, j \in D :
         (<<i, j>> \in R) <=> (list[i].until < list[j].until \/ (list[i].until = list[j].until /\ i < j))
  BY <1>1 DEF EndsBefore
<1>4. byEnd = [i \in D |-> list[order[i]]]
  BY <1>1 DEF ByEnd
<1>5. new = SubSeq(byEnd, N - cap + 1, N)
  BY <1>1 DEF Evicted
<1>6. IsFiniteSet(D) /\ Cardinality(D) = N
  <2>1. 1 \in Int /\ N \in Int
    OBVIOUS
  <2>2. IsFiniteSet(1 .. N) /\ Cardinality(1 .. N) = IF 1 > N THEN 0 ELSE N - 1 + 1
    BY <2>1, FS_Interval
  <2> QED BY <2>2
<1> HIDE DEF R
<1>7. Orders(R, D)
  <2>1. \A i \in D : <<i, i>> \notin R
    BY <1>1, <1>2, <1>3
  <2>2. \A i, j \in D : i # j => <<i, j>> \in R \/ <<j, i>> \in R
    BY <1>1, <1>2, <1>3
  <2>3. ASSUME NEW i \in D, NEW j \in D, NEW k \in D, <<i, j>> \in R, <<j, k>> \in R
        PROVE  <<i, k>> \in R
    <3>1. /\ list[i].until \in Int /\ list[j].until \in Int /\ list[k].until \in Int
          /\ i \in Int /\ j \in Int /\ k \in Int
      BY <1>1, <1>2
    <3>2. /\ list[i].until < list[j].until \/ (list[i].until = list[j].until /\ i < j)
          /\ list[j].until < list[k].until \/ (list[j].until = list[k].until /\ j < k)
      BY <1>3, <2>3
    <3>3. list[i].until < list[k].until \/ (list[i].until = list[k].until /\ i < k)
      BY <3>1, <3>2
    <3> QED BY <1>3, <3>3
  <2> QED BY <2>1, <2>2, <2>3 DEF Orders
<1>8. 1 .. Cardinality(D) = D
  BY <1>6
<1>9. /\ \A n \in D : order[n] \in D
      /\ \A i \in D : \E n \in D : order[n] = i
      /\ \A m, n \in D : m < n => <<order[m], order[n]>> \in R
  <2>1. PICK S, o : S = D /\ o = InOrder(S, R)
    OBVIOUS
  <2> HIDE DEF D
  <2>2. IsFiniteSet(S) /\ Orders(R, S) /\ 1 .. Cardinality(S) = S
    BY <1>6, <1>7, <1>8, <2>1
  <2>3. \A n \in 1 .. Cardinality(S) : o[n] \in S
    BY <2>1, <2>2, InOrderIs
  <2>4. \A i \in S : \E n \in 1 .. Cardinality(S) : o[n] = i
    BY <2>1, <2>2, InOrderIs
  <2>5. \A m, n \in 1 .. Cardinality(S) : m < n => <<o[m], o[n]>> \in R
    BY <2>1, <2>2, InOrderIs
  <2> QED BY <2>1, <2>2, <2>3, <2>4, <2>5
<1> HIDE DEF order, byEnd, new
<1>10. byEnd \in Seq(Rec) /\ Len(byEnd) = N /\ \A n \in D : byEnd[n] = list[order[n]]
  <2>1. \A n \in D : list[order[n]] \in Rec
    BY <1>2, <1>9
  <2> QED BY <1>4, <2>1
<1>11. PICK from \in Nat : from = N - cap /\ from >= 1
  <2>1. N - cap \in Nat /\ N - cap >= 1
    BY <1>1
  <2> QED BY <2>1
<1>12. /\ new \in Seq(Rec) /\ Len(new) = cap /\ DOMAIN new = 1 .. cap
       /\ \A n \in 1 .. cap : from + n \in D /\ new[n] = list[order[from + n]]
  <2>1. new = SubSeq(byEnd, from + 1, N) /\ N = from + cap
    BY <1>1, <1>5, <1>11
  <2>2. new = [n \in 1 .. cap |-> byEnd[from + n]]
    BY <1>10, <1>11, <2>1
  <2>3. \A n \in 1 .. cap : from + n \in D /\ byEnd[from + n] = list[order[from + n]]
    BY <1>10, <1>11, <2>1
  <2>4. \A n \in 1 .. cap : byEnd[from + n] \in Rec
    BY <1>2, <1>9, <2>3
  <2> QED BY <2>2, <2>3, <2>4
<1>13. Ids(new) \subseteq Ids(list)
  <2> SUFFICES ASSUME NEW n \in 1 .. cap PROVE new[n].id \in Ids(list)
    BY <1>12 DEF Ids
  <2>1. PICK m \in D : m = from + n
    BY <1>12
  <2>2. order[m] \in DOMAIN list /\ new[n] = list[order[m]]
    BY <1>1, <1>9, <1>12, <2>1
  <2> QED BY <2>2 DEF Ids
<1>14. ASSUME NEW i \in D, list[i].id \notin Ids(new), NEW j \in 1 .. cap
       PROVE  new[j].until >= list[i].until
  <2>1. PICK m \in D : order[m] = i
    BY <1>9
  <2>2. m <= from
    <3> SUFFICES ASSUME m > from PROVE FALSE
      BY <1>11
    <3>1. PICK n \in 1 .. cap : m = from + n
      <4>1. m - from \in 1 .. cap /\ m = from + (m - from)
        BY <1>1, <1>11
      <4> QED BY <4>1
    <3>2. new[n] = list[i] /\ n \in DOMAIN new
      BY <1>12, <2>1, <3>1
    <3> QED BY <1>14, <3>2 DEF Ids
  <2>3. PICK n \in D : n = from + j /\ m < n /\ new[j] = list[order[n]]
    BY <1>11, <1>12, <2>2
  <2>4. PICK o \in D : o = order[n]
    BY <1>9
  <2>5. <<i, o>> \in R
    BY <1>9, <2>1, <2>3, <2>4
  <2>6. list[i].until < list[o].until \/ (list[i].until = list[o].until /\ i < o)
    BY <1>3, <2>5
  <2>7. list[i].until \in Int /\ list[o].until \in Int
    BY <1>2
  <2> QED BY <2>3, <2>4, <2>6, <2>7
<1> QED BY <1>1, <1>12, <1>13, <1>14 DEF new

(* ------------------------------- addSeenDevice ---------------------------- *)
\* A ledger loses no record that has not expired, but to as many as it may have that end
\* later.
LosesNone(old, new, cap, time) ==
    \A i \in DOMAIN old :
        old[i].until > time /\ old[i].id \notin Ids(new) =>
            Len(new) = cap /\ \A j \in DOMAIN new : new[j].until >= old[i].until

LEMMA AddSeenIs ==
  ASSUME NEW Rec, \A r \in Rec : r.until \in Int,
         NEW list \in Seq(Rec), NEW record \in Rec, NEW cap \in Nat, NEW time
  PROVE  /\ AddSeen(list, record, cap, time) \in Seq(Rec)
         /\ Ids(AddSeen(list, record, cap, time)) \subseteq Ids(list) \cup {record.id}
         /\ LosesNone(list, AddSeen(list, record, cap, time), cap, time)
<1>1. PICK next : next = Append(list, record)
  OBVIOUS
<1>2. /\ next \in Seq(Rec) /\ Ids(next) \subseteq Ids(list) \cup {record.id}
      /\ \A i \in DOMAIN list : i \in DOMAIN next /\ next[i] = list[i]
  <2>1. next \in Seq(Rec)
    BY <1>1
  <2>2. \A i \in DOMAIN list : i \in DOMAIN next /\ next[i] = list[i]
    BY <1>1
  <2>3. \A i \in DOMAIN next : i \in DOMAIN list \/ next[i] = record
    BY <1>1
  <2> QED BY <2>1, <2>2, <2>3 DEF Ids
<1>3. PICK alive : alive = Unexpired(next, time)
  OBVIOUS
<1>4. /\ alive \in Seq(Rec) /\ Ids(alive) \subseteq Ids(next)
      /\ \A i \in DOMAIN next : next[i].until > time => \E n \in DOMAIN alive : alive[n] = next[i]
  BY <1>2, <1>3, UnexpiredIs
<1>5. PICK new : new = AddSeen(list, record, cap, time)
  OBVIOUS
<1>6. \/ new = next
      \/ new = alive
      \/ Len(alive) > cap /\ new = Evicted(alive, cap)
  <2>1. Len(next) \in Nat /\ Len(alive) \in Nat
    BY <1>2, <1>4
  <2> QED BY <1>1, <1>3, <1>5, <2>1 DEF AddSeen
<1>7. CASE new = next
  <2>1. LosesNone(list, new, cap, time)
    BY <1>2, <1>7 DEF LosesNone, Ids
  <2> QED BY <1>2, <1>5, <1>7, <2>1
<1>8. CASE new = alive
  <2>1. \A i \in DOMAIN list : list[i].until > time => list[i].id \in Ids(new)
    BY <1>2, <1>4, <1>8 DEF Ids
  <2>2. LosesNone(list, new, cap, time)
    BY <2>1 DEF LosesNone
  <2> QED BY <1>2, <1>4, <1>5, <1>8, <2>2
<1>9. CASE Len(alive) > cap /\ new = Evicted(alive, cap)
  <2>1. /\ new \in Seq(Rec) /\ Len(new) = cap /\ Ids(new) \subseteq Ids(alive)
        /\ \A i \in DOMAIN alive : alive[i].id \notin Ids(new) =>
              \A j \in DOMAIN new : new[j].until >= alive[i].until
    BY <1>4, <1>9, EvictedIs
  <2>2. LosesNone(list, new, cap, time)
    <3> SUFFICES ASSUME NEW i \in DOMAIN list, list[i].until > time, list[i].id \notin Ids(new)
                 PROVE  Len(new) = cap /\ \A j \in DOMAIN new : new[j].until >= list[i].until
      BY DEF LosesNone
    <3>1. PICK n \in DOMAIN alive : alive[n] = list[i]
      BY <1>2, <1>4
    <3> QED BY <2>1, <3>1
  <2> QED BY <1>2, <1>4, <1>5, <2>1, <2>2
<1> QED BY <1>6, <1>7, <1>8, <1>9

\* A record that slides is the same record, with a later end.
LEMMA RecordSlides ==
  ASSUME NEW A, NEW r \in [id : Nat, ip : A, until : Int], NEW u \in Int
  PROVE  [r EXCEPT !.until = u] \in [id : Nat, ip : A, until : Int] /\ [r EXCEPT !.until = u].id = r.id
  OBVIOUS

LEMMA SlidIs ==
  ASSUME NEW A, NEW list \in Seq([id : Nat, ip : A, until : Int]), NEW d, NEW until \in Int
  PROVE  Slid(list, d, until) \in Seq([id : Nat, ip : A, until : Int]) /\ Ids(Slid(list, d, until)) = Ids(list)
<1>1. PICK Rec : Rec = [id : Nat, ip : A, until : Int]
  OBVIOUS
<1>2. PICK N \in Nat : N = Len(list) /\ DOMAIN list = 1 .. N /\ \A i \in 1 .. N : list[i] \in Rec
  <2>1. list \in Seq(Rec)
    BY <1>1
  <2> QED BY <2>1
<1>3. PICK new : new = Slid(list, d, until)
  OBVIOUS
<1>4. ASSUME NEW r \in Rec
      PROVE  [r EXCEPT !.until = until] \in Rec /\ [r EXCEPT !.until = until].id = r.id
  BY <1>1, RecordSlides
<1>5. new = [i \in 1 .. N |-> new[i]] /\ DOMAIN new = 1 .. N
  BY <1>2, <1>3 DEF Slid
<1>6. ASSUME NEW i \in 1 .. N PROVE new[i] \in Rec /\ new[i].id = list[i].id
  <2>1. new[i] = list[i] \/ new[i] = [list[i] EXCEPT !.until = until]
    BY <1>2, <1>3 DEF Slid
  <2> QED BY <1>2, <1>4, <2>1
<1>7. new \in Seq(Rec)
  <2>1. \A i \in 1 .. N : new[i] \in Rec
    BY <1>6
  <2>2. [i \in 1 .. N |-> new[i]] \in Seq(Rec)
    BY <2>1
  <2> QED BY <1>5, <2>2
<1>8. Ids(new) = Ids(list)
  <2>1. ASSUME NEW i \in 1 .. N PROVE new[i].id \in Ids(list) /\ list[i].id \in Ids(new)
    <3>1. new[i].id = list[i].id /\ i \in DOMAIN new /\ i \in DOMAIN list
      BY <1>2, <1>5, <1>6
    <3> QED BY <3>1 DEF Ids
  <2>2. Ids(new) \subseteq Ids(list)
    BY <1>5, <2>1 DEF Ids
  <2>3. Ids(list) \subseteq Ids(new)
    BY <1>2, <2>1 DEF Ids
  <2> QED BY <2>2, <2>3
<1> QED BY <1>1, <1>3, <1>7, <1>8

(* ------------------------------- The ledger ------------------------------ *)
\* The records on the lists of the account, and of the calls, are of devices that were
\* minted for that list.
LedgerAddress == setup.addresses \cup {""}
LedgerRecord == [id : Nat, ip : LedgerAddress, until : Int]
LedgerMinted == [kind : {"trusted", "seen"}, ip : LedgerAddress]
LedgerOf(list, kind) ==
    /\ list \in Seq(LedgerRecord)
    /\ \A d \in Ids(list) : d \in DOMAIN minted /\ minted[d].kind = kind

\* A device that is on no list of its kind.
LedgerAway(d) ==
    /\ d \in DOMAIN minted
    /\ minted[d].kind = "trusted" => d \notin Ids(account.trusted)
    /\ minted[d].kind = "seen" => d \notin Ids(account.seen)

\* What a call knows: a compare-and-set that has still its version has what it makes of
\* the list of the row, the list a revocation writes back has no device that was revoked
\* before, and what a call has revoked is away.
LedgerAdds(k) == k.at \in {"read", "cas"}
LedgerMakes(k) ==
    IF k.op = "trust" THEN k.past = account.trusted \o k.list
    ELSE /\ k.past \in Seq(LedgerRecord)
         /\ Ids(k.past) \subseteq Ids(account.seen) \cup Ids(k.list)
         /\ LosesNone(account.seen, k.past, setup.cap, now)
LedgerCasHolds(k) ==
    /\ LedgerAdds(k) => /\ k.op \in {"trust", "see", "slide"}
                        /\ LedgerOf(k.list, IF k.op = "trust" THEN "trusted" ELSE "seen")
    /\ LedgerAdds(k) /\ k.op = "see" => Len(k.list) = 1
    /\ k.at = "cas" => k.version \in Nat /\ k.version <= account.version
    /\ k.at = "cas" /\ k.version = account.version => LedgerMakes(k)
LedgerRevokeHolds(k) ==
    /\ k.op = "distrust" => /\ LedgerOf(k.list, "trusted")
                            /\ k.device \in DOMAIN minted \ Ids(k.list)
                            /\ minted[k.device].kind = "trusted"
    /\ k.op = "distrust" /\ k.at = "write" => Ids(k.list) \cap gone = {}
LedgerDeadHolds(k) ==
    /\ k.dead # {} => k.at = "end"
    /\ \A d \in k.dead : d \in DOMAIN minted /\ (minted[d].kind = "trusted" => k.op = "distrust")
    /\ k.calm => \A d \in k.dead : LedgerAway(d)
LedgerCallHolds(k) == LedgerCasHolds(k) /\ LedgerRevokeHolds(k) /\ LedgerDeadHolds(k)

\* A device that a call is still to add is known to no other call, and on no list.
LedgerKnown == Ids(account.trusted) \cup Ids(account.seen) \cup gone
LedgerNames(k) == Ids(k.list) \cup k.dead \cup (IF k.op = "distrust" THEN {k.device} ELSE {})
LedgerAdded(k) == IF LedgerAdds(k) THEN Ids(k.list) ELSE {}

LedgerStoresHold ==
    /\ now \in Int
    /\ minted \in Seq(LedgerMinted)
    /\ LedgerOf(account.trusted, "trusted") /\ LedgerOf(account.seen, "seen")
    /\ \A d \in gone : LedgerAway(d)
LedgerCallsHold == \A c \in DeviceCalls : LedgerCallHolds(busy[c])
LedgerApart ==
    /\ \A c \in DeviceCalls : /\ LedgerNames(busy[c]) \subseteq DOMAIN minted
                              /\ LedgerAdded(busy[c]) \cap LedgerKnown = {}
    /\ \A c, d \in DeviceCalls : c # d => LedgerAdded(busy[c]) \cap LedgerNames(busy[d]) = {}
\* Of two revocations of trusted devices neither is alone.
LedgerCalm ==
    \A c, d \in DeviceCalls :
        busy[c].op = "distrust" /\ busy[c].calm /\ busy[d].op = "distrust" => c = d

LedgerInv == LedgerStoresHold /\ LedgerCallsHold /\ LedgerApart /\ LedgerCalm

LEMMA LedgerOperators ==
  ASSUME NEW list, NEW record, NEW cap, NEW time, NEW d, NEW S, NEW R
  PROVE  /\ Devices!Ids(list) = Ids(list)
         /\ Devices!Without(list, d) = Without(list, d)
         /\ Devices!Unexpired(list, time) = Unexpired(list, time)
         /\ Devices!AddSeen(list, record, cap, time) = AddSeen(list, record, cap, time)
         /\ Devices!Slid(list, d, time) = Slid(list, d, time)
<1>1. ASSUME NEW P, NEW Q PROVE Devices!InOrder(P, Q) = InOrder(P, Q)
  <2>1. \A T : Devices!Cardinality(T) = Cardinality(T)
    BY DEF Devices!Cardinality, Cardinality
  <2> DEFINE under(i) == {j \in P : <<j, i>> \in Q}
             place(n) == CHOOSE i \in P : Cardinality(under(i)) = n - 1
  <2>2. InOrder(P, Q) = [n \in 1 .. Cardinality(P) |-> place(n)]
    BY DEF InOrder
  <2>3. Devices!InOrder(P, Q) = [n \in 1 .. Devices!Cardinality(P) |->
                                   CHOOSE i \in P : Devices!Cardinality(under(i)) = n - 1]
    BY DEF Devices!InOrder
  <2> HIDE DEF under
  <2>4. ASSUME NEW n PROVE (CHOOSE i \in P : Devices!Cardinality(under(i)) = n - 1) = place(n)
    BY <2>1
  <2> HIDE DEF place
  <2> QED BY <2>1, <2>2, <2>3, <2>4
<1>2. ASSUME NEW l, NEW P PROVE Devices!Filtered(l, P) = Filtered(l, P)
  <2>1. \A T : Devices!Cardinality(T) = Cardinality(T)
    BY DEF Devices!Cardinality, Cardinality
  <2> DEFINE order == InOrder(P, {p \in P \X P : p[1] < p[2]})
  <2>2. Filtered(l, P) = [n \in 1 .. Cardinality(P) |-> l[order[n]]]
    BY DEF Filtered
  <2>3. Devices!Filtered(l, P) = [n \in 1 .. Devices!Cardinality(P) |-> l[order[n]]]
    BY <1>1 DEF Devices!Filtered
  <2> HIDE DEF order
  <2> QED BY <2>1, <2>2, <2>3
<1>3. ASSUME NEW l PROVE Devices!Unexpired(l, time) = Unexpired(l, time)
  BY <1>2 DEF Devices!Unexpired, Unexpired
<1>4. ASSUME NEW l PROVE Devices!Evicted(l, cap) = Evicted(l, cap)
  BY <1>1 DEF Devices!Evicted, Evicted, Devices!ByEnd, ByEnd, Devices!EndsBefore, EndsBefore
<1>5. Devices!AddSeen(list, record, cap, time) = AddSeen(list, record, cap, time)
  BY <1>3, <1>4 DEF Devices!AddSeen, AddSeen
<1>6. Devices!Without(list, d) = Without(list, d)
  BY <1>2 DEF Devices!Without, Without
<1>7. Devices!Slid(list, d, time) = Slid(list, d, time)
  BY DEF Devices!Slid, Slid
<1>8. Devices!Ids(list) = Ids(list)
  BY DEF Devices!Ids, Ids
<1> QED BY <1>3, <1>5, <1>6, <1>7, <1>8
(* ---------------------- Any step, for the ledger -------------------------- *)
\* The deployment stays, the clock does not go back, and no device that was minted
\* becomes another.
LedgerGrows ==
    /\ setup' = setup /\ now \in Int /\ now' \in Int /\ now <= now'
    /\ \A d \in DOMAIN minted : d \in DOMAIN minted' /\ minted'[d] = minted[d]

LEMMA LedgerOfGrows ==
  ASSUME LedgerGrows, NEW list, NEW kind, LedgerOf(list, kind)
  PROVE  LedgerOf(list, kind)'
<1>1. LedgerRecord' = LedgerRecord
  BY DEF LedgerGrows, LedgerRecord, LedgerAddress
<1>2. \A d \in Ids(list) : d \in DOMAIN minted' /\ minted'[d].kind = kind
  BY DEF LedgerGrows, LedgerOf
<1> QED BY <1>1, <1>2 DEF LedgerOf

\* Another call: the same but for what it knows of being alone.
LedgerFades(k, m) ==
    /\ m.at = k.at /\ m.op = k.op /\ m.device = k.device /\ m.list = k.list
    /\ m.past = k.past /\ m.version = k.version /\ m.dead = k.dead
    /\ m.calm => k.calm

LEMMA LedgerCallStays ==
  ASSUME LedgerGrows, NEW k, NEW m, LedgerFades(k, m), LedgerCallHolds(k),
         account.version \in Nat, account'.version \in Nat, LedgerOf(account.seen, "seen"),
         account' = account \/ account'.version > account.version,
         m.op = "distrust" /\ m.at = "write" => Ids(m.list) \cap gone' = {},
         \A e \in m.dead : m.calm /\ LedgerAway(e) => LedgerAway(e)'
  PROVE  LedgerCallHolds(m)'
<1>1. LedgerCasHolds(m)'
  <2>1. /\ LedgerAdds(m) => m.op \in {"trust", "see", "slide"}
        /\ LedgerAdds(m) /\ m.op = "see" => Len(m.list) = 1
    BY DEF LedgerFades, LedgerCallHolds, LedgerCasHolds, LedgerAdds
  <2>2. LedgerAdds(m) => LedgerOf(m.list, IF m.op = "trust" THEN "trusted" ELSE "seen")
    BY DEF LedgerFades, LedgerCallHolds, LedgerCasHolds, LedgerAdds
  <2>3. LedgerAdds(m) => LedgerOf(m.list, IF m.op = "trust" THEN "trusted" ELSE "seen")'
    BY <2>2, LedgerOfGrows
  <2>4. m.at = "cas" => m.version \in Nat /\ m.version <= account.version
    BY DEF LedgerFades, LedgerCallHolds, LedgerCasHolds
  <2>5. m.at = "cas" => m.version \in Nat /\ m.version <= account'.version
    BY <2>4
  <2>6. ASSUME m.at = "cas", m.version = account'.version PROVE LedgerMakes(m)'
    <3>1. account' = account
      BY <2>4, <2>6
    <3>2. LedgerMakes(k)
      BY <2>6, <3>1 DEF LedgerFades, LedgerCallHolds, LedgerCasHolds
    <3>3. LedgerMakes(m)
      BY <3>2 DEF LedgerFades, LedgerMakes
    <3>4. CASE m.op = "trust"
      BY <3>1, <3>3, <3>4 DEF LedgerMakes
    <3>5. CASE m.op # "trust"
      <4>1. /\ m.past \in Seq(LedgerRecord) /\ LosesNone(account.seen, m.past, setup.cap, now)
            /\ Ids(m.past) \subseteq Ids(account.seen) \cup Ids(m.list)
        BY <3>3, <3>5 DEF LedgerMakes
      <4>2. LedgerRecord' = LedgerRecord
        BY DEF LedgerGrows, LedgerRecord, LedgerAddress
      <4>3. LosesNone(account.seen, m.past, setup.cap, now)'
        <5>1. account.seen \in Seq(LedgerRecord) /\ \A r \in LedgerRecord : r.until \in Int
          BY DEF LedgerOf, LedgerRecord
        <5>2. \A i \in DOMAIN account.seen : account.seen[i].until \in Int
          BY <5>1
        <5>3. \A i \in DOMAIN account.seen : account.seen[i].until > now' => account.seen[i].until > now
          BY <5>2 DEF LedgerGrows
        <5>4. setup' = setup
          BY DEF LedgerGrows
        <5> QED BY <3>1, <4>1, <5>3, <5>4 DEF LosesNone
      <4> QED BY <3>1, <3>5, <4>1, <4>2, <4>3 DEF LedgerMakes
    <3> QED BY <3>4, <3>5
  <2> QED BY <2>1, <2>3, <2>5, <2>6 DEF LedgerCasHolds, LedgerAdds
<1>2. LedgerRevokeHolds(m)'
  <2> SUFFICES ASSUME m.op = "distrust" PROVE LedgerRevokeHolds(m)'
    BY DEF LedgerRevokeHolds
  <2>1. LedgerOf(m.list, "trusted") /\ m.device \in DOMAIN minted \ Ids(m.list) /\ minted[m.device].kind = "trusted"
    BY DEF LedgerFades, LedgerCallHolds, LedgerRevokeHolds
  <2>2. LedgerOf(m.list, "trusted")'
    BY <2>1, LedgerOfGrows
  <2> QED BY <2>1, <2>2 DEF LedgerRevokeHolds, LedgerGrows
<1>3. LedgerDeadHolds(m)'
  <2>1. /\ m.dead # {} => m.at = "end"
        /\ \A d \in m.dead : d \in DOMAIN minted /\ (minted[d].kind = "trusted" => m.op = "distrust")
        /\ m.calm => \A d \in m.dead : LedgerAway(d)
    BY DEF LedgerFades, LedgerCallHolds, LedgerDeadHolds
  <2>2. m.calm => \A d \in m.dead : LedgerAway(d)'
    BY <2>1
  <2>3. \A d \in m.dead : d \in DOMAIN minted' /\ (minted'[d].kind = "trusted" => m.op = "distrust")
    BY <2>1 DEF LedgerGrows
  <2> QED BY <2>1, <2>2, <2>3 DEF LedgerDeadHolds
<1> QED BY <1>1, <1>2, <1>3 DEF LedgerCallHolds

\* A step of one call that writes or revokes, if anything, what that call names.
LEMMA LedgerStep ==
  ASSUME DeviceInv, LedgerInv, LedgerGrows, NEW c \in DeviceCalls, NEW k, busy'[c] = k,
         \A d \in DeviceCalls : d # c => LedgerFades(busy[d], busy'[d]),
         account'.version \in Nat, account' = account \/ account'.version > account.version,
         LedgerStoresHold', LedgerCallHolds(k)', LedgerCalm',
         LedgerKnown' \subseteq LedgerKnown \cup LedgerNames(busy[c]),
         LedgerNames(k) \subseteq LedgerNames(busy[c]) \cup LedgerKnown \cup (DOMAIN minted' \ DOMAIN minted),
         LedgerAdded(k) \subseteq LedgerAdded(busy[c]) \cup (DOMAIN minted' \ DOMAIN minted),
         LedgerNames(k) \subseteq DOMAIN minted', LedgerAdded(k) \cap LedgerKnown' = {},
         \A d \in DeviceCalls : d # c /\ busy[d].op = "distrust" /\ busy[d].at = "write" =>
                                   Ids(busy[d].list) \cap gone' = {},
         \A d \in DeviceCalls : d # c => \A e \in busy[d].dead :
                                   busy'[d].calm /\ LedgerAway(e) => LedgerAway(e)'
  PROVE  LedgerInv'
<1>1. account.version \in Nat /\ LedgerOf(account.seen, "seen")
  BY DEF DeviceInv, DeviceStoresHold, DeviceFormsHold, DeviceIsRow, LedgerInv, LedgerStoresHold
<1>2. ASSUME NEW d \in DeviceCalls PROVE LedgerCallHolds(busy[d])'
  <2>1. CASE d = c
    BY <2>1
  <2>2. CASE d # c
    <3>1. PICK k1, m : k1 = busy[d] /\ m = busy'[d]
      OBVIOUS
    <3>2. LedgerFades(k1, m) /\ LedgerCallHolds(k1)
      BY <2>2, <3>1 DEF LedgerInv, LedgerCallsHold
    <3>3. m.op = "distrust" /\ m.at = "write" => Ids(m.list) \cap gone' = {}
      BY <2>2, <3>1, <3>2 DEF LedgerFades
    <3>4. \A e \in m.dead : m.calm /\ LedgerAway(e) => LedgerAway(e)'
      BY <2>2, <3>1, <3>2 DEF LedgerFades
    <3>5. LedgerCallHolds(m)'
      BY <1>1, <3>2, <3>3, <3>4, LedgerCallStays
    <3> QED BY <3>1, <3>5
  <2> QED BY <2>1, <2>2
<1>3. LedgerCallsHold'
  BY <1>2 DEF LedgerCallsHold
<1>4. LedgerApart'
  <2>1. /\ \A d \in DeviceCalls : /\ LedgerNames(busy[d]) \subseteq DOMAIN minted
                                  /\ LedgerAdded(busy[d]) \cap LedgerKnown = {}
        /\ \A d, e \in DeviceCalls : d # e => LedgerAdded(busy[d]) \cap LedgerNames(busy[e]) = {}
    BY DEF LedgerInv, LedgerApart
  <2>2. \A d \in DeviceCalls : d # c => /\ LedgerNames(busy'[d]) = LedgerNames(busy[d])
                                        /\ LedgerAdded(busy'[d]) = LedgerAdded(busy[d])
    BY DEF LedgerFades, LedgerNames, LedgerAdded, LedgerAdds
  <2>3. \A d \in DeviceCalls : LedgerAdded(busy[d]) \subseteq LedgerNames(busy[d])
    BY DEF LedgerNames, LedgerAdded
  <2>4. DOMAIN minted \subseteq DOMAIN minted'
    BY DEF LedgerGrows
  <2>5. ASSUME NEW d \in DeviceCalls
        PROVE  LedgerNames(busy'[d]) \subseteq DOMAIN minted' /\ LedgerAdded(busy'[d]) \cap LedgerKnown' = {}
    <3>1. CASE d = c
      BY <3>1
    <3>2. CASE d # c
      <4>1. LedgerAdded(busy[d]) \cap (LedgerKnown \cup LedgerNames(busy[c])) = {}
        BY <2>1, <3>2
      <4> QED BY <2>1, <2>2, <2>4, <3>2, <4>1
    <3> QED BY <3>1, <3>2
  <2>6. ASSUME NEW d \in DeviceCalls, NEW e \in DeviceCalls, d # e
        PROVE  LedgerAdded(busy'[d]) \cap LedgerNames(busy'[e]) = {}
    <3>1. CASE d = c
      <4>1. LedgerAdded(busy[c]) \cap LedgerNames(busy[e]) = {} /\ LedgerNames(busy[e]) \subseteq DOMAIN minted
        BY <2>1, <2>6, <3>1
      <4> QED BY <2>2, <2>6, <3>1, <4>1
    <3>2. CASE e = c
      <4>1. /\ LedgerAdded(busy[d]) \cap (LedgerNames(busy[c]) \cup LedgerKnown) = {}
            /\ LedgerAdded(busy[d]) \subseteq DOMAIN minted
        BY <2>1, <2>3, <2>6, <3>2
      <4> QED BY <2>2, <2>6, <3>2, <4>1
    <3>3. CASE d # c /\ e # c
      BY <2>1, <2>2, <2>6, <3>3
    <3> QED BY <3>1, <3>2, <3>3
  <2> QED BY <2>5, <2>6 DEF LedgerApart
<1> QED BY <1>3, <1>4 DEF LedgerInv

\* A step of one call that leaves the row and what was revoked as they are.
LEMMA LedgerQuietStep ==
  ASSUME DeviceInv, LedgerInv, LedgerGrows, NEW c \in DeviceCalls, NEW k,
         Devices!Goes(c, k), DeviceIsCall(k),
         UNCHANGED <<account, gone>>,
         minted' \in Seq(LedgerMinted),
         LedgerCallHolds(k)',
         LedgerNames(k) \subseteq LedgerNames(busy[c]) \cup (DOMAIN minted' \ DOMAIN minted),
         LedgerAdded(k) \subseteq LedgerAdded(busy[c]) \cup (DOMAIN minted' \ DOMAIN minted),
         k.op = "distrust" => busy[c].op = "distrust" /\ k.calm = busy[c].calm
  PROVE  LedgerInv'
<1>1. busy'[c] = k /\ \A d \in DeviceCalls : d # c => busy'[d] = busy[d]
  BY DeviceCallsMove
<1>2. \A d \in DeviceCalls : d # c => LedgerFades(busy[d], busy'[d])
  BY <1>1 DEF LedgerFades
<1>3. account'.version \in Nat
  BY DEF DeviceInv, DeviceStoresHold, DeviceFormsHold, DeviceIsRow
<1>4. ASSUME NEW e, LedgerAway(e) PROVE LedgerAway(e)'
  BY <1>4 DEF LedgerAway, LedgerGrows
<1>5. LedgerStoresHold'
  <2>1. LedgerOf(account.trusted, "trusted")' /\ LedgerOf(account.seen, "seen")'
    <3>1. PICK t, s : t = account.trusted /\ s = account.seen
      OBVIOUS
    <3>2. LedgerOf(t, "trusted") /\ LedgerOf(s, "seen")
      BY <3>1 DEF LedgerInv, LedgerStoresHold
    <3>3. LedgerOf(t, "trusted")' /\ LedgerOf(s, "seen")'
      BY <3>2, LedgerOfGrows
    <3> QED BY <3>1, <3>3
  <2>2. \A d \in gone' : LedgerAway(d)'
    BY <1>4 DEF LedgerInv, LedgerStoresHold
  <2>3. now' \in Int /\ setup' = setup
    BY DEF LedgerGrows
  <2>4. LedgerMinted' = LedgerMinted
    BY <2>3 DEF LedgerMinted, LedgerAddress
  <2> QED BY <2>1, <2>2, <2>3, <2>4 DEF LedgerStoresHold
<1>6. LedgerCalm'
  BY <1>1 DEF LedgerInv, LedgerCalm
<1>7. LedgerKnown' = LedgerKnown /\ LedgerKnown \subseteq DOMAIN minted
  BY DEF LedgerKnown, LedgerInv, LedgerStoresHold, LedgerOf, LedgerAway
<1>8. LedgerNames(busy[c]) \subseteq DOMAIN minted /\ LedgerAdded(busy[c]) \cap LedgerKnown = {}
  BY DEF LedgerInv, LedgerApart
<1>9. DOMAIN minted \subseteq DOMAIN minted'
  BY DEF LedgerGrows
<1>10. LedgerNames(k) \subseteq DOMAIN minted' /\ LedgerAdded(k) \cap LedgerKnown' = {}
  BY <1>7, <1>8, <1>9
<1>11. \A d \in DeviceCalls : busy[d].op = "distrust" /\ busy[d].at = "write" => Ids(busy[d].list) \cap gone' = {}
  BY DEF LedgerInv, LedgerCallsHold, LedgerCallHolds, LedgerRevokeHolds
<1> QED BY <1>1, <1>2, <1>3, <1>4, <1>5, <1>6, <1>7, <1>10, <1>11, LedgerStep

LEMMA LedgerStays == UNCHANGED <<setup, now, minted>> /\ now \in Int => LedgerGrows
  BY DEF LedgerGrows

LEMMA LedgerEmpty == Ids(<<>>) = {}
  BY DEF Ids

(* ---------------------- The steps, for the ledger ------------------------- *)
\* A call that names no device: the start of a slide or of a write that adds none, and
\* the end of one that failed.
LEMMA LedgerPlainStep ==
  ASSUME DeviceInv, LedgerInv, NEW c \in DeviceCalls, NEW k, Devices!Goes(c, k), DeviceIsCall(k),
         UNCHANGED <<account, gone, setup, now, minted>>,
         k.list = <<>>, k.dead = {}, k.op # "distrust", k.at # "cas", k.at = "read" => k.op = "slide"
  PROVE  LedgerInv'
<1>1. LedgerGrows
  BY LedgerStays DEF LedgerInv, LedgerStoresHold
<1>2. LedgerNames(k) = {} /\ LedgerAdded(k) = {}
  BY LedgerEmpty DEF LedgerNames, LedgerAdded
<1>3. LedgerCallHolds(k)'
  <2>1. LedgerOf(<<>>, "seen")'
    BY LedgerEmpty DEF LedgerOf
  <2>2. LedgerCasHolds(k)'
    BY <2>1 DEF LedgerCasHolds, LedgerAdds
  <2>3. LedgerRevokeHolds(k)' /\ LedgerDeadHolds(k)'
    BY DEF LedgerRevokeHolds, LedgerDeadHolds
  <2> QED BY <2>2, <2>3 DEF LedgerCallHolds
<1>4. minted' \in Seq(LedgerMinted)
  BY DEF LedgerInv, LedgerStoresHold
<1> QED BY <1>1, <1>2, <1>3, <1>4, LedgerQuietStep

\* A device that was minted is new, and on the list it was minted for.
LEMMA LedgerMintsOne ==
  ASSUME LedgerInv, setup.ttl \in Nat, NEW kind \in {"trusted", "seen"}, NEW ip \in LedgerAddress,
         Devices!MintDeviceRecord(kind, ip), UNCHANGED <<setup, now>>,
         NEW list, list = <<Devices!Record(kind, ip)>>
  PROVE  /\ LedgerGrows
         /\ minted' \in Seq(LedgerMinted)
         /\ LedgerOf(list, kind)' /\ Ids(list) \subseteq DOMAIN minted' \ DOMAIN minted
<1>1. PICK Minted, Rec, m : /\ Minted = LedgerMinted
                            /\ Rec = LedgerRecord /\ m = [kind |-> kind, ip |-> ip]
  OBVIOUS
<1>2. m \in Minted /\ m.kind = kind
  BY <1>1 DEF LedgerMinted
<1>3. PICK old \in Seq(Minted) : old = minted
  BY <1>1 DEF LedgerInv, LedgerStoresHold
<1>4. PICK n \in Nat : n = Len(old) + 1 /\ DOMAIN old = 1 .. (n - 1)
  OBVIOUS
<1>5. PICK new : new = Append(old, m)
  OBVIOUS
<1>6. /\ new \in Seq(Minted) /\ DOMAIN new = 1 .. n /\ new[n] = m
      /\ \A d \in 1 .. (n - 1) : new[d] = old[d]
  BY <1>2, <1>4, <1>5
<1>7. minted = old /\ minted' = new
  BY <1>1, <1>3, <1>5 DEF Devices!MintDeviceRecord
<1>8. /\ n \in DOMAIN new \ DOMAIN old
      /\ \A d \in DOMAIN old : d \in DOMAIN new /\ new[d] = old[d]
  BY <1>4, <1>6
<1>9. PICK t \in Int : t = now
  BY DEF LedgerInv, LedgerStoresHold
<1>10. LedgerGrows
  BY <1>7, <1>8, <1>9 DEF LedgerGrows
<1>11. PICK r : r = Devices!Record(kind, ip)
  OBVIOUS
<1>12. r \in Rec /\ r.id = n
  <2>1. r = [id |-> n, ip |-> ip, until |-> t + setup.ttl]
    BY <1>3, <1>4, <1>9, <1>11 DEF Devices!Record
  <2>2. t + setup.ttl \in Int
    BY <1>9
  <2> QED BY <1>1, <1>4, <2>1, <2>2 DEF LedgerRecord
<1>13. list = <<r>>
  BY <1>11
<1>14. list \in Seq(Rec) /\ DOMAIN list = {1} /\ list[1] = r
  BY <1>12, <1>13
<1>15. Ids(list) = {n}
  BY <1>12, <1>14 DEF Ids
<1>16. LedgerOf(list, kind)'
  <2>1. LedgerRecord' = Rec
    BY <1>1 DEF LedgerRecord, LedgerAddress
  <2> QED BY <1>2, <1>6, <1>7, <1>8, <1>14, <1>15, <2>1 DEF LedgerOf
<1>17. minted' \in Seq(LedgerMinted)
  BY <1>1, <1>6, <1>7
<1>18. Ids(list) \subseteq DOMAIN minted' \ DOMAIN minted
  BY <1>7, <1>8, <1>15
<1> QED BY <1>10, <1>16, <1>17, <1>18

\* The call that is to add it.
LEMMA LedgerMintStep ==
  ASSUME Devices!DeploymentsHold, DeviceInv, LedgerInv, NEW c \in DeviceCalls, NEW k, Devices!Goes(c, k),
         NEW kind \in {"trusted", "seen"}, NEW ip \in LedgerAddress,
         Devices!MintDeviceRecord(kind, ip), UNCHANGED <<account, gone, setup, now>>,
         DeviceIsCall(k), k.op = IF kind = "trusted" THEN "trust" ELSE "see", k.at = "read", k.dead = {},
         k.list = <<Devices!Record(kind, ip)>>
  PROVE  LedgerInv'
<1>1. setup.ttl \in Nat
  BY DEF Devices!DeploymentsHold, DeviceInv, DeviceStoresHold, DeviceFormsHold
<1>2. /\ LedgerGrows
      /\ minted' \in Seq(LedgerMinted)
      /\ LedgerOf(k.list, kind)' /\ Ids(k.list) \subseteq DOMAIN minted' \ DOMAIN minted
  BY <1>1, LedgerMintsOne
<1>3. LedgerCallHolds(k)'
  <2>1. k.op \in {"trust", "see"} /\ kind = (IF k.op = "trust" THEN "trusted" ELSE "seen")
    OBVIOUS
  <2>2. Len(k.list) = 1
    OBVIOUS
  <2>3. LedgerCasHolds(k)'
    BY <1>2, <2>1, <2>2 DEF LedgerCasHolds, LedgerAdds
  <2>4. LedgerRevokeHolds(k)' /\ LedgerDeadHolds(k)'
    BY <2>1 DEF LedgerRevokeHolds, LedgerDeadHolds
  <2> QED BY <2>3, <2>4 DEF LedgerCallHolds
<1>4. LedgerNames(k) = Ids(k.list) /\ LedgerAdded(k) = Ids(k.list)
  BY DEF LedgerNames, LedgerAdded, LedgerAdds
<1> QED BY <1>2, <1>3, <1>4, LedgerQuietStep

LEMMA LedgerTrustStep ==
  ASSUME Devices!DeploymentsHold, DeviceInv, LedgerInv, NEW c \in DeviceCalls, Devices!Trust(c)
  PROVE  LedgerInv'
<1>1. UNCHANGED <<account, gone, setup, now>>
  BY DEF Devices!Trust, Devices!ghosts
<1>2. PICK ip \in setup.addresses :
         /\ Devices!MintDeviceRecord("trusted", ip)
         /\ Devices!Goes(c, [Devices!Idle EXCEPT !.op = "trust", !.at = "read", !.list = <<Devices!Record("trusted", ip)>>])
  BY DEF Devices!Trust, Devices!Starts
<1>3. PICK list : list = <<Devices!Record("trusted", ip)>>
  OBVIOUS
<1>4. PICK k : k = [Devices!Idle EXCEPT !.op = "trust", !.at = "read", !.list = list]
  OBVIOUS
<1>5. DeviceIsCall(k) /\ k.op = "trust" /\ k.at = "read" /\ k.dead = {} /\ k.list = list
  BY <1>4 DEF DeviceIsCall, Devices!Idle
<1>6. Devices!Goes(c, k)
  BY <1>2, <1>3, <1>4
<1>7. ip \in LedgerAddress
  BY DEF LedgerAddress
<1> QED BY <1>1, <1>2, <1>3, <1>5, <1>6, <1>7, LedgerMintStep

LEMMA LedgerRecognitionStep ==
  ASSUME Devices!DeploymentsHold, DeviceInv, LedgerInv, NEW c \in DeviceCalls, NEW d,
         Devices!DeviceRecognition(c, d) \/ Devices!Unrecognized(c)
  PROVE  LedgerInv'
<1>1. UNCHANGED <<account, gone, setup, now>>
  BY DEF Devices!DeviceRecognition, Devices!Unrecognized, Devices!ghosts
<1>2. PICK list : list = <<Devices!Record("seen", "")>>
  OBVIOUS
<1>3. PICK k : /\ Devices!Goes(c, k)
               /\ \/ /\ Devices!MintDeviceRecord("seen", "")
                     /\ k = [Devices!Idle EXCEPT !.op = "see", !.at = "read", !.list = list]
                  \/ /\ UNCHANGED minted
                     /\ k = [Devices!Idle EXCEPT !.op = "slide", !.at = "read", !.device = d]
  BY <1>2 DEF Devices!DeviceRecognition, Devices!Unrecognized, Devices!Starts
<1>4. CASE Devices!MintDeviceRecord("seen", "") /\ k = [Devices!Idle EXCEPT !.op = "see", !.at = "read", !.list = list]
  <2>1. DeviceIsCall(k) /\ k.op = "see" /\ k.at = "read" /\ k.dead = {} /\ k.list = list
    BY <1>4 DEF DeviceIsCall, Devices!Idle
  <2>2. "" \in LedgerAddress
    BY DEF LedgerAddress
  <2>3. PICK ip \in LedgerAddress : Devices!MintDeviceRecord("seen", ip) /\ list = <<Devices!Record("seen", ip)>>
    BY <1>2, <1>4, <2>2
  <2> QED BY <1>1, <1>3, <2>1, <2>3, LedgerMintStep
<1>5. CASE UNCHANGED minted /\ k = [Devices!Idle EXCEPT !.op = "slide", !.at = "read", !.device = d]
  <2>1. DeviceIsCall(k) /\ k.op = "slide" /\ k.at = "read" /\ k.list = <<>> /\ k.dead = {}
    BY <1>5 DEF DeviceIsCall, Devices!Idle
  <2> QED BY <1>1, <1>3, <1>5, <2>1, LedgerPlainStep
<1> QED BY <1>3, <1>4, <1>5

LEMMA LedgerStartStep ==
  ASSUME DeviceInv, LedgerInv, NEW c \in DeviceCalls,
         \/ Devices!RevokeSeenDevices(c) \/ Devices!WriteElse(c) \/ Devices!Fail(c)
         \/ \E new \in Int : Devices!ApplyPasswordChange(c, new)
  PROVE  LedgerInv'
<1>1. UNCHANGED <<account, gone, setup, now, minted>>
  BY DEF Devices!RevokeSeenDevices, Devices!WriteElse, Devices!Fail, Devices!ApplyPasswordChange, Devices!ghosts
<1>2. PICK k : /\ Devices!Goes(c, k)
               /\ \/ k = [Devices!Idle EXCEPT !.op = "forget", !.at = "write"]
                  \/ k = [Devices!Idle EXCEPT !.op = "other", !.at = "write"]
                  \/ k = [Devices!Idle EXCEPT !.at = "end"]
                  \/ \E hash, past : k = [Devices!Idle EXCEPT !.op = "password", !.at = "write", !.hash = hash, !.past = past]
  <2>1. CASE Devices!RevokeSeenDevices(c) \/ Devices!WriteElse(c) \/ Devices!Fail(c)
    BY <2>1 DEF Devices!RevokeSeenDevices, Devices!WriteElse, Devices!Fail, Devices!Starts
  <2>2. CASE \E new \in Int : Devices!ApplyPasswordChange(c, new)
    <3>1. PICK new \in Int : Devices!ApplyPasswordChange(c, new)
      BY <2>2
    <3>2. PICK k : /\ Devices!Goes(c, k)
                   /\ k = [Devices!Idle EXCEPT !.op = "password", !.at = "write", !.hash = new,
                                               !.past = Devices!History(account)]
      BY <3>1 DEF Devices!ApplyPasswordChange, Devices!Starts
    <3> QED BY <3>2
  <2> QED BY <2>1, <2>2
<1>3. /\ DeviceIsCall(k) /\ k.list = <<>> /\ k.dead = {} /\ k.op # "distrust"
      /\ k.at \in {"write", "end"}
  BY <1>2 DEF DeviceIsCall, Devices!Idle
<1> QED BY <1>1, <1>2, <1>3, LedgerPlainStep

LEMMA LedgerIdleStep ==
  ASSUME DeviceInv, LedgerInv, UNCHANGED <<account, busy, gone, setup, minted>>, now' \in Int, now <= now'
  PROVE  LedgerInv'
<1>1. LedgerGrows
  BY DEF LedgerGrows, LedgerInv, LedgerStoresHold
<1>2. account.version \in Nat /\ account'.version \in Nat /\ LedgerOf(account.seen, "seen")
  BY DEF DeviceInv, DeviceStoresHold, DeviceFormsHold, DeviceIsRow, LedgerInv, LedgerStoresHold
<1>3. ASSUME NEW e, LedgerAway(e) PROVE LedgerAway(e)'
  BY <1>3 DEF LedgerAway
<1>4. ASSUME NEW d \in DeviceCalls PROVE LedgerCallHolds(busy[d])'
  <2>1. PICK k : k = busy[d]
    OBVIOUS
  <2>2. LedgerFades(k, k) /\ LedgerCallHolds(k)
    BY <2>1 DEF LedgerFades, LedgerInv, LedgerCallsHold
  <2>3. k.op = "distrust" /\ k.at = "write" => Ids(k.list) \cap gone' = {}
    BY <2>2 DEF LedgerCallHolds, LedgerRevokeHolds
  <2>4. LedgerCallHolds(k)'
    BY <1>1, <1>2, <1>3, <2>2, <2>3, LedgerCallStays
  <2> QED BY <2>1, <2>4
<1>5. LedgerStoresHold'
  <2>1. LedgerRecord' = LedgerRecord /\ LedgerMinted' = LedgerMinted
    BY DEF LedgerRecord, LedgerMinted, LedgerAddress
  <2> QED BY <1>3, <2>1 DEF LedgerInv, LedgerStoresHold, LedgerOf
<1>6. LedgerApart' /\ LedgerCalm'
  BY DEF LedgerInv, LedgerApart, LedgerCalm, LedgerKnown, LedgerNames, LedgerAdded, LedgerAdds
<1> QED BY <1>4, <1>5, <1>6 DEF LedgerInv, LedgerCallsHold

LEMMA LedgerCallIs ==
  ASSUME DeviceInv, LedgerInv, NEW c \in DeviceCalls
  PROVE  DeviceIsCall(busy[c]) /\ DeviceWroteHolds(busy[c]) /\ LedgerCallHolds(busy[c])
  BY DeviceCallIs DEF LedgerInv, LedgerCallsHold

\* What the mutator makes of the list of the row is what the write may make of it.
LEMMA LedgerMutator ==
  ASSUME Devices!DeploymentsHold, DeviceInv, LedgerInv, NEW q, LedgerCasHolds(q), q.at = "read",
         NEW list \in Devices!Mutator(q, account), NEW k, k.op = q.op, k.list = q.list, k.past = list
  PROVE  LedgerMakes(k)
<1>1. q.op \in {"trust", "see", "slide"} /\ LedgerOf(q.list, IF q.op = "trust" THEN "trusted" ELSE "seen")
  BY DEF LedgerCasHolds, LedgerAdds
<1>2. PICK Rec, seen, cap, t : Rec = LedgerRecord /\ seen = account.seen /\ cap = setup.cap /\ t = now
  OBVIOUS
<1>3. seen \in Seq(Rec) /\ q.list \in Seq(Rec) /\ (\A r \in Rec : r.until \in Int) /\ t \in Int
  <2>1. \A r \in LedgerRecord : r.until \in Int
    BY DEF LedgerRecord
  <2> QED BY <1>1, <1>2, <2>1 DEF LedgerInv, LedgerStoresHold, LedgerOf
<1>4. cap \in Nat /\ setup.ttl \in Nat
  BY <1>2 DEF Devices!DeploymentsHold, DeviceInv, DeviceStoresHold, DeviceFormsHold
<1>5. CASE q.op = "trust"
  BY <1>5 DEF Devices!Mutator, LedgerMakes
<1>6. CASE q.op = "see"
  <2>1. Len(q.list) = 1
    BY <1>6 DEF LedgerCasHolds, LedgerAdds
  <2>2. PICK r \in Rec : r = q.list[1] /\ r.id \in Ids(q.list)
    BY <1>3, <2>1 DEF Ids
  <2>3. list = AddSeen(seen, r, cap, t)
    BY <1>2, <1>6, <2>2, LedgerOperators DEF Devices!Mutator
  <2>4. list \in Seq(Rec) /\ Ids(list) \subseteq Ids(seen) \cup {r.id} /\ LosesNone(seen, list, cap, t)
    BY <1>3, <1>4, <2>3, AddSeenIs
  <2> QED BY <1>2, <1>6, <2>2, <2>4 DEF LedgerMakes
<1>7. CASE q.op = "slide"
  <2>1. PICK u : u = t + setup.ttl
    OBVIOUS
  <2>2. u \in Int
    BY <1>3, <1>4, <2>1
  <2>3. list = Slid(seen, q.device, u)
    BY <1>2, <1>7, <2>1, LedgerOperators DEF Devices!Mutator
  <2>4. PICK A, d : A = LedgerAddress /\ d = q.device
    OBVIOUS
  <2>5. list \in Seq(Rec) /\ Ids(list) = Ids(seen)
    <3>1. Rec = [id : Nat, ip : A, until : Int] /\ seen \in Seq([id : Nat, ip : A, until : Int])
      BY <1>2, <1>3, <2>4 DEF LedgerRecord
    <3>2. /\ Slid(seen, d, u) \in Seq([id : Nat, ip : A, until : Int])
          /\ Ids(Slid(seen, d, u)) = Ids(seen)
      BY <2>2, <3>1, SlidIs
    <3> QED BY <2>3, <2>4, <3>1, <3>2
  <2>6. LosesNone(seen, list, cap, t)
    BY <2>5 DEF LosesNone, Ids
  <2> QED BY <1>2, <1>7, <2>5, <2>6 DEF LedgerMakes
<1> QED BY <1>1, <1>5, <1>6, <1>7

LEMMA LedgerCasReadStep ==
  ASSUME Devices!DeploymentsHold, DeviceInv, LedgerInv, NEW c \in DeviceCalls, Devices!CasRead(c)
  PROVE  LedgerInv'
<1>1. PICK q : q = busy[c] /\ DeviceIsCall(q) /\ LedgerCallHolds(q) /\ q.at = "read"
  BY LedgerCallIs DEF Devices!CasRead, Devices!At
<1>2. UNCHANGED <<setup, account, minted, now, gone>>
  BY DEF Devices!CasRead, Devices!ghosts
<1>3. LedgerGrows /\ minted' \in Seq(LedgerMinted)
  BY <1>2, LedgerStays DEF LedgerInv, LedgerStoresHold
<1>4. /\ q.op \in {"trust", "see", "slide"} /\ q.dead = {}
      /\ LedgerOf(q.list, IF q.op = "trust" THEN "trusted" ELSE "seen")
      /\ q.op = "see" => Len(q.list) = 1
  BY <1>1 DEF LedgerCallHolds, LedgerCasHolds, LedgerDeadHolds, LedgerAdds
<1>5. PICK k : /\ Devices!Goes(c, k)
               /\ \/ k = [q EXCEPT !.at = "end"]
                  \/ \E list \in Devices!Mutator(q, account) :
                        k = [q EXCEPT !.at = "cas", !.version = account.version, !.past = list]
  BY <1>1 DEF Devices!CasRead
<1>6. /\ DeviceIsCall(k) /\ k.op = q.op /\ k.list = q.list /\ k.dead = {} /\ k.at \in {"end", "cas"}
      /\ k.at = "cas" => k.version = account.version /\ k.past \in Devices!Mutator(q, account)
  BY <1>1, <1>4, <1>5 DEF DeviceIsCall
<1>7. k.at = "cas" => LedgerMakes(k)'
  <2> SUFFICES ASSUME k.at = "cas" PROVE LedgerMakes(k)'
    OBVIOUS
  <2>1. LedgerMakes(k)
    BY <1>1, <1>6, LedgerMutator DEF LedgerCallHolds
  <2>2. LedgerRecord' = LedgerRecord
    BY <1>2 DEF LedgerRecord, LedgerAddress
  <2> QED BY <1>2, <2>1, <2>2 DEF LedgerMakes
<1>8. LedgerCallHolds(k)'
  <2>1. LedgerOf(k.list, IF k.op = "trust" THEN "trusted" ELSE "seen")'
    BY <1>3, <1>4, <1>6, LedgerOfGrows
  <2>2. account.version \in Nat
    BY DEF DeviceInv, DeviceStoresHold, DeviceFormsHold, DeviceIsRow
  <2>3. LedgerCasHolds(k)'
    BY <1>2, <1>4, <1>6, <1>7, <2>1, <2>2 DEF LedgerCasHolds, LedgerAdds
  <2>4. LedgerRevokeHolds(k)' /\ LedgerDeadHolds(k)'
    BY <1>4, <1>6 DEF LedgerRevokeHolds, LedgerDeadHolds
  <2> QED BY <2>3, <2>4 DEF LedgerCallHolds
<1>9. LedgerNames(k) \subseteq LedgerNames(q) /\ LedgerAdded(k) \subseteq LedgerAdded(q) /\ k.op # "distrust"
  BY <1>1, <1>4, <1>6 DEF LedgerNames, LedgerAdded, LedgerAdds
<1> QED BY <1>1, <1>2, <1>3, <1>5, <1>6, <1>8, <1>9, LedgerQuietStep

\* The lists of the rows a write makes.
LedgerWrote(n, r, trusted, seen) == n.version = r.version + 1 /\ n.trusted = trusted /\ n.seen = seen
LEMMA LedgerWrittenRow ==
  ASSUME NEW r, DeviceIsRow(r), NEW x, NEW y
  PROVE  /\ LedgerWrote(Devices!Applied([r EXCEPT !.trusted = x]), r, x, r.seen)
         /\ LedgerWrote(Devices!Applied([r EXCEPT !.seen = x]), r, r.trusted, x)
         /\ LedgerWrote(Devices!Applied([r EXCEPT !.hash = x, !.past = y]), r, r.trusted, r.seen)
         /\ LedgerWrote(Devices!Applied(r), r, r.trusted, r.seen)
<1>1. PICK v, t, s, h, l :
         v \in Nat /\ r = [version |-> v, trusted |-> t, seen |-> s, hash |-> h, past |-> l]
  BY DEF DeviceIsRow
<1>2. ASSUME NEW a, NEW b, NEW c, NEW d
      PROVE  LedgerWrote(Devices!Applied([version |-> v, trusted |-> a, seen |-> b, hash |-> c, past |-> d]), r, a, b)
  <2>1. PICK w \in Nat : w = v + 1
    BY <1>1
  <2>2. Devices!Applied([version |-> v, trusted |-> a, seen |-> b, hash |-> c, past |-> d])
           = [version |-> w, trusted |-> a, seen |-> b, hash |-> c, past |-> d]
    BY <2>1 DEF Devices!Applied
  <2>3. r.version + 1 = w
    BY <1>1, <2>1
  <2> QED BY <2>2, <2>3 DEF LedgerWrote
<1>3. r.trusted = t /\ r.seen = s
  BY <1>1
<1>4. [r EXCEPT !.trusted = x] = [version |-> v, trusted |-> x, seen |-> s, hash |-> h, past |-> l]
  BY <1>1
<1>5. [r EXCEPT !.seen = x] = [version |-> v, trusted |-> t, seen |-> x, hash |-> h, past |-> l]
  BY <1>1
<1>6. [r EXCEPT !.hash = x, !.past = y] = [version |-> v, trusted |-> t, seen |-> s, hash |-> x, past |-> y]
  <2>1. PICK z : z = [version |-> v, trusted |-> t, seen |-> s, hash |-> x, past |-> l]
    OBVIOUS
  <2>2. [r EXCEPT !.hash = x] = z
    BY <1>1, <2>1
  <2>3. [z EXCEPT !.past = y] = [version |-> v, trusted |-> t, seen |-> s, hash |-> x, past |-> y]
    BY <2>1
  <2>4. [r EXCEPT !.hash = x, !.past = y] = [[r EXCEPT !.hash = x] EXCEPT !.past = y]
    BY <1>1
  <2> QED BY <2>2, <2>3, <2>4
<1> QED BY <1>1, <1>2, <1>3, <1>4, <1>5, <1>6

\* The lists of a row that has no more than what a call adds, none of which was revoked.
LEMMA LedgerListsHold ==
  ASSUME DeviceInv, LedgerInv, LedgerGrows, minted' = minted, gone' = gone, NEW added,
         LedgerOf(account.trusted, "trusted")', LedgerOf(account.seen, "seen")',
         Ids(account'.trusted) \subseteq Ids(account.trusted) \cup added,
         Ids(account'.seen) \subseteq Ids(account.seen) \cup added,
         added \cap gone = {}
  PROVE  /\ LedgerStoresHold' /\ LedgerKnown' \subseteq LedgerKnown \cup added
         /\ \A e : LedgerAway(e) /\ e \notin added => LedgerAway(e)'
<1>1. ASSUME NEW e, LedgerAway(e), e \notin added PROVE LedgerAway(e)'
  BY <1>1 DEF LedgerAway
<1>2. \A e \in gone' : LedgerAway(e)'
  BY <1>1 DEF LedgerInv, LedgerStoresHold
<1>3. now' \in Int /\ setup' = setup
  BY DEF LedgerGrows
<1>4. minted' \in Seq(LedgerMinted')
  <2>1. LedgerMinted' = LedgerMinted
    BY <1>3 DEF LedgerMinted, LedgerAddress
  <2> QED BY <2>1 DEF LedgerInv, LedgerStoresHold
<1>5. LedgerStoresHold'
  BY <1>2, <1>3, <1>4 DEF LedgerStoresHold
<1>6. LedgerKnown' \subseteq LedgerKnown \cup added
  BY DEF LedgerKnown
<1> QED BY <1>1, <1>5, <1>6

\* A call that wrote, or found out that it did not, and goes on without adding anything.
LEMMA LedgerWriteStep ==
  ASSUME DeviceInv, LedgerInv, UNCHANGED <<setup, minted, now, gone>>,
         NEW c \in DeviceCalls, NEW q, q = busy[c], NEW k, Devices!Goes(c, k), DeviceIsCall(k),
         k.op = q.op, k.list = q.list, k.device = q.device, k.calm = q.calm, k.at = "end",
         account'.version = account.version + 1, NEW added, added \subseteq LedgerNames(q), added \cap gone = {},
         LedgerOf(account.trusted, "trusted")', LedgerOf(account.seen, "seen")',
         Ids(account'.trusted) \subseteq Ids(account.trusted) \cup added,
         Ids(account'.seen) \subseteq Ids(account.seen) \cup added,
         k.dead \subseteq LedgerNames(q) \cup Ids(account.seen),
         LedgerRevokeHolds(k)', LedgerDeadHolds(k)',
         \A d \in DeviceCalls : d # c => \A e \in busy[d].dead :
                                   busy[d].calm /\ LedgerAway(e) /\ e \in added => LedgerAway(e)'
  PROVE  LedgerInv'
<1>1. busy'[c] = k /\ \A d \in DeviceCalls : d # c => busy'[d] = busy[d]
  BY DeviceCallsMove
<1>2. LedgerGrows
  BY LedgerStays DEF LedgerInv, LedgerStoresHold
<1>3. \A d \in DeviceCalls : d # c => LedgerFades(busy[d], busy'[d])
  BY <1>1 DEF LedgerFades
<1>4. account'.version \in Nat /\ account'.version > account.version
  BY DEF DeviceInv, DeviceStoresHold, DeviceFormsHold, DeviceIsRow
<1>5. /\ LedgerStoresHold' /\ LedgerKnown' \subseteq LedgerKnown \cup added
      /\ \A e : LedgerAway(e) /\ e \notin added => LedgerAway(e)'
  BY <1>2, LedgerListsHold
<1>6. LedgerCallHolds(k)'
  <2>1. LedgerCasHolds(k)'
    BY DEF LedgerCasHolds, LedgerAdds
  <2> QED BY <2>1 DEF LedgerCallHolds
<1>7. LedgerCalm'
  BY <1>1 DEF LedgerInv, LedgerCalm
<1>8. LedgerNames(q) \subseteq DOMAIN minted /\ Ids(account.seen) \subseteq DOMAIN minted
  BY DEF LedgerInv, LedgerApart, LedgerStoresHold, LedgerOf
<1>9. LedgerNames(k) \subseteq LedgerNames(q) \cup Ids(account.seen) /\ LedgerAdded(k) = {}
  BY DEF LedgerNames, LedgerAdded, LedgerAdds
<1>10. /\ LedgerKnown' \subseteq LedgerKnown \cup LedgerNames(q)
       /\ LedgerNames(k) \subseteq LedgerNames(q) \cup LedgerKnown \cup (DOMAIN minted' \ DOMAIN minted)
       /\ LedgerNames(k) \subseteq DOMAIN minted'
  BY <1>5, <1>8, <1>9 DEF LedgerKnown
<1>11. \A d \in DeviceCalls : busy[d].op = "distrust" /\ busy[d].at = "write" => Ids(busy[d].list) \cap gone' = {}
  BY DEF LedgerInv, LedgerCallsHold, LedgerCallHolds, LedgerRevokeHolds
<1>12. \A d \in DeviceCalls : d # c => \A e \in busy[d].dead :
                                   busy'[d].calm /\ LedgerAway(e) => LedgerAway(e)'
  BY <1>1, <1>5
<1> QED BY <1>1, <1>2, <1>3, <1>4, <1>5, <1>6, <1>7, <1>9, <1>10, <1>11, <1>12, LedgerStep

\* The lists of the row that a conditional write makes.
LEMMA LedgerCasWrites ==
  ASSUME DeviceInv, NEW c \in DeviceCalls, Devices!CasWrite(c), NEW q, q = busy[c], Devices!CasApplies(q)
  PROVE  /\ account'.version = account.version + 1
         /\ IF q.op = "trust" THEN account'.trusted = q.past /\ account'.seen = account.seen
                              ELSE account'.trusted = account.trusted /\ account'.seen = q.past
<1>1. account' = Devices!Applied(IF q.op = "trust" THEN [account EXCEPT !.trusted = q.past]
                                                   ELSE [account EXCEPT !.seen = q.past])
  BY DEF Devices!CasWrite
<1>2. DeviceIsRow(account)
  BY DEF DeviceInv, DeviceStoresHold, DeviceFormsHold
<1>3. IF q.op = "trust" THEN LedgerWrote(account', account, q.past, account.seen)
                        ELSE LedgerWrote(account', account, account.trusted, q.past)
  BY <1>1, <1>2, LedgerWrittenRow
<1> QED BY <1>3 DEF LedgerWrote

LEMMA LedgerCasWriteStep ==
  ASSUME DeviceInv, LedgerInv, NEW c \in DeviceCalls, Devices!CasWrite(c)
  PROVE  LedgerInv'
<1>1. PICK q : q = busy[c] /\ DeviceIsCall(q) /\ LedgerCallHolds(q) /\ q.at = "cas"
  BY LedgerCallIs DEF Devices!CasWrite, Devices!At
<1>2. UNCHANGED <<setup, minted, now, gone>>
  BY DEF Devices!CasWrite, Devices!ghosts
<1>3. LedgerGrows /\ minted' \in Seq(LedgerMinted)
  BY <1>2, LedgerStays DEF LedgerInv, LedgerStoresHold
<1>4. /\ q.op \in {"trust", "see", "slide"} /\ q.dead = {}
      /\ LedgerOf(q.list, IF q.op = "trust" THEN "trusted" ELSE "seen")
      /\ q.op = "see" => Len(q.list) = 1
      /\ q.version = account.version => LedgerMakes(q)
  BY <1>1 DEF LedgerCallHolds, LedgerCasHolds, LedgerDeadHolds, LedgerAdds
<1>5. LedgerAdded(q) = Ids(q.list) /\ LedgerNames(q) = Ids(q.list)
  BY <1>1, <1>4 DEF LedgerAdded, LedgerAdds, LedgerNames
<1>6. CASE Devices!CasApplies(q)
  <2>1. DeviceIsRow(account) /\ account.version = q.version /\ LedgerMakes(q)
    BY <1>4, <1>6 DEF Devices!CasApplies, DeviceInv, DeviceStoresHold, DeviceFormsHold
  <2>2. PICK k : /\ k = [q EXCEPT !.at = "end", !.wrote = account'.version] /\ Devices!Goes(c, k)
    BY <1>1, <1>6 DEF Devices!CasWrite
  <2>3. /\ DeviceIsCall(k) /\ k.op = q.op /\ k.list = q.list /\ k.device = q.device /\ k.calm = q.calm
        /\ k.at = "end" /\ k.dead = {}
    BY <1>1, <1>4, <2>2 DEF DeviceIsCall
  <2>4. /\ account'.version = account.version + 1
        /\ IF q.op = "trust" THEN account'.trusted = q.past /\ account'.seen = account.seen
                             ELSE account'.trusted = account.trusted /\ account'.seen = q.past
    BY <1>1, <1>6, LedgerCasWrites
  <2>5. LedgerOf(account.trusted, "trusted") /\ LedgerOf(account.seen, "seen")
    BY DEF LedgerInv, LedgerStoresHold
  <2>6. /\ LedgerOf(account'.trusted, "trusted") /\ LedgerOf(account'.seen, "seen")
        /\ Ids(account'.trusted) \subseteq Ids(account.trusted) \cup Ids(q.list)
        /\ Ids(account'.seen) \subseteq Ids(account.seen) \cup Ids(q.list)
    <3>1. CASE q.op = "trust"
      <4>1. account'.trusted = account.trusted \o q.list /\ account'.seen = account.seen
        BY <2>1, <2>4, <3>1 DEF LedgerMakes
      <4>2. LedgerOf(q.list, "trusted")
        BY <1>4, <3>1
      <4>3. account'.trusted \in Seq(LedgerRecord) /\ Ids(account'.trusted) = Ids(account.trusted) \cup Ids(q.list)
        BY <2>5, <4>1, <4>2, JoinedIs DEF LedgerOf
      <4> QED BY <2>5, <4>1, <4>2, <4>3 DEF LedgerOf
    <3>2. CASE q.op # "trust"
      <4>1. /\ account'.trusted = account.trusted /\ account'.seen \in Seq(LedgerRecord)
            /\ Ids(account'.seen) \subseteq Ids(account.seen) \cup Ids(q.list)
        BY <2>1, <2>4, <3>2 DEF LedgerMakes
      <4>2. LedgerOf(q.list, "seen")
        BY <1>4, <3>2
      <4> QED BY <2>5, <4>1, <4>2 DEF LedgerOf
    <3> QED BY <3>1, <3>2
  <2>7. LedgerOf(account.trusted, "trusted")' /\ LedgerOf(account.seen, "seen")'
    <3>1. PICK t, s : t = account'.trusted /\ s = account'.seen
      OBVIOUS
    <3>2. LedgerOf(t, "trusted")' /\ LedgerOf(s, "seen")'
      BY <1>3, <2>6, <3>1, LedgerOfGrows
    <3> QED BY <1>2, <3>1, <3>2 DEF LedgerOf, LedgerRecord
  <2>8. Ids(q.list) \cap gone = {} /\ \A d \in DeviceCalls : d # c => Ids(q.list) \cap busy[d].dead = {}
    BY <1>1, <1>5 DEF LedgerInv, LedgerApart, LedgerKnown, LedgerNames
  <2>9. LedgerRevokeHolds(k)' /\ LedgerDeadHolds(k)'
    BY <1>4, <2>3 DEF LedgerRevokeHolds, LedgerDeadHolds
  <2>10. PICK added : added = Ids(q.list)
    OBVIOUS
  <2>11. /\ added \subseteq LedgerNames(q) /\ added \cap gone = {} /\ k.dead \subseteq LedgerNames(q) \cup Ids(account.seen)
         /\ Ids(account'.trusted) \subseteq Ids(account.trusted) \cup added
         /\ Ids(account'.seen) \subseteq Ids(account.seen) \cup added
    BY <1>5, <2>3, <2>6, <2>8, <2>10
  <2>12. \A d \in DeviceCalls : d # c => \A e \in busy[d].dead :
                                   busy[d].calm /\ LedgerAway(e) /\ e \in added => LedgerAway(e)'
    BY <2>8, <2>10
  <2> QED BY <1>1, <1>2, <2>2, <2>3, <2>4, <2>7, <2>9, <2>11, <2>12, LedgerWriteStep, ZenonT(60)
<1>7. CASE ~Devices!CasApplies(q)
  <2>1. PICK k : /\ Devices!Goes(c, k)
                 /\ \/ k = [q EXCEPT !.at = "read", !.attempt = q.attempt + 1, !.past = <<>>, !.version = 0]
                    \/ k = [q EXCEPT !.at = "end"]
    BY <1>1, <1>7 DEF Devices!CasWrite
  <2>2. DeviceIsCall(k) /\ k.op = q.op /\ k.list = q.list /\ k.dead = {} /\ k.at \in {"read", "end"}
    BY <1>1, <1>4, <2>1 DEF DeviceIsCall
  <2>3. UNCHANGED account
    BY <1>1, <1>7 DEF Devices!CasWrite
  <2>4. LedgerCallHolds(k)'
    <3>1. LedgerOf(k.list, IF k.op = "trust" THEN "trusted" ELSE "seen")'
      BY <1>3, <1>4, <2>2, LedgerOfGrows
    <3>2. LedgerCasHolds(k)'
      BY <1>4, <2>2, <3>1 DEF LedgerCasHolds, LedgerAdds
    <3>3. LedgerRevokeHolds(k)' /\ LedgerDeadHolds(k)'
      BY <1>4, <2>2 DEF LedgerRevokeHolds, LedgerDeadHolds
    <3> QED BY <3>2, <3>3 DEF LedgerCallHolds
  <2>5. LedgerNames(k) \subseteq LedgerNames(q) /\ LedgerAdded(k) \subseteq LedgerAdded(q) /\ k.op # "distrust"
    BY <1>1, <1>4, <1>5, <2>2 DEF LedgerNames, LedgerAdded
  <2> QED BY <1>1, <1>2, <1>3, <2>1, <2>2, <2>3, <2>4, <2>5, LedgerQuietStep
<1> QED BY <1>6, <1>7

\* The lists of the row that a plain write makes.
LEMMA LedgerUpdateWrites ==
  ASSUME DeviceInv, NEW c \in DeviceCalls, Devices!Update(c), NEW q, q = busy[c]
  PROVE  /\ account'.version = account.version + 1
         /\ account'.trusted = IF q.op = "distrust" THEN q.list ELSE account.trusted
         /\ account'.seen = IF q.op = "forget" THEN <<>> ELSE account.seen
<1>1. account' = Devices!Applied(Devices!Written(q, account)) /\ q.at = "write"
  BY DEF Devices!Update, Devices!At
<1>2. DeviceIsRow(account) /\ q.op \in {"distrust", "forget", "password", "other"}
  BY <1>1, DeviceCallIs DEF DeviceInv, DeviceStoresHold, DeviceFormsHold, DeviceWroteHolds
<1>3. CASE q.op = "distrust"
  <2>1. account' = Devices!Applied([account EXCEPT !.trusted = q.list])
    BY <1>1, <1>3 DEF Devices!Written
  <2>2. LedgerWrote(account', account, q.list, account.seen)
    BY <1>2, <2>1, LedgerWrittenRow
  <2> QED BY <1>3, <2>2 DEF LedgerWrote
<1>4. CASE q.op = "forget"
  <2>1. account' = Devices!Applied([account EXCEPT !.seen = <<>>])
    BY <1>1, <1>4 DEF Devices!Written
  <2>2. LedgerWrote(account', account, account.trusted, <<>>)
    BY <1>2, <2>1, LedgerWrittenRow
  <2> QED BY <1>4, <2>2 DEF LedgerWrote
<1>5. CASE q.op = "password"
  <2>1. account' = Devices!Applied([account EXCEPT !.hash = q.hash, !.past = q.past])
    BY <1>1, <1>5 DEF Devices!Written
  <2>2. LedgerWrote(account', account, account.trusted, account.seen)
    BY <1>2, <2>1, LedgerWrittenRow
  <2> QED BY <1>5, <2>2 DEF LedgerWrote
<1>6. CASE q.op = "other"
  <2>1. account' = Devices!Applied(account)
    BY <1>1, <1>6 DEF Devices!Written
  <2>2. LedgerWrote(account', account, account.trusted, account.seen)
    BY <1>2, <2>1, LedgerWrittenRow
  <2> QED BY <1>6, <2>2 DEF LedgerWrote
<1> QED BY <1>2, <1>3, <1>4, <1>5, <1>6

LEMMA LedgerUpdateStep ==
  ASSUME DeviceInv, LedgerInv, NEW c \in DeviceCalls, Devices!Update(c)
  PROVE  LedgerInv'
<1>1. PICK q : q = busy[c] /\ DeviceIsCall(q) /\ DeviceWroteHolds(q) /\ LedgerCallHolds(q) /\ q.at = "write"
  BY LedgerCallIs DEF Devices!Update, Devices!At
<1>2. UNCHANGED <<setup, minted, now, gone>>
  BY DEF Devices!Update
<1>3. LedgerGrows
  BY <1>2, LedgerStays DEF LedgerInv, LedgerStoresHold
<1>4. q.op \in {"distrust", "forget", "password", "other"}
  BY <1>1 DEF DeviceWroteHolds
<1>5. LedgerOf(account.trusted, "trusted") /\ LedgerOf(account.seen, "seen") /\ DeviceIsRow(account)
  BY DEF LedgerInv, LedgerStoresHold, DeviceInv, DeviceStoresHold, DeviceFormsHold
<1>6. q.op = "distrust" => /\ LedgerOf(q.list, "trusted") /\ Ids(q.list) \cap gone = {}
                           /\ q.device \in DOMAIN minted \ Ids(q.list) /\ minted[q.device].kind = "trusted"
  BY <1>1 DEF LedgerCallHolds, LedgerRevokeHolds
<1>7. /\ account'.version = account.version + 1
      /\ account'.trusted = IF q.op = "distrust" THEN q.list ELSE account.trusted
      /\ account'.seen = IF q.op = "forget" THEN <<>> ELSE account.seen
  BY <1>1, LedgerUpdateWrites
<1>8. PICK dead : dead = CASE q.op = "distrust" -> {q.device} [] q.op = "forget" -> Ids(account.seen) [] OTHER -> {}
  OBVIOUS
<1>9. /\ q.op = "distrust" => dead = {q.device}
      /\ q.op = "forget" => dead = Ids(account.seen)
      /\ q.op \notin {"distrust", "forget"} => dead = {}
  BY <1>8
<1>10. PICK k : k = [q EXCEPT !.at = "end", !.wrote = account'.version, !.dead = dead] /\ Devices!Goes(c, k)
  BY <1>1, <1>8, LedgerOperators DEF Devices!Update
<1>11. /\ DeviceIsCall(k) /\ k.op = q.op /\ k.list = q.list /\ k.device = q.device /\ k.calm = q.calm
       /\ k.at = "end" /\ k.dead = dead
  BY <1>1, <1>10 DEF DeviceIsCall
<1>12. PICK added : added = IF q.op = "distrust" THEN Ids(q.list) ELSE {}
  OBVIOUS
<1>13. LedgerOf(account'.trusted, "trusted") /\ LedgerOf(account'.seen, "seen")
  <2>1. <<>> \in Seq(LedgerRecord)
    OBVIOUS
  <2> QED BY <1>5, <1>6, <1>7, <2>1, LedgerEmpty DEF LedgerOf
<1>14. LedgerOf(account.trusted, "trusted")' /\ LedgerOf(account.seen, "seen")'
  <2>1. PICK t, s : t = account'.trusted /\ s = account'.seen
    OBVIOUS
  <2>2. LedgerOf(t, "trusted")' /\ LedgerOf(s, "seen")'
    BY <1>3, <1>13, <2>1, LedgerOfGrows
  <2> QED BY <1>2, <2>1, <2>2 DEF LedgerOf, LedgerRecord
<1>15. /\ Ids(account'.trusted) \subseteq Ids(account.trusted) \cup added
       /\ Ids(account'.seen) \subseteq Ids(account.seen) \cup added
  BY <1>7, <1>12, LedgerEmpty
<1>16. added \subseteq LedgerNames(q) /\ added \cap gone = {}
  BY <1>6, <1>12 DEF LedgerNames
<1>17. k.dead \subseteq LedgerNames(q) \cup Ids(account.seen)
  BY <1>4, <1>9, <1>11 DEF LedgerNames
<1>18. LedgerRevokeHolds(k)'
  <2>1. k.op = "distrust" => LedgerOf(k.list, "trusted")'
    BY <1>3, <1>6, <1>11, LedgerOfGrows
  <2> QED BY <1>2, <1>6, <1>11, <2>1 DEF LedgerRevokeHolds
<1>19. LedgerDeadHolds(k)'
  <2>1. ASSUME NEW e \in dead PROVE LedgerAway(e)' /\ (minted[e].kind = "trusted" => q.op = "distrust")
    <3>1. CASE q.op = "distrust"
      BY <1>2, <1>6, <1>7, <1>9, <2>1, <3>1 DEF LedgerAway
    <3>2. CASE q.op = "forget"
      BY <1>2, <1>5, <1>7, <1>9, <2>1, <3>2, LedgerEmpty DEF LedgerAway, LedgerOf
    <3> QED BY <1>4, <1>9, <2>1, <3>1, <3>2
  <2>2. \A e \in dead : e \in DOMAIN minted' /\ (minted'[e].kind = "trusted" => q.op = "distrust")
    BY <1>2, <2>1 DEF LedgerAway
  <2> QED BY <1>11, <2>1, <2>2 DEF LedgerDeadHolds
\* Of a revocation that another one overlaps nothing is said.
<1>20. ASSUME NEW d \in DeviceCalls, d # c, NEW e \in busy[d].dead, busy[d].calm, LedgerAway(e), e \in added
       PROVE  LedgerAway(e)'
  <2>1. q.op = "distrust" /\ e \in Ids(q.list)
    BY <1>12, <1>20
  <2>2. minted[e].kind = "trusted"
    BY <1>6, <2>1 DEF LedgerOf
  <2>3. busy[d].op = "distrust"
    BY <2>2, LedgerCallIs DEF LedgerCallHolds, LedgerDeadHolds
  <2>4. d = c
    BY <1>1, <1>20, <2>1, <2>3 DEF LedgerInv, LedgerCalm
  <2> QED BY <1>20, <2>4
<1> QED BY <1>1, <1>2, <1>7, <1>10, <1>11, <1>14, <1>15, <1>16, <1>17, <1>18, <1>19, <1>20, LedgerWriteStep, ZenonT(60)

LEMMA LedgerEndStep ==
  ASSUME DeviceInv, LedgerInv, NEW c \in DeviceCalls, Devices!End(c)
  PROVE  LedgerInv'
<1>1. PICK q : q = busy[c] /\ DeviceIsCall(q) /\ LedgerCallHolds(q) /\ q.at = "end"
  BY LedgerCallIs DEF Devices!End, Devices!At
<1>2. UNCHANGED <<setup, account, minted, now>>
  BY DEF Devices!End
<1>3. LedgerGrows
  BY <1>2, LedgerStays DEF LedgerInv, LedgerStoresHold
<1>4. PICK k : Devices!Goes(c, k) /\ (k = Devices!Idle \/ k = [Devices!Idle EXCEPT !.at = "unknown"])
  BY DEF Devices!End
<1>5. DeviceIsCall(k) /\ k.op = "none" /\ k.at \in {"idle", "unknown"} /\ k.list = <<>> /\ k.dead = {}
  BY <1>4 DEF DeviceIsCall, Devices!Idle
<1>6. busy'[c] = k /\ \A d \in DeviceCalls : d # c => busy'[d] = busy[d]
  BY <1>4, <1>5, DeviceCallsMove
<1>7. PICK dead : dead = (IF q.calm THEN q.dead ELSE {}) /\ gone' = gone \cup dead
  BY <1>1 DEF Devices!End
<1>8. ASSUME NEW e, LedgerAway(e) PROVE LedgerAway(e)'
  BY <1>2, <1>8 DEF LedgerAway
<1>9. \A e \in dead : LedgerAway(e) /\ e \in q.dead
  BY <1>1, <1>7 DEF LedgerCallHolds, LedgerDeadHolds
<1>10. LedgerStoresHold'
  <2>1. LedgerRecord' = LedgerRecord /\ LedgerMinted' = LedgerMinted
    BY <1>2 DEF LedgerRecord, LedgerMinted, LedgerAddress
  <2>2. \A e \in gone' : LedgerAway(e)'
    BY <1>7, <1>8, <1>9 DEF LedgerInv, LedgerStoresHold
  <2> QED BY <1>2, <2>1, <2>2 DEF LedgerInv, LedgerStoresHold, LedgerOf
<1>11. LedgerCallHolds(k)'
  <2>1. LedgerCasHolds(k)' /\ LedgerRevokeHolds(k)' /\ LedgerDeadHolds(k)'
    BY <1>5 DEF LedgerCasHolds, LedgerAdds, LedgerRevokeHolds, LedgerDeadHolds
  <2> QED BY <2>1 DEF LedgerCallHolds
<1>12. LedgerNames(k) = {} /\ LedgerAdded(k) = {}
  BY <1>5, LedgerEmpty DEF LedgerNames, LedgerAdded
<1>13. LedgerKnown' \subseteq LedgerKnown \cup LedgerNames(q)
  BY <1>2, <1>7, <1>9 DEF LedgerKnown, LedgerNames
<1>14. LedgerCalm'
  BY <1>5, <1>6 DEF LedgerInv, LedgerCalm
<1>15. \A d \in DeviceCalls : d # c => LedgerFades(busy[d], busy'[d])
  BY <1>6 DEF LedgerFades
<1>16. account'.version \in Nat /\ account' = account
  BY <1>2 DEF DeviceInv, DeviceStoresHold, DeviceFormsHold, DeviceIsRow
<1>17. ASSUME NEW d \in DeviceCalls, d # c, busy[d].op = "distrust", busy[d].at = "write"
       PROVE  Ids(busy[d].list) \cap gone' = {}
  <2>1. LedgerOf(busy[d].list, "trusted") /\ Ids(busy[d].list) \cap gone = {}
    BY <1>17, LedgerCallIs DEF LedgerCallHolds, LedgerRevokeHolds
  <2>2. ASSUME NEW e \in dead, e \in Ids(busy[d].list) PROVE FALSE
    <3>1. minted[e].kind = "trusted" /\ q.calm
      BY <1>7, <2>1, <2>2 DEF LedgerOf
    <3>2. q.op = "distrust"
      BY <1>1, <1>9, <2>2, <3>1 DEF LedgerCallHolds, LedgerDeadHolds
    <3> QED BY <1>1, <1>17, <3>1, <3>2 DEF LedgerInv, LedgerCalm
  <2> QED BY <1>7, <2>1, <2>2
<1>18. \A d \in DeviceCalls : d # c => \A e \in busy[d].dead : busy'[d].calm /\ LedgerAway(e) => LedgerAway(e)'
  BY <1>8
<1> QED BY <1>1, <1>3, <1>6, <1>10, <1>11, <1>12, <1>13, <1>14, <1>15, <1>16, <1>17, <1>18, LedgerStep

LEMMA LedgerRevokeTrustedStep ==
  ASSUME DeviceInv, LedgerInv, NEW c \in DeviceCalls, NEW d, Devices!RevokeTrustedDevice(c, d)
  PROVE  LedgerInv'
<1>1. UNCHANGED <<setup, account, minted, now, gone>>
  BY DEF Devices!RevokeTrustedDevice, Devices!ghosts
<1>2. LedgerGrows
  BY <1>1, LedgerStays DEF LedgerInv, LedgerStoresHold
<1>3. PICK list, calm : /\ list = Without(account.trusted, d)
                        /\ calm = (Devices!Running("distrust") = {})
  OBVIOUS
<1>4. PICK k : k = [Devices!Idle EXCEPT !.op = "distrust", !.at = "write", !.device = d, !.list = list, !.calm = calm]
  OBVIOUS
<1>5. /\ k.op = "distrust" /\ k.at = "write" /\ k.device = d /\ k.list = list /\ k.calm = calm
      /\ k.dead = {}
  BY <1>4 DEF Devices!Idle
<1>6. busy' = [p \in DeviceCalls |-> IF p = c THEN k ELSE [busy[p] EXCEPT !.calm = @ /\ busy[p].op # "distrust"]]
  BY <1>3, <1>4, LedgerOperators DEF Devices!RevokeTrustedDevice
<1>7. busy'[c] = k
  BY <1>6
<1>8. ASSUME NEW p \in DeviceCalls, p # c
      PROVE  LedgerFades(busy[p], busy'[p]) /\ (busy'[p].calm => busy[p].op # "distrust")
  <2>1. PICK q : q = busy[p] /\ DeviceIsCall(q)
    BY LedgerCallIs
  <2>2. PICK b : b = (q.calm /\ q.op # "distrust")
    OBVIOUS
  <2>3. PICK m : m = [q EXCEPT !.calm = b]
    OBVIOUS
  <2>4. busy'[p] = m
    BY <1>6, <1>8, <2>1, <2>2, <2>3
  <2>5. /\ m.at = q.at /\ m.op = q.op /\ m.device = q.device /\ m.list = q.list
        /\ m.past = q.past /\ m.version = q.version /\ m.dead = q.dead /\ m.calm = b
    BY <2>1, <2>3 DEF DeviceIsCall
  <2> QED BY <2>1, <2>2, <2>4, <2>5 DEF LedgerFades
<1>9. LedgerOf(account.trusted, "trusted") /\ d \in Ids(account.trusted)
  BY LedgerOperators DEF LedgerInv, LedgerStoresHold, Devices!RevokeTrustedDevice
<1>10. list \in Seq(LedgerRecord) /\ Ids(list) = Ids(account.trusted) \ {d}
  BY <1>3, <1>9, WithoutIs DEF LedgerOf
<1>11. LedgerOf(list, "trusted") /\ d \in DOMAIN minted /\ minted[d].kind = "trusted"
  BY <1>9, <1>10 DEF LedgerOf
<1>12. Ids(list) \cap gone = {}
  <2>1. \A e \in gone : LedgerAway(e)
    BY DEF LedgerInv, LedgerStoresHold
  <2> QED BY <1>11, <2>1, <1>10 DEF LedgerOf, LedgerAway
<1>13. LedgerCallHolds(k)'
  <2>1. LedgerOf(list, "trusted")'
    BY <1>2, <1>11, LedgerOfGrows
  <2>2. LedgerRevokeHolds(k)'
    BY <1>1, <1>5, <1>10, <1>11, <1>12, <2>1 DEF LedgerRevokeHolds
  <2>3. LedgerCasHolds(k)' /\ LedgerDeadHolds(k)'
    BY <1>5 DEF LedgerCasHolds, LedgerAdds, LedgerDeadHolds
  <2> QED BY <2>2, <2>3 DEF LedgerCallHolds
<1>14. LedgerStoresHold'
  <2>1. LedgerRecord' = LedgerRecord /\ LedgerMinted' = LedgerMinted
    BY <1>1 DEF LedgerRecord, LedgerMinted, LedgerAddress
  <2>2. ASSUME NEW e, LedgerAway(e) PROVE LedgerAway(e)'
    BY <1>1, <2>2 DEF LedgerAway
  <2> QED BY <1>1, <2>1, <2>2 DEF LedgerInv, LedgerStoresHold, LedgerOf
<1>15. LedgerCalm'
  <2>1. calm => \A p \in DeviceCalls : busy[p].op # "distrust"
    BY <1>3 DEF Devices!Running
  <2>2. \A p \in DeviceCalls : p # c => busy'[p].op = busy[p].op
    BY <1>8 DEF LedgerFades
  <2> QED BY <1>5, <1>7, <1>8, <2>1, <2>2 DEF LedgerCalm
<1>16. /\ LedgerKnown' = LedgerKnown /\ LedgerNames(k) \subseteq LedgerKnown /\ LedgerAdded(k) = {}
       /\ LedgerNames(k) \subseteq DOMAIN minted'
  BY <1>1, <1>5, <1>9, <1>10, <1>11 DEF LedgerKnown, LedgerNames, LedgerAdded, LedgerAdds, LedgerOf
<1>17. account'.version \in Nat
  BY <1>1 DEF DeviceInv, DeviceStoresHold, DeviceFormsHold, DeviceIsRow
<1>18. \A p \in DeviceCalls : busy[p].op = "distrust" /\ busy[p].at = "write" => Ids(busy[p].list) \cap gone' = {}
  BY <1>1 DEF LedgerInv, LedgerCallsHold, LedgerCallHolds, LedgerRevokeHolds
<1>19. ASSUME NEW e, LedgerAway(e) PROVE LedgerAway(e)'
  BY <1>1, <1>19 DEF LedgerAway
<1> QED BY <1>1, <1>2, <1>7, <1>8, <1>13, <1>14, <1>15, <1>16, <1>17, <1>18, <1>19, LedgerStep


(* ------------------------- The ledger is inductive ------------------------ *)
LEMMA LedgerInvInit == Devices!Init => LedgerInv
<1> SUFFICES ASSUME Devices!Init PROVE LedgerInv
  OBVIOUS
<1>1. /\ account.trusted = <<>> /\ account.seen = <<>>
      /\ minted = <<>> /\ now = 0 /\ gone = {} /\ busy = [c \in DeviceCalls |-> Devices!Idle]
  BY DEF Devices!Init
<1>2. PICK k : k = Devices!Idle
  OBVIOUS
<1>3. k.op = "none" /\ k.at = "idle" /\ k.list = <<>> /\ k.dead = {}
  BY <1>2 DEF Devices!Idle
<1>4. \A c \in DeviceCalls : busy[c] = k
  BY <1>1, <1>2
<1>5. LedgerStoresHold
  <2>1. LedgerOf(<<>>, "trusted") /\ LedgerOf(<<>>, "seen")
    BY LedgerEmpty DEF LedgerOf
  <2> QED BY <1>1, <2>1 DEF LedgerStoresHold
<1>6. LedgerCallHolds(k)
  BY <1>3 DEF LedgerCallHolds, LedgerCasHolds, LedgerAdds, LedgerRevokeHolds, LedgerDeadHolds
<1>7. LedgerApart
  <2>1. LedgerNames(k) = {} /\ LedgerAdded(k) = {}
    BY <1>3, LedgerEmpty DEF LedgerNames, LedgerAdded, LedgerAdds
  <2> QED BY <1>4, <2>1 DEF LedgerApart
<1>8. LedgerCalm
  BY <1>3, <1>4 DEF LedgerCalm
<1> QED BY <1>4, <1>5, <1>6, <1>7, <1>8 DEF LedgerInv, LedgerCallsHold

LEMMA LedgerInvStep ==
  Devices!DeploymentsHold /\ DeviceInv /\ LedgerInv /\ [Devices!Next]_Devices!vars => LedgerInv'
<1> SUFFICES ASSUME Devices!DeploymentsHold, DeviceInv, LedgerInv, [Devices!Next]_Devices!vars PROVE LedgerInv'
  OBVIOUS
<1>1. ASSUME NEW c \in DeviceCalls,
             \/ Devices!Trust(c) \/ Devices!RevokeSeenDevices(c) \/ Devices!WriteElse(c) \/ Devices!Update(c) \/ Devices!CasRead(c)
             \/ Devices!CasWrite(c) \/ Devices!End(c) \/ Devices!Unrecognized(c) \/ Devices!Fail(c)
      PROVE  LedgerInv'
  BY <1>1, LedgerTrustStep, LedgerStartStep, LedgerUpdateStep, LedgerCasReadStep,
     LedgerCasWriteStep, LedgerEndStep, LedgerRecognitionStep
<1>2. ASSUME NEW c \in DeviceCalls, NEW d,
             Devices!RevokeTrustedDevice(c, d) \/ Devices!DeviceRecognition(c, d) PROVE LedgerInv'
  BY <1>2, LedgerRevokeTrustedStep, LedgerRecognitionStep
<1>3. ASSUME NEW c \in DeviceCalls, NEW new \in 1 .. MaxPassword,
             Devices!ApplyPasswordChange(c, new) PROVE LedgerInv'
  BY <1>3, LedgerStartStep
<1>4. now \in Int
  BY DEF LedgerInv, LedgerStoresHold
<1>5. ASSUME NEW s \in Scopes,
             Devices!GetUserSnapshot(s) \/ Devices!SnapshotReads(s) \/ Devices!SnapshotFails(s) PROVE LedgerInv'
  <2>1. UNCHANGED <<account, busy, gone, setup, minted, now>>
    BY <1>5 DEF Devices!GetUserSnapshot, Devices!SnapshotReads, Devices!SnapshotFails, Devices!ghosts
  <2>2. now' \in Int /\ now <= now'
    BY <1>4, <2>1
  <2> QED BY <2>1, <2>2, LedgerIdleStep
<1>6. CASE Devices!Tick \/ UNCHANGED Devices!vars
  <2>1. UNCHANGED <<account, busy, gone, setup, minted>> /\ (now' = now + 1 \/ now' = now)
    BY <1>6 DEF Devices!Tick, Devices!vars, Devices!ghosts
  <2>2. now' \in Int /\ now <= now'
    BY <1>4, <2>1
  <2> QED BY <2>1, <2>2, LedgerIdleStep
<1> QED BY <1>1, <1>2, <1>3, <1>5, <1>6 DEF Devices!Next

(* ------------------------- What the ledger shows -------------------------- *)
LEMMA LedgerVerifies ==
  ASSUME NEW d, NEW ip, Devices!VerifyTrustedDevice(d, ip)
  PROVE  minted[d].kind = "trusted" /\ d \in Ids(account.trusted)
<1>1. minted[d] = [kind |-> "trusted", ip |-> ip]
  BY Zenon DEF Devices!VerifyTrustedDevice
<1>2. \E i \in DOMAIN account.trusted : account.trusted[i].id = d
  BY Zenon DEF Devices!VerifyTrustedDevice
<1> QED BY <1>1, <1>2 DEF Ids

LEMMA LedgerForgets == LedgerInv => Devices!RevokedIsUnknown
<1> SUFFICES ASSUME LedgerInv, NEW d \in gone
             PROVE  ~Devices!VerifySeenDevice(d) /\ \A ip : ~Devices!VerifyTrustedDevice(d, ip)
  BY DEF Devices!RevokedIsUnknown
<1>1. LedgerAway(d)
  BY DEF LedgerInv, LedgerStoresHold
<1>2. ~Devices!VerifySeenDevice(d)
  <2>1. account.seen \in Seq(LedgerRecord)
    BY DEF LedgerInv, LedgerStoresHold, LedgerOf
  <2>2. Ids(Unexpired(account.seen, now)) \subseteq Ids(account.seen)
    BY <2>1, UnexpiredIs
  <2> QED BY <1>1, <2>2, LedgerOperators DEF Devices!VerifySeenDevice, LedgerAway
<1>3. ASSUME NEW ip, Devices!VerifyTrustedDevice(d, ip) PROVE FALSE
  BY <1>1, <1>3, LedgerVerifies DEF LedgerAway
<1> QED BY <1>2, <1>3

LEMMA LedgerKeepsWhat ==
  ASSUME account'.seen = <<>> \/ LosesNone(account.seen, account'.seen, setup.cap, now)
  PROVE  Devices!LedgerKeeps
<1>1. Devices!Ids(account'.seen) = Ids(account'.seen)
  BY LedgerOperators
<1> QED BY <1>1 DEF Devices!LedgerKeeps, LosesNone

LEMMA LedgerKeepsStep == DeviceInv /\ LedgerInv /\ [Devices!Next]_Devices!vars => Devices!LedgerKeeps
<1> SUFFICES ASSUME DeviceInv, LedgerInv, [Devices!Next]_Devices!vars PROVE Devices!LedgerKeeps
  OBVIOUS
<1>1. ASSUME account'.seen = account.seen PROVE Devices!LedgerKeeps
  <2>1. LosesNone(account.seen, account'.seen, setup.cap, now)
    BY <1>1 DEF LosesNone, Ids
  <2> QED BY <2>1, LedgerKeepsWhat
<1>2. ASSUME NEW c \in DeviceCalls, Devices!CasWrite(c) PROVE Devices!LedgerKeeps
  <2>1. PICK q : q = busy[c] /\ LedgerCallHolds(q) /\ q.at = "cas"
    BY <1>2, LedgerCallIs DEF Devices!CasWrite, Devices!At
  <2>2. CASE Devices!CasApplies(q)
    <3>1. LedgerMakes(q)
      BY <2>1, <2>2 DEF LedgerCallHolds, LedgerCasHolds, Devices!CasApplies
    <3>2. account'.seen = IF q.op = "trust" THEN account.seen ELSE q.past
      BY <1>2, <2>1, <2>2, LedgerCasWrites
    <3>3. CASE q.op = "trust"
      BY <1>1, <3>2, <3>3
    <3>4. CASE q.op # "trust"
      <4>1. LosesNone(account.seen, account'.seen, setup.cap, now)
        BY <3>1, <3>2, <3>4 DEF LedgerMakes
      <4> QED BY <4>1, LedgerKeepsWhat
    <3> QED BY <3>3, <3>4
  <2>3. CASE ~Devices!CasApplies(q)
    <3>1. UNCHANGED account
      BY <1>2, <2>1, <2>3 DEF Devices!CasWrite
    <3> QED BY <1>1, <3>1
  <2> QED BY <2>2, <2>3
<1>3. ASSUME NEW c \in DeviceCalls, Devices!Update(c) PROVE Devices!LedgerKeeps
  <2>1. account'.seen = <<>> \/ account'.seen = account.seen
    BY <1>3, LedgerUpdateWrites
  <2> QED BY <1>1, <2>1, LedgerKeepsWhat
<1>4. ASSUME NEW c \in DeviceCalls,
             \/ Devices!Trust(c) \/ Devices!RevokeSeenDevices(c) \/ Devices!WriteElse(c) \/ Devices!CasRead(c)
             \/ Devices!End(c) \/ Devices!Unrecognized(c) \/ Devices!Fail(c)
             \/ \E d : Devices!RevokeTrustedDevice(c, d) \/ Devices!DeviceRecognition(c, d)
             \/ \E new : Devices!ApplyPasswordChange(c, new)
      PROVE  Devices!LedgerKeeps
  <2>1. UNCHANGED account
    BY <1>4 DEF Devices!Trust, Devices!RevokeSeenDevices, Devices!WriteElse, Devices!CasRead, Devices!End,
          Devices!Unrecognized, Devices!Fail, Devices!RevokeTrustedDevice, Devices!DeviceRecognition,
          Devices!ApplyPasswordChange
  <2> QED BY <1>1, <2>1
<1>5. ASSUME NEW s \in Scopes,
             Devices!GetUserSnapshot(s) \/ Devices!SnapshotReads(s) \/ Devices!SnapshotFails(s)
      PROVE  Devices!LedgerKeeps
  BY <1>1, <1>5 DEF Devices!GetUserSnapshot, Devices!SnapshotReads, Devices!SnapshotFails
<1>6. CASE Devices!Tick \/ UNCHANGED Devices!vars
  BY <1>1, <1>6 DEF Devices!Tick, Devices!vars
<1> QED BY <1>2, <1>3, <1>4, <1>5, <1>6 DEF Devices!Next

(* ----------------------- The ledger in Accounts --------------------------- *)
LEMMA LedgerBegins == AccountsInit => (start = "devices" => LedgerInv)
  BY LedgerInvInit DEF AccountsInit

LEMMA LedgerGoesOn ==
  ASSUME start = "devices" => DeviceInv /\ LedgerInv, [AccountsNext]_accountsVars
  PROVE  /\ (start = "devices" => LedgerInv)'
         /\ [start = "devices" => Devices!RevokedIsUnknown' /\ Devices!LedgerKeeps]_deviceVars
<1>1. start' = start
  BY DEF AccountsNext, accountsVars
<1>2. CASE start # "devices"
  BY <1>1, <1>2
<1>3. CASE start = "devices"
  <2>1. [Devices!Next]_Devices!vars
    BY <1>3 DEF AccountsNext, accountsVars, deviceVars, Devices!vars
  <2>2. LedgerInv' /\ Devices!LedgerKeeps
    BY <1>3, <2>1, LedgerInvStep, LedgerKeepsStep, DeviceAssumption
  <2>3. Devices!RevokedIsUnknown'
    BY <2>2, LedgerForgets, PTL
  <2> QED BY <2>2, <2>3
<1> QED BY <1>2, <1>3

\* The inductive invariant: the lists of the account, and those that calls are about to
\* write, are of devices minted for them; a compare-and-set whose version is still the
\* row's has in hand what the mutator makes of the row; and what was revoked is on no list
\* and on none that a revocation will write back.
THEOREM LedgerInvCorrect == AccountsSpec => [](start = "devices" => LedgerInv)
<1>1. AccountsInit => (start = "devices" => LedgerInv)
  BY LedgerBegins
<1>2. (start = "devices" => DeviceInv) /\ (start = "devices" => LedgerInv) /\ [AccountsNext]_accountsVars
         => (start = "devices" => LedgerInv)'
  BY LedgerGoesOn
<1> QED BY <1>1, <1>2, DeviceInvCorrect, PTL DEF AccountsSpec

\* A device whose trust was revoked, or whose record in the ledger was, is not known
\* again, whatever sign-ins add or slide at that moment; and no step drops a record that
\* has not expired, but a revocation of all of them or a full ledger, which drops those
\* that end first (revokeTrustedDevice, revokeSeenDevices, addTrustedDevice and
\* addSeenDevice through withCas, the cap of the ledger).
THEOREM RevokedDevicesStayOut == AccountsSpec => DevicesAreKept
<1>1. (start = "devices" => DeviceInv) /\ (start = "devices" => LedgerInv) /\ [AccountsNext]_accountsVars
         => [start = "devices" => Devices!RevokedIsUnknown' /\ Devices!LedgerKeeps]_deviceVars
  BY LedgerGoesOn
<1> QED BY <1>1, DeviceInvCorrect, LedgerInvCorrect, PTL DEF AccountsSpec, DevicesAreKept
=============================================================================
